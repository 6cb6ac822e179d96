--------------------------- MODULE Startup_proofs ---------------------------
(***************************************************************************)
(* What holds of Startup for every environment and whatever may throw.     *)
(*                                                                         *)
(* The invariant has two halves.  Before anything has thrown, the statement*)
(* main() is at says what has been built.  After, what is left is told by  *)
(* whether there was a consumer thread and by how far ~KafkaClient is.     *)
(***************************************************************************)
EXTENDS Startup, TLAPS

BothParts == {"producer", "consumer"}
AtWork == {"loop", "process", "callback"}

\* What main() has built at each of its statements.
Building ==
  failedAt = "none" =>
    /\ pc \notin {"unwind", "exit", "over"}
    /\ dtor = "none" /\ dtorBy = Main
    /\ pc \in {"read", "repository"} => held = {}
    /\ pc = "repository" => nread = Len(Required)
    /\ pc # "read" => nread = Len(Required)
    /\ pc = "client" => held = {"repository"}
    /\ pc = "service" => held = {"repository", "client"}
    /\ pc \in {"producer", "consumer", "subscribe", "start", "thread", "handler"}
         => held = {"repository", "client", "service"}
    /\ pc = "server" => held = {"repository", "client", "service", "handler"}
    /\ pc \in {"publish", "listen", "log", "wait"} => held = LocalNames
    /\ published <=> pc \in {"listen", "log", "wait"}
    /\ pc \in {"read", "repository", "client", "service", "producer"} => parts = {}
    /\ pc \in {"consumer", "subscribe"} => parts = {"producer"}
    /\ pc \in {"start", "thread"} \cup PastStart \cup {"publish", "wait"}
         => parts = BothParts /\ initialized
    /\ pc \in {"thread"} \cup PastStart \cup {"publish", "wait"} <=> running
    /\ pc \in PastStart \cup {"publish", "wait"} <=> worker \in AtWork
    /\ worker # "exited" /\ fate \in {"alive", "crashed"}

\* What is left after an exception.
Unwinding ==
  failedAt # "none" =>
    /\ pc \in {"unwind", "exit", "over"}
    /\ failedAt \notin PastStart => worker = "none" /\ ~published /\ dtorBy = Main
    /\ failedAt \in PastStart => worker # "none"
    /\ pc \in {"exit", "over"} => held = {}
    /\ pc = "unwind" /\ failedAt = "log" => published
    /\ pc = "over" => fate = "failed"
    /\ failedAt \in PastStart /\ dtor = "none" => worker \in AtWork /\ running
    /\ dtor = "none" => (parts # {} => ClientAlive)
    /\ worker \in AtWork =>
         /\ dtor \in {"none", "stop", "join"}
         /\ parts = BothParts /\ initialized
         /\ dtor \in {"none", "stop"} => running
    /\ dtor = "producer" => parts \subseteq {"producer"}
    /\ dtor = "done" => parts = {}
    /\ fate = "terminated" => failedAt \in PastStart
    /\ fate = "failed" =>
         held = {} /\ ~published /\ (failedAt \notin PastStart => parts = {})

\* The consumer thread holds the service exactly in the callback.
SelfInCallback == self <=> worker = "callback"

Inv == TypeOK /\ Building /\ Unwinding /\ SelfInCallback

\* An object is alive while one that holds it is.
LEMMA Chain ==
  /\ self => ServiceAlive
  /\ ServiceAlive => ClientAlive /\ RepositoryAlive
BY DEF ServiceAlive, ClientAlive, RepositoryAlive

LEMMA LocalNamesAre ==
  LocalNames = {"repository", "client", "service", "handler", "server"}
<1>1. DOMAIN Locals = 1..5
  BY DEF Locals
<1> QED
  BY <1>1, SMT DEF LocalNames, Locals

LEMMA LenRequired == Len(Required) = 13
BY DEF Required

USE DEF Building, Unwinding, SelfInCallback, PastStart, AtWork, BothParts, Main, Worker,
        Statements

LEMMA InitInv == Init => Inv
<1> SUFFICES ASSUME Init PROVE Inv
  OBVIOUS
<1>1. env \in [Variables -> {"set", "malformed", "absent"}]
  BY StartupAssumption DEF Init
<1>2. nread \in 0..Len(Required)
  BY LenRequired DEF Init
<1>3. TypeOK
  BY <1>1, <1>2 DEF Init, TypeOK
<1> QED
  BY <1>3 DEF Init, Inv

-----------------------------------------------------------------------------
(***************************************************************************)
(* main() builds.  Nothing has thrown yet; the statement at hand goes on   *)
(* or throws.                                                              *)
(***************************************************************************)

LEMMA Untouched ==
  ASSUME Inv, UNCHANGED <<held, published, self>>, UNCHANGED <<dtor, dtorBy>>
  PROVE  /\ (dtor' # "none" => ~ClientAlive')
         /\ (ClientAlive' <=> ClientAlive)
BY DEF Inv, TypeOK, ClientAlive, ServiceAlive, HandlerAlive, ServerAlive

LEMMA ReadStep ==
  ASSUME Inv, ReadVariable \/ HaveConfig
  PROVE  Inv'
<1>1. /\ pc = "read" /\ fate = "alive" /\ failedAt = "none"
      /\ UNCHANGED <<env, held, published, self, parts, initialized, running, worker,
                     dtor, dtorBy, fate>>
  BY DEF Inv, ReadVariable, HaveConfig, At
<1>2. nread' \in 0..Len(Required)
  BY LenRequired DEF Inv, TypeOK, ReadVariable, HaveConfig
<1>3. \/ pc' = "read" /\ failedAt' = "none"
      \/ pc' = "unwind" /\ failedAt' = "read"
      \/ pc' = "repository" /\ failedAt' = "none" /\ nread' = Len(Required)
  BY <1>1 DEF ReadVariable, HaveConfig, Throw, Go
<1>4. TypeOK'
  BY <1>1, <1>2, <1>3, Untouched DEF Inv, TypeOK
<1> QED
  BY <1>1, <1>3, <1>4, Untouched DEF Inv, TypeOK

LEMMA MakeStep ==
  ASSUME Inv, MakeObjects
  PROVE  Inv'
<1>1. /\ fate = "alive" /\ failedAt = "none" /\ nread = Len(Required)
      /\ pc \in {"repository", "client", "service", "handler", "server"}
      /\ UNCHANGED <<env, nread, published, self, parts, initialized, running, worker,
                     dtor, dtorBy, fate>>
  BY DEF Inv, MakeObjects, Make, At
<1>2. \/ /\ failedAt' = pc /\ pc' = "unwind" /\ held' = held
      \/ /\ failedAt' = failedAt /\ held' = held \cup {pc}
         /\ \/ pc = "repository" /\ pc' = "client"
            \/ pc = "client" /\ pc' = "service"
            \/ pc = "service" /\ pc' = "producer"
            \/ pc = "handler" /\ pc' = "server"
            \/ pc = "server" /\ pc' = "publish"
  BY <1>1 DEF MakeObjects, Make, At, Go, Throw
<1>3. dtor = "none" /\ dtorBy = Main /\ ~published
  BY <1>1 DEF Inv
<1>4. TypeOK'
  BY <1>1, <1>2, <1>3, LocalNamesAre DEF Inv, TypeOK
<1>5. Building'
  BY <1>1, <1>2, <1>3, LocalNamesAre DEF Inv
<1>6. Unwinding'
  <2> SUFFICES ASSUME failedAt' # "none" PROVE Unwinding'
    OBVIOUS
  <2>1. failedAt' = pc /\ pc' = "unwind" /\ held' = held
    BY <1>1, <1>2
  <2>2. parts # {} => "client" \in held
    BY <1>1 DEF Inv
  <2>3. parts' # {} => ClientAlive'
    BY <1>1, <2>1, <2>2 DEF ClientAlive
  <2>4. pc \notin PastStart => worker = "none"
    BY <1>1 DEF Inv, TypeOK
  <2>5. pc \in PastStart => worker \in AtWork
    BY <1>1 DEF Inv
  <2>6. worker \in AtWork => parts = BothParts /\ initialized /\ running
    BY <1>1 DEF Inv
  <2> QED
    BY <1>1, <1>3, <2>1, <2>3, <2>4, <2>5, <2>6
<1>7. SelfInCallback'
  BY <1>1 DEF Inv
<1> QED
  BY <1>4, <1>5, <1>6, <1>7 DEF Inv

LEMMA InitializeStep ==
  ASSUME Inv, MakeProducer \/ MakeConsumer \/ Subscribe
  PROVE  Inv'
<1>1. /\ fate = "alive" /\ failedAt = "none" /\ nread = Len(Required)
      /\ held = {"repository", "client", "service"}
      /\ UNCHANGED <<env, nread, held, published, self, running, worker, dtor, dtorBy, fate>>
  BY DEF Inv, MakeProducer, MakeConsumer, Subscribe, At
<1>2. \/ failedAt' = pc /\ pc' = "unwind" /\ UNCHANGED <<parts, initialized>>
      \/ /\ failedAt' = failedAt
         /\ \/ /\ pc = "producer" /\ pc' = "consumer" /\ parts' = parts \cup {"producer"}
               /\ initialized' = initialized
            \/ pc = "consumer" /\ pc' = "subscribe" /\ UNCHANGED <<parts, initialized>>
            \/ /\ pc = "subscribe" /\ pc' = "start" /\ parts' = parts \cup {"consumer"}
               /\ initialized' = TRUE
  BY <1>1 DEF MakeProducer, MakeConsumer, Subscribe, At, Go, Throw
<1>3. /\ dtor = "none" /\ dtorBy = Main /\ ~published /\ ClientAlive' /\ worker = "none"
      /\ pc \in {"producer", "consumer", "subscribe"}
  <2>1. pc \in {"producer", "consumer", "subscribe"}
    BY DEF MakeProducer, MakeConsumer, Subscribe, At
  <2>2. worker = "none"
    BY <1>1, <2>1 DEF Inv, TypeOK
  <2>3. ClientAlive'
    BY <1>1 DEF ClientAlive
  <2> QED
    BY <1>1, <2>1, <2>2, <2>3 DEF Inv
<1>4. TypeOK'
  BY <1>1, <1>2, <1>3 DEF Inv, TypeOK
<1>5. Building'
  BY <1>1, <1>2, <1>3 DEF Inv
<1>6. Unwinding'
  BY <1>1, <1>2, <1>3 DEF Inv
<1> QED
  BY <1>1, <1>4, <1>5, <1>6 DEF Inv

LEMMA StartStep ==
  ASSUME Inv, StartConsumer \/ CreateThread
  PROVE  Inv'
<1>1. /\ fate = "alive" /\ failedAt = "none" /\ nread = Len(Required)
      /\ held = {"repository", "client", "service"}
      /\ UNCHANGED <<env, nread, held, published, self, parts, initialized, dtor, dtorBy, fate>>
  BY DEF Inv, StartConsumer, CreateThread, At
<1>2. /\ dtor = "none" /\ dtorBy = Main /\ ~published /\ ClientAlive' /\ initialized
      /\ worker = "none" /\ parts = BothParts /\ pc \in {"start", "thread"} /\ ~self
  <2>1. pc \in {"start", "thread"}
    BY DEF StartConsumer, CreateThread, At
  <2>2. worker = "none"
    BY <1>1, <2>1 DEF Inv, TypeOK
  <2>3. ClientAlive'
    BY <1>1 DEF ClientAlive
  <2>4. ~self
    BY <2>2 DEF Inv, TypeOK
  <2> QED
    BY <1>1, <2>1, <2>2, <2>3, <2>4 DEF Inv
<1>3. \/ /\ pc = "start" /\ pc' = "thread" /\ running' = TRUE
         /\ UNCHANGED <<failedAt, worker>>
      \/ /\ pc = "thread" /\ pc' = "handler" /\ worker' = "loop"
         /\ UNCHANGED <<failedAt, running>>
      \/ /\ pc = "thread" /\ pc' = "unwind" /\ failedAt' = "thread"
         /\ UNCHANGED <<worker, running>>
  BY <1>1, <1>2 DEF StartConsumer, CreateThread, At, Go, Throw
<1>4. TypeOK'
  BY <1>1, <1>2, <1>3 DEF Inv, TypeOK
<1>5. Building'
  BY <1>1, <1>2, <1>3 DEF Inv
<1>6. Unwinding'
  BY <1>1, <1>2, <1>3 DEF Inv
<1>7. SelfInCallback'
  BY <1>1, <1>2, <1>3 DEF Inv
<1> QED
  BY <1>4, <1>5, <1>6, <1>7 DEF Inv

LEMMA ServeStep ==
  ASSUME Inv, Publish \/ Listen \/ LogListening
  PROVE  Inv'
<1>1. /\ fate = "alive" /\ failedAt = "none" /\ nread = Len(Required) /\ held = LocalNames
      /\ UNCHANGED <<env, nread, held, self, parts, initialized, running, worker, dtor, dtorBy>>
  BY DEF Inv, Publish, Listen, LogListening, At
<1>2. /\ dtor = "none" /\ dtorBy = Main /\ ClientAlive' /\ initialized /\ running
      /\ worker \in AtWork /\ parts = BothParts
  BY <1>1, LocalNamesAre DEF Inv, Publish, Listen, LogListening, At, ClientAlive
<1>3. \/ /\ pc = "publish" /\ pc' = "listen" /\ published' /\ fate' = "alive"
         /\ failedAt' = "none"
      \/ /\ pc = "listen" /\ pc' = "log" /\ published' = published /\ fate' = "alive"
         /\ failedAt' = "none"
      \/ /\ pc = "listen" /\ pc' = "listen" /\ published' = published /\ fate' = "crashed"
         /\ failedAt' = "none"
      \/ /\ pc = "log" /\ pc' = "wait" /\ published' = published /\ fate' = "alive"
         /\ failedAt' = "none"
      \/ /\ pc \in {"listen", "log"} /\ pc' = "unwind" /\ published' = published
         /\ fate' = "alive" /\ failedAt' = pc
  BY <1>1 DEF Publish, Listen, LogListening, At, Go, Throw
<1>4. TypeOK'
  BY <1>1, <1>2, <1>3 DEF Inv, TypeOK
<1>5. Building'
  BY <1>1, <1>2, <1>3 DEF Inv
<1>6. Unwinding'
  BY <1>1, <1>2, <1>3 DEF Inv
<1>7. SelfInCallback'
  BY <1>1 DEF Inv
<1> QED
  BY <1>4, <1>5, <1>6, <1>7 DEF Inv

-----------------------------------------------------------------------------
(***************************************************************************)
(* The way out.                                                            *)
(***************************************************************************)

\* References only go: the client is dropped once, and its destructor starts.
LEMMA DroppedKeeps ==
  ASSUME Inv, Dropped(Main) \/ Dropped(Worker),
         held' \subseteq held, published' => published, self' => self
  PROVE  /\ ClientAlive' => ClientAlive
         /\ dtor' # "none" => ~ClientAlive'
         /\ dtor' = "none" => dtor = "none" /\ (ClientAlive => ClientAlive')
         /\ dtor' = dtor \/ (dtor = "none" /\ dtor' = "stop")
         /\ dtor' \in {"none", "stop", "join", "flush", "consumer", "producer", "done"}
         /\ dtorBy' \in {Main, Worker}
<1>1. ClientAlive' => ClientAlive
  BY DEF ClientAlive, ServiceAlive, HandlerAlive, ServerAlive
<1>2. dtor # "none" => ~ClientAlive
  BY DEF Inv, TypeOK
<1>3. /\ dtor \in {"none", "stop", "join", "flush", "consumer", "producer", "done"}
      /\ dtorBy \in {Main, Worker}
  BY DEF Inv, TypeOK
<1> QED
  BY <1>1, <1>2, <1>3, SMT DEF Dropped

\* Only a client that is being dropped while the consumer thread is in the
\* callback is left to that thread.
LEMMA DropStep ==
  ASSUME Inv, DropLocal \/ DropServer
  PROVE  Inv'
<1>1. /\ fate = "alive" /\ failedAt # "none" /\ pc \in {"unwind", "exit"} /\ ~Busy(Main)
      /\ held' \subseteq held /\ (published' => published) /\ Dropped(Main)
      /\ (pc = "unwind" => published' = published)
      /\ UNCHANGED <<env, nread, pc, failedAt, self, parts, initialized, running,
                     worker, fate>>
  BY DEF Inv, DropLocal, DropServer, At
<1>2. /\ ClientAlive' => ClientAlive
      /\ dtor' # "none" => ~ClientAlive'
      /\ dtor' = "none" => dtor = "none" /\ (ClientAlive => ClientAlive')
      /\ dtor' = dtor \/ (dtor = "none" /\ dtor' = "stop")
      /\ dtor' \in {"none", "stop", "join", "flush", "consumer", "producer", "done"}
      /\ dtorBy' \in {Main, Worker}
  BY <1>1, DroppedKeeps
<1>3. dtorBy = Main => dtorBy' = Main
  BY <1>1 DEF Dropped
<1>4. published' \in BOOLEAN
  BY DEF Inv, TypeOK, DropLocal, DropServer
<1>5. TypeOK'
  BY <1>1, <1>2, <1>4 DEF Inv, TypeOK
<1>6. Building'
  BY <1>1
<1>7. Unwinding'
  BY <1>1, <1>2, <1>3 DEF Inv
<1>8. SelfInCallback'
  BY <1>1 DEF Inv
<1> QED
  BY <1>5, <1>6, <1>7, <1>8 DEF Inv

LEMMA CatchStep ==
  ASSUME Inv, Catch
  PROVE  Inv'
<1>1. /\ failedAt # "none" /\ held = {} /\ pc' = "exit"
      /\ UNCHANGED <<env, nread, failedAt, held, published, self, parts, initialized,
                     running, worker, dtor, dtorBy, fate>>
  BY DEF Inv, Catch, At, Go
<1>2. TypeOK'
  BY <1>1, Untouched DEF Inv, TypeOK
<1>3. Unwinding'
  BY <1>1, Untouched DEF Inv
<1> QED
  BY <1>1, <1>2, <1>3 DEF Inv

\* Status 1: when nothing was left to the consumer thread, ~KafkaClient has run
\* to its end, on the main thread, before main() went on.
LEMMA ExitStep ==
  ASSUME Inv, Exit
  PROVE  Inv'
<1>1. /\ fate = "alive" /\ failedAt # "none" /\ held = {} /\ ~published /\ ~Busy(Main)
      /\ pc' = "over" /\ fate' = "failed"
      /\ UNCHANGED <<env, nread, failedAt, held, published, self, parts, initialized,
                     running, worker, dtor, dtorBy>>
  BY DEF Inv, Exit, At, Go
<1>2. failedAt \notin PastStart => parts = {}
  <2> SUFFICES ASSUME failedAt \notin PastStart PROVE parts = {}
    OBVIOUS
  <2>1. worker = "none" /\ dtorBy = Main
    BY <1>1 DEF Inv
  <2>2. ~self
    BY <2>1 DEF Inv, TypeOK
  <2>3. ~ClientAlive
    BY <1>1, <2>2 DEF ClientAlive, ServiceAlive, HandlerAlive, ServerAlive
  <2>4. dtor \in {"none", "done"}
    BY <1>1, <2>1 DEF Busy
  <2> QED
    BY <1>1, <2>3, <2>4 DEF Inv
<1>3. TypeOK'
  BY <1>1, Untouched DEF Inv, TypeOK
<1>4. Unwinding'
  BY <1>1, <1>2, Untouched DEF Inv
<1> QED
  BY <1>1, <1>3, <1>4 DEF Inv

-----------------------------------------------------------------------------
(***************************************************************************)
(* ~KafkaClient.                                                           *)
(***************************************************************************)

\* Nothing is destroyed before something has thrown, and parts go only when the
\* consumer thread is not at work any more.
LEMMA DestructorStep ==
  ASSUME Inv, Destructor
  PROVE  Inv'
<1>1. /\ fate = "alive" /\ failedAt # "none"
      /\ dtor \in {"stop", "join", "flush", "consumer", "producer"}
      /\ UNCHANGED <<env, nread, pc, failedAt, held, published, self, worker, dtorBy>>
  BY DEF Inv, Destructor, StopConsumer, Join, Flush, ResetConsumer, ResetProducer,
         Destroying, Destroy
<1>2. ~ClientAlive /\ ~ClientAlive'
  BY <1>1 DEF Inv, TypeOK, ClientAlive, ServiceAlive, HandlerAlive, ServerAlive
<1>3. CASE StopConsumer
  <2>1. /\ dtor = "stop" /\ UNCHANGED <<parts, initialized, fate>>
        /\ \/ dtor' = "join" /\ running' = FALSE
           \/ dtor' = "flush" /\ ~(initialized /\ "consumer" \in parts /\ running)
              /\ running' = running
    BY <1>3 DEF StopConsumer, Destroying, Destroy
  <2>2. worker \in AtWork => dtor' = "join"
    BY <1>1, <2>1 DEF Inv
  <2>3. TypeOK'
    BY <1>1, <1>2, <2>1 DEF Inv, TypeOK
  <2>4. Unwinding'
    BY <1>1, <1>2, <2>1, <2>2 DEF Inv
  <2> QED
    BY <1>1, <2>3, <2>4 DEF Inv
<1>4. CASE Join
  <2>1. /\ dtor = "join" /\ UNCHANGED <<parts, initialized, running>>
        /\ \/ worker \in {"none", "exited"} /\ dtor' = "flush" /\ fate' = fate
           \/ dtorBy = Worker /\ fate' = "terminated" /\ dtor' = dtor
    BY <1>4 DEF Join, Destroying, Destroy
  <2> QED
    BY <1>1, <1>2, <2>1 DEF Inv, TypeOK
<1>5. CASE Flush
  <2>1. dtor = "flush" /\ dtor' = "consumer" /\ UNCHANGED <<parts, initialized, running, fate>>
    BY <1>5 DEF Flush, Destroying, Destroy
  <2> QED
    BY <1>1, <1>2, <2>1 DEF Inv, TypeOK
<1>6. CASE ResetConsumer
  <2>1. /\ dtor = "consumer" /\ dtor' = "producer" /\ parts' = parts \ {"consumer"}
        /\ UNCHANGED <<initialized, running, fate>>
    BY <1>6 DEF ResetConsumer, Destroying, Destroy
  <2> QED
    BY <1>1, <1>2, <2>1 DEF Inv, TypeOK
<1>7. CASE ResetProducer
  <2>1. /\ dtor = "producer" /\ dtor' = "done" /\ parts' = parts \ {"producer"}
        /\ initialized' = FALSE /\ UNCHANGED <<running, fate>>
    BY <1>7 DEF ResetProducer, Destroying, Destroy
  <2> QED
    BY <1>1, <1>2, <2>1 DEF Inv, TypeOK
<1> QED
  BY <1>3, <1>4, <1>5, <1>6, <1>7 DEF Destructor

-----------------------------------------------------------------------------
(***************************************************************************)
(* The consumer thread, before and after an exception in main().           *)
(***************************************************************************)

LEMMA LoopStep ==
  ASSUME Inv, LoopHead \/ LockService
  PROVE  Inv'
<1>1. /\ fate = "alive" /\ worker \in {"loop", "process"}
      /\ UNCHANGED <<env, nread, pc, failedAt, held, published, parts, initialized,
                     running, dtor, dtorBy, fate>>
  BY DEF LoopHead, LockService, WorkerAt
<1>2. /\ worker' \in AtWork \cup {"exited"} /\ (running => worker' \in AtWork)
      /\ self' \in BOOLEAN /\ SelfInCallback'
  <2>1. self = FALSE /\ running \in BOOLEAN
    BY <1>1 DEF Inv, TypeOK
  <2>2. CASE LoopHead
    <3>1. self' = FALSE
      BY <2>1, <2>2 DEF LoopHead
    <3>2. worker' \in {"loop", "process", "exited"} /\ (running => worker' \in {"loop", "process"})
      BY <2>1, <2>2 DEF LoopHead
    <3> QED
      BY <3>1, <3>2
  <2>3. CASE LockService
    <3>1. \/ worker' = "callback" /\ self' = TRUE
          \/ worker' = "loop" /\ self' = FALSE
      BY <2>1, <2>3 DEF LockService
    <3> QED
      BY <3>1
  <2> QED
    BY <2>2, <2>3
<1>3. ClientAlive' <=> ClientAlive
  BY <1>1 DEF Inv, TypeOK, LoopHead, LockService, ClientAlive, ServiceAlive, HandlerAlive,
              ServerAlive
<1>4. TypeOK'
  BY <1>1, <1>2, <1>3 DEF Inv, TypeOK
<1>5. Building'
  BY <1>1, <1>2 DEF Inv
<1>6. Unwinding'
  BY <1>1, <1>2, <1>3 DEF Inv
<1> QED
  BY <1>2, <1>4, <1>5, <1>6 DEF Inv

LEMMA LeaveStep ==
  ASSUME Inv, LeaveCallback
  PROVE  Inv'
<1>1. /\ fate = "alive" /\ worker = "callback" /\ worker' = "loop" /\ self' = FALSE
      /\ Dropped(Worker)
      /\ UNCHANGED <<env, nread, pc, failedAt, held, published, parts, initialized,
                     running, fate>>
  BY DEF LeaveCallback, WorkerAt
<1>2. /\ ClientAlive' => ClientAlive
      /\ dtor' # "none" => ~ClientAlive'
      /\ dtor' = "none" => dtor = "none" /\ (ClientAlive => ClientAlive')
      /\ dtor' = dtor \/ (dtor = "none" /\ dtor' = "stop")
      /\ dtor' \in {"none", "stop", "join", "flush", "consumer", "producer", "done"}
      /\ dtorBy' \in {Main, Worker}
  BY <1>1, DroppedKeeps
<1>3. failedAt = "none" => dtor' = "none" /\ dtorBy' = Main
  <2> SUFFICES ASSUME failedAt = "none" PROVE dtor' = "none" /\ dtorBy' = Main
    OBVIOUS
  <2>1. pc \in PastStart \cup {"publish", "wait"}
    BY <1>1 DEF Inv
  <2>2. "client" \in held
    BY <2>1, LocalNamesAre DEF Inv
  <2>3. ClientAlive'
    BY <1>1, <2>2 DEF ClientAlive
  <2> QED
    BY <1>1, <2>3 DEF Dropped, Inv
<1>4. TypeOK'
  BY <1>1, <1>2 DEF Inv, TypeOK
<1>5. Building'
  BY <1>1, <1>3 DEF Inv
<1>6. Unwinding'
  BY <1>1, <1>2 DEF Inv
<1> QED
  BY <1>1, <1>4, <1>5, <1>6 DEF Inv

-----------------------------------------------------------------------------
LEMMA NextInv ==
  ASSUME Inv, [Next]_vars
  PROVE  Inv'
<1>1. CASE UNCHANGED vars
  BY <1>1, Untouched DEF Inv, vars, TypeOK
<1>2. CASE MainNext
  BY <1>2, ReadStep, MakeStep, InitializeStep, StartStep, ServeStep, DropStep, CatchStep,
     ExitStep DEF MainNext
<1>3. CASE Destructor
  BY <1>3, DestructorStep
<1>4. CASE WorkerNext
  BY <1>4, LoopStep, LeaveStep DEF WorkerNext
<1> QED
  BY <1>1, <1>2, <1>3, <1>4 DEF Next, Ended

\* What is left to whom, of every start, whatever throws.
LEMMA InvAlways == Spec => []Inv
BY InitInv, NextInv, PTL DEF Spec

\* Every start keeps the types, and ~KafkaClient runs only when nobody holds the
\* client any more: by no order of main()'s unwinding and the callback is it run
\* under a holder, or the client revived by weak_ptr::lock.
THEOREM StartTypes == Spec => []TypeOK
<1>1. Inv => TypeOK
  BY DEF Inv
<1> QED
  BY <1>1, InvAlways, PTL

\* Whatever throws, the consumer thread never meets a consumer or a producer that
\* ~KafkaClient has reset, nor its callback a service or a repository that is gone.
THEOREM WorkerFindsItsObjects == Spec => []NothingUsedAfterFree
<1>1. Inv => NothingUsedAfterFree
  BY Chain DEF Inv, NothingUsedAfterFree
<1> QED
  BY <1>1, InvAlways, PTL

\* Whatever the environment and whatever may throw, the statement Wait() is only
\* reached by a process that has all it needs to serve.
THEOREM OnlyWholeProcessesServe == Spec => []ServesWhole
<1>1. Inv => ServesWhole
  BY DEF Inv, ServesWhole
<1> QED
  BY <1>1, InvAlways, PTL

\* Whatever throws before the consumer thread exists, the process ends with status
\* 1 and with the database, the producer and the consumer closed.
THEOREM EarlyFailuresAreClean == Spec => []CleanFailure
<1>1. Inv => CleanFailure
  <2> SUFFICES ASSUME Inv, fate \in {"failed", "terminated"}, failedAt \notin PastStart
               PROVE  fate = "failed" /\ parts = {} /\ ~RepositoryAlive
    BY DEF CleanFailure
  <2> QED
    BY DEF Inv, TypeOK, RepositoryAlive, ServiceAlive, HandlerAlive, ServerAlive
<1> QED
  BY <1>1, InvAlways, PTL

\* For every environment and whatever throws: while RPCs are served, their handler
\* and the Kafka client behind it are whole, up to the end of global_server_ptr.
THEOREM CallsAreServed == Spec => []CallsFindTheirHandler
<1>1. ASSUME Inv
      PROVE  CallsFindTheirHandler
  <2> SUFFICES ASSUME Listening, pc = "exit" => published
               PROVE  HandlerAlive /\ initialized /\ parts = BothParts
    BY DEF CallsFindTheirHandler
  <2>1. CASE failedAt = "none"
    <3>1. pc \in {"log", "wait"}
      BY <2>1 DEF Listening
    <3> QED
      BY <1>1, <2>1, <3>1 DEF Inv, HandlerAlive, ServerAlive
  <2>2. CASE failedAt # "none"
    <3>1. failedAt = "log" /\ fate = "alive" /\ pc \in {"unwind", "exit"}
      BY <1>1, <2>2 DEF Inv, Listening
    <3>2. published
      BY <1>1, <2>2, <3>1 DEF Inv
    <3>3. HandlerAlive /\ ClientAlive
      BY <3>2 DEF HandlerAlive, ServerAlive, ServiceAlive, ClientAlive
    <3>4. worker \in AtWork
      BY <1>1, <2>2, <3>1, <3>3 DEF Inv, TypeOK
    <3> QED
      BY <1>1, <2>2, <3>3, <3>4 DEF Inv
  <2> QED
    BY <2>1, <2>2
<1> QED
  BY <1>1, InvAlways, PTL
=============================================================================
