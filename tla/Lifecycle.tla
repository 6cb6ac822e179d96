------------------------------ MODULE Lifecycle ------------------------------
(***************************************************************************)
(* One life of the process, thread by thread: main() from its first signal *)
(* handler to its last statement, the threads that serve RPCs, the         *)
(* consumer thread, and the signal handler, which runs on top of whatever  *)
(* thread it interrupts and calls Server::Stop there.                      *)
(*                                                                         *)
(* Two locks matter: the mutex inside grpc::Server, which Wait() and       *)
(* Shutdown() take, and KafkaProducer::mutex_, which RPCs and the consumer *)
(* take around produce() and poll().  Messages are left out: ModerationFlow*)
(* has them.                                                               *)
(***************************************************************************)
EXTENDS Naturals, Sequences

CONSTANTS
  Rpcs,           \* threads of the gRPC server
  Signals,        \* SIGINT, SIGTERM: each arrives at most once
  HandlerThreads, \* threads the system may deliver a signal to
  EarlySignals,   \* may a signal arrive before main() sleeps in Wait()?
  Free            \* nobody holds the lock

Main == "main"
Consumer == "consumer"
Threads == {Main, Consumer} \cup Rpcs

ASSUME LifecycleAssumption ==
  /\ Rpcs \cap {Main, Consumer} = {}
  /\ HandlerThreads \subseteq Threads
  /\ EarlySignals \in BOOLEAN
  /\ Signals \cap Threads = {}
  /\ Free \notin Threads \cup Signals

VARIABLES
  main,      \* the statement main() executes next
  frames,    \* per thread, the signal handlers running on top of it
  arrived,   \* signals that have arrived
  flag,      \* shutdown_requested
  handle,    \* global_server_ptr is set
  server,    \* Server::server_: null, serving, draining, notified
  serverMu,  \* who holds the mutex of grpc::Server
  rpc,       \* per RPC thread: idle, entered, waiting, produce, reply
  worker,    \* consumer thread: none, head, consume, process, waiting, produce,
             \* callback, exited
  running,   \* KafkaConsumer::running_
  mutex,     \* who holds KafkaProducer::mutex_
  client     \* KafkaClient: none, ready, flushed, noConsumer, released

vars == <<main, frames, arrived, flag, handle, server, serverMu, rpc, worker,
          running, mutex, client>>

MainSteps ==
  {"construct", "start", "publish", "build", "wait", "locked", "asleep",
   "check", "stop", "join", "flush", "closeConsumer", "closeProducer",
   "exited", "failed", "crashed"}

Gone == main \in {"exited", "failed", "crashed"}

\* A handler at work on a signal, and the step it takes next.
Frame == [sig : Signals, step : {"flag", "stop", "drain"}]

TypeOK ==
  /\ main \in MainSteps
  /\ frames \in [Threads -> Seq(Frame)]
  /\ arrived \subseteq Signals
  /\ flag \in BOOLEAN
  /\ handle \in BOOLEAN
  /\ server \in {"null", "serving", "draining", "notified"}
  /\ serverMu \in {Free, Main} \cup Signals
  /\ rpc \in [Rpcs -> {"idle", "entered", "waiting", "produce", "reply"}]
  /\ worker \in {"none", "head", "consume", "process", "waiting", "produce",
                 "callback", "exited"}
  /\ running \in BOOLEAN
  /\ mutex \in {Free, Consumer} \cup Rpcs
  /\ client \in {"none", "ready", "flushed", "noConsumer", "released"}
  \* The lock guard: the mutex is held by the thread that is in produce().
  /\ mutex = Consumer <=> worker = "produce"
  /\ \A r \in Rpcs : mutex = r <=> rpc[r] = "produce"

Init ==
  /\ main = "construct"
  /\ frames = [t \in Threads |-> <<>>]
  /\ arrived = {}
  /\ flag = FALSE
  /\ handle = FALSE
  /\ server = "null"
  /\ serverMu = Free
  /\ rpc = [r \in Rpcs |-> "idle"]
  /\ worker = "none"
  /\ running = FALSE
  /\ mutex = Free
  /\ client = "none"

-----------------------------------------------------------------------------
(***************************************************************************)
(* main().  It advances only while no handler runs on top of it.           *)
(***************************************************************************)

MainAt(step) == main = step /\ frames[Main] = <<>>

\* Configuration, repository, client, service and Initialize: any of them may
\* throw, which main() catches; nothing has been started yet.
Construct ==
  /\ MainAt("construct")
  /\ \/ main' = "start" /\ client' = "ready"
     \/ main' = "failed" /\ UNCHANGED client
  /\ UNCHANGED <<frames, arrived, flag, handle, server, serverMu, rpc, worker,
                 running, mutex>>

StartConsumer ==
  /\ MainAt("start")
  /\ main' = "publish"
  /\ running' = TRUE
  /\ worker' = "head"
  /\ UNCHANGED <<frames, arrived, flag, handle, server, serverMu, rpc, mutex,
                 client>>

\* global_server_ptr = server
PublishServer ==
  /\ MainAt("publish")
  /\ main' = "build"
  /\ handle' = TRUE
  /\ UNCHANGED <<frames, arrived, flag, server, serverMu, rpc, worker, running,
                 mutex, client>>

\* BuildAndStart, which returns null when the address cannot be bound: the log
\* line is written all the same, and Wait() is called on the null pointer.
BuildAndStart ==
  /\ MainAt("build")
  /\ \/ main' = "wait" /\ server' = "serving"
     \/ main' = "crashed" /\ UNCHANGED server
  /\ UNCHANGED <<frames, arrived, flag, handle, serverMu, rpc, worker, running,
                 mutex, client>>

\* Wait() locks, and sleeps until Shutdown() has notified.
WaitLocks ==
  /\ MainAt("wait")
  /\ serverMu = Free
  /\ serverMu' = Main
  /\ main' = "locked"
  /\ UNCHANGED <<frames, arrived, flag, handle, server, rpc, worker, running,
                 mutex, client>>

\* Mutant: Wait() sleeps with the mutex held.
WaitSleeps_Holding ==
  /\ MainAt("locked")
  /\ main' = IF server = "notified" THEN "check" ELSE "asleep"
  /\ UNCHANGED <<frames, arrived, flag, handle, server, serverMu, rpc, worker,
                 running, mutex, client>>

WaitSleeps ==
  /\ MainAt("locked")
  /\ serverMu' = Free
  /\ main' = IF server = "notified" THEN "check" ELSE "asleep"
  /\ UNCHANGED <<frames, arrived, flag, handle, server, rpc, worker, running,
                 mutex, client>>

WaitWakes ==
  /\ MainAt("asleep")
  /\ server = "notified"
  /\ serverMu = Free
  /\ main' = "check"
  /\ UNCHANGED <<frames, arrived, flag, handle, server, serverMu, rpc, worker,
                 running, mutex, client>>

\* while (!shutdown_requested.load())
CheckFlag ==
  /\ MainAt("check")
  /\ flag
  /\ main' = "stop"
  /\ UNCHANGED <<frames, arrived, flag, handle, server, serverMu, rpc, worker,
                 running, mutex, client>>

StopConsumer ==
  /\ MainAt("stop")
  /\ running' = FALSE
  /\ main' = "join"
  /\ UNCHANGED <<frames, arrived, flag, handle, server, serverMu, rpc, worker,
                 mutex, client>>

\* Mutant: the consumer thread is detached instead of joined.
Join_Detached ==
  /\ MainAt("join")
  /\ main' = "flush"
  /\ UNCHANGED <<frames, arrived, flag, handle, server, serverMu, rpc, worker,
                 running, mutex, client>>

\* consumer_thread_.join()
Join ==
  /\ MainAt("join")
  /\ worker = "exited"
  /\ main' = "flush"
  /\ UNCHANGED <<frames, arrived, flag, handle, server, serverMu, rpc, worker,
                 running, mutex, client>>

\* KafkaClient::Flush, and once more in Shutdown: bounded by its time-out.
Flush ==
  /\ MainAt("flush")
  /\ client' = "flushed"
  /\ main' = "closeConsumer"
  /\ UNCHANGED <<frames, arrived, flag, handle, server, serverMu, rpc, worker,
                 running, mutex>>

\* consumer_.reset(), then producer_.reset()
ResetConsumer ==
  /\ MainAt("closeConsumer")
  /\ client' = "noConsumer"
  /\ main' = "closeProducer"
  /\ UNCHANGED <<frames, arrived, flag, handle, server, serverMu, rpc, worker,
                 running, mutex>>

ResetProducer ==
  /\ MainAt("closeProducer")
  /\ client' = "released"
  /\ main' = "exited"
  /\ UNCHANGED <<frames, arrived, flag, handle, server, serverMu, rpc, worker,
                 running, mutex>>

-----------------------------------------------------------------------------
(***************************************************************************)
(* The signal handler.  The thread it interrupts stands still until the    *)
(* handler returns; a second signal interrupts the first one's handler.    *)
(***************************************************************************)

ThreadExists(t) ==
  \/ t = Main
  \/ t = Consumer /\ worker \notin {"none", "exited"}
  \/ t \in Rpcs /\ server \in {"serving", "draining"}

Arrive(sig, t) ==
  /\ ~Gone
  /\ sig \notin arrived
  /\ ThreadExists(t)
  /\ EarlySignals \/ main = "asleep"
  /\ arrived' = arrived \cup {sig}
  /\ frames' = [frames EXCEPT ![t] = <<[sig |-> sig, step |-> "flag"]>> \o @]
  /\ UNCHANGED <<main, flag, handle, server, serverMu, rpc, worker, running,
                 mutex, client>>

Handling(t, step) ==
  /\ ~Gone
  /\ frames[t] # <<>>
  /\ Head(frames[t]).step = step

Return(t) == frames' = [frames EXCEPT ![t] = Tail(@)]
GoTo(t, step) == frames' = [frames EXCEPT ![t][1].step = step]

\* shutdown_requested is set; the server is stopped if there is one.
RequestShutdown(t) ==
  /\ Handling(t, "flag")
  /\ flag' = TRUE
  /\ IF handle THEN GoTo(t, "stop") ELSE Return(t)
  /\ UNCHANGED <<main, arrived, handle, server, serverMu, rpc, worker, running,
                 mutex, client>>

\* server_->Shutdown(): on a null pointer before BuildAndStart has returned,
\* waiting for the mutex otherwise, and nothing to do the second time.
StopServer(t) ==
  /\ Handling(t, "stop")
  /\ \/ /\ server = "null"
        /\ main' = "crashed"
        /\ UNCHANGED <<frames, server, serverMu>>
     \/ /\ server = "serving"
        /\ serverMu = Free
        /\ serverMu' = Head(frames[t]).sig
        /\ server' = "draining"
        /\ GoTo(t, "drain")
        /\ UNCHANGED main
     \/ /\ server = "notified"
        /\ serverMu = Free
        /\ Return(t)
        /\ UNCHANGED <<main, server, serverMu>>
  /\ UNCHANGED <<arrived, flag, handle, rpc, worker, running, mutex, client>>

\* Mutant: Shutdown() with a deadline that has passed.
Drained_Early(t) ==
  /\ Handling(t, "drain")
  /\ server = "draining"
  /\ server' = "notified"
  /\ serverMu' = Free
  /\ Return(t)
  /\ UNCHANGED <<main, arrived, flag, handle, rpc, worker, running, mutex, client>>

\* Shutdown() has waited for every RPC and for every thread of the pool, those
\* that a handler interrupted included: Wait() is notified, the mutex released.
Drained(t) ==
  /\ Handling(t, "drain")
  /\ server = "draining"
  /\ \A r \in Rpcs : rpc[r] = "idle" /\ frames[r] = <<>>
  /\ server' = "notified"
  /\ serverMu' = Free
  /\ Return(t)
  /\ UNCHANGED <<main, arrived, flag, handle, rpc, worker, running, mutex, client>>

-----------------------------------------------------------------------------
(***************************************************************************)
(* The threads of the gRPC server.                                         *)
(***************************************************************************)

RpcAt(r, step) == ~Gone /\ rpc[r] = step /\ frames[r] = <<>>

BeginRpc(r) ==
  /\ RpcAt(r, "idle")
  /\ server = "serving"
  /\ rpc' = [rpc EXCEPT ![r] = "entered"]
  /\ UNCHANGED <<main, frames, arrived, flag, handle, server, serverMu, worker,
                 running, mutex, client>>

\* An invalid request is refused; a valid one goes to the producer.
Validate(r) ==
  /\ RpcAt(r, "entered")
  /\ \E step \in {"reply", "waiting"} : rpc' = [rpc EXCEPT ![r] = step]
  /\ UNCHANGED <<main, frames, arrived, flag, handle, server, serverMu, worker,
                 running, mutex, client>>

LockProducer(r) ==
  /\ RpcAt(r, "waiting")
  /\ mutex = Free
  /\ mutex' = r
  /\ rpc' = [rpc EXCEPT ![r] = "produce"]
  /\ UNCHANGED <<main, frames, arrived, flag, handle, server, serverMu, worker,
                 running, client>>

\* Mutant: lock() without the lock guard, and a return without unlock().
UnlockProducer_Forgotten(r) ==
  /\ RpcAt(r, "produce")
  /\ rpc' = [rpc EXCEPT ![r] = "reply"]
  /\ UNCHANGED <<main, frames, arrived, flag, handle, server, serverMu, worker,
                 running, mutex, client>>

UnlockProducer(r) ==
  /\ RpcAt(r, "produce")
  /\ mutex' = Free
  /\ rpc' = [rpc EXCEPT ![r] = "reply"]
  /\ UNCHANGED <<main, frames, arrived, flag, handle, server, serverMu, worker,
                 running, client>>

EndRpc(r) ==
  /\ RpcAt(r, "reply")
  /\ rpc' = [rpc EXCEPT ![r] = "idle"]
  /\ UNCHANGED <<main, frames, arrived, flag, handle, server, serverMu, worker,
                 running, mutex, client>>

-----------------------------------------------------------------------------
(***************************************************************************)
(* The consumer thread.                                                    *)
(***************************************************************************)

WorkerAt(step) == ~Gone /\ worker = step /\ frames[Consumer] = <<>>

WorkerStep(from, to) ==
  /\ WorkerAt(from)
  /\ worker' = to
  /\ UNCHANGED <<main, frames, arrived, flag, handle, server, serverMu, rpc,
                 running, client>>

\* Mutant: while (true)
LoopHead_Endless == WorkerStep("head", "consume") /\ UNCHANGED mutex

LoopHead ==
  /\ WorkerStep("head", IF running THEN "consume" ELSE "exited")
  /\ UNCHANGED mutex

ReturnFromConsume ==
  /\ WorkerStep("consume", "head") \/ WorkerStep("consume", "process")
  /\ UNCHANGED mutex

\* A refused message goes back to the loop, an accepted one is answered.
ProcessMessage ==
  /\ WorkerStep("process", "head") \/ WorkerStep("process", "waiting")
  /\ UNCHANGED mutex

LockForResponse ==
  /\ WorkerStep("waiting", "produce")
  /\ mutex = Free
  /\ mutex' = Consumer

SendResponse == WorkerStep("produce", "callback") /\ mutex' = Free

Callback == WorkerStep("callback", "head") /\ UNCHANGED mutex

-----------------------------------------------------------------------------
MainNext ==
  \/ Construct \/ StartConsumer \/ PublishServer \/ BuildAndStart
  \/ WaitLocks \/ WaitSleeps \/ WaitWakes \/ CheckFlag \/ StopConsumer
  \/ Join \/ Flush \/ ResetConsumer \/ ResetProducer

HandlerNext(t) == RequestShutdown(t) \/ StopServer(t) \/ Drained(t)

FinishRpc(r) ==
  Validate(r) \/ LockProducer(r) \/ UnlockProducer(r) \/ EndRpc(r)

WorkerNext ==
  LoopHead \/ ReturnFromConsume \/ ProcessMessage \/ LockForResponse
    \/ SendResponse \/ Callback

\* The process is gone.
Ended == Gone /\ UNCHANGED vars

Next ==
  \/ MainNext
  \/ \E sig \in Signals, t \in HandlerThreads : Arrive(sig, t)
  \/ \E t \in HandlerThreads : HandlerNext(t)
  \/ \E r \in Rpcs : BeginRpc(r) \/ FinishRpc(r)
  \/ WorkerNext
  \/ Ended

Spec == Init /\ [][Next]_vars

(***************************************************************************)
(* Every thread that can run does; a mutex that becomes free again and     *)
(* again is obtained; nobody has to call or to send a signal.              *)
(***************************************************************************)
Fairness ==
  /\ WF_vars(MainNext)
  /\ \A t \in HandlerThreads : WF_vars(HandlerNext(t))
  /\ \A r \in Rpcs : WF_vars(FinishRpc(r)) /\ SF_vars(LockProducer(r))
  /\ WF_vars(WorkerNext)
  /\ SF_vars(LockForResponse)

FairSpec == Spec /\ Fairness

-----------------------------------------------------------------------------
(***************************************************************************)
(* Properties.                                                             *)
(***************************************************************************)

\* While an RPC or the consumer thread may use the Kafka client, main() has
\* neither flushed it for the last time nor released any of it: the consumer
\* thread holds a bare pointer to the producer (kafkaclient.cpp:23), and an
\* RPC's produce() after the last flush would be answered OK and thrown away.
ClientServesItsUsers ==
  (worker \notin {"none", "exited"} \/ \E r \in Rpcs : rpc[r] # "idle")
    => client = "ready"

Stopping == main \in {"join", "flush", "closeConsumer", "closeProducer"}

Mode ==
  IF Gone THEN "down"
  ELSE IF Stopping THEN "stopping"
  ELSE IF server \in {"draining", "notified"} THEN "closing"
  ELSE "up"

Calls == IF Gone THEN {} ELSE {r \in Rpcs : rpc[r] # "idle"}

PM == INSTANCE ProcessModes
        WITH Callers <- Rpcs, mode <- Mode, calls <- Calls

\* main(), Server and the handlers on top of any thread keep to ProcessModes,
\* the order of a stop that ModerationFlow builds on: no RPC begins after the
\* signal, the consumer is stopped only when every RPC has ended, and the
\* process leaves only by way of that stop or by dying.
ImplementsModes == PM!Spec

\* A signal ends the process: "Handle Ctrl+C" and "Docker/Kubernetes
\* termination signal" (main.cpp:28-29).
SignalEndsProcess == (arrived # {}) ~> Gone

\* So does a signal that arrives after std::signal and before global_server_ptr is
\* set (main.cpp:28-48).
EarlySignalEndsProcess ==
  (arrived # {} /\ main \in {"construct", "start", "publish"}) ~> Gone

\* The only signal so far found main() asleep in Wait(), and on top of it.
Undisturbed ==
  /\ \A a, b \in arrived : a = b
  /\ \A t \in Threads : frames[t] # <<>> => t = Main /\ main = "asleep"

\* No lock and no flag is in the way of a stop.  The handler of the only signal,
\* on top of main() in Wait(), finds a server that serves and a mutex nobody holds:
\* Shutdown() neither meets a null pointer nor waits for the thread it interrupted.
\* And however many signals there were, on whatever threads: once notified, Wait()
\* gets the mutex back, and main() finds the flag set behind it (main.cpp:52).
NothingBlocksTheStop ==
  /\ Undisturbed =>
       \A t \in Threads : Handling(t, "stop") => server = "serving" /\ serverMu = Free
  /\ main = "asleep" /\ server = "notified" => serverMu = Free
  /\ main = "check" => flag

\* A signal that reaches main() in Wait(), and that no other one follows, ends
\* the process in an orderly way: it does not die, and it does not hang on a
\* lock or on an RPC.
SignalEndsInOrder ==
  []Undisturbed => ((arrived # {}) ~> (main = "exited"))
=============================================================================
