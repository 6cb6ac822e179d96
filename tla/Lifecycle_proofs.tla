--------------------------- MODULE Lifecycle_proofs ---------------------------
(***************************************************************************)
(* What holds of Lifecycle for any number of RPC threads, any signals and  *)
(* any threads they may be delivered to.                                   *)
(*                                                                         *)
(* Order says how far main() must have come for the server, the consumer   *)
(* thread and the Kafka client to be in the state they are in; no part of  *)
(* it mentions the handlers' frames, so the order of the teardown does not *)
(* depend on where a signal lands.  Held, for the locks, is about nothing  *)
(* but the frames and what they hold.                                      *)
(***************************************************************************)
EXTENDS Lifecycle, SequenceTheorems, TLAPS

Teardown == {"flush", "closeConsumer", "closeProducer", "exited"}

BeforeStart ==
  /\ main \in {"construct", "failed"} => client = "none"
  /\ main \in {"construct", "failed", "start"} => worker = "none"
  /\ main \in {"construct", "failed", "start", "publish", "build"}
       => server = "null"

ClientReady ==
  main \in {"start", "publish", "build", "wait", "locked", "asleep", "check",
            "stop", "join", "flush"} => client = "ready"

StoppedServer ==
  /\ main \in {"check", "stop", "join"} \cup Teardown => server = "notified"
  /\ server \in {"null", "notified"} => \A r \in Rpcs : rpc[r] = "idle"

JoinedConsumer == main \in Teardown => worker = "exited"

Order ==
  /\ BeforeStart
  /\ ClientReady
  /\ StoppedServer
  /\ JoinedConsumer
  /\ ClientServesItsUsers

-----------------------------------------------------------------------------
(***************************************************************************)
(* Types.                                                                  *)
(***************************************************************************)

\* A handler that is pushed, goes on or returns leaves a stack of handlers.
LEMMA FrameStacks ==
  ASSUME NEW t \in Threads, frames \in [Threads -> Seq(Frame)]
  PROVE  /\ \A f \in Frame :
              [frames EXCEPT ![t] = <<f>> \o @] \in [Threads -> Seq(Frame)]
         /\ frames[t] # <<>> =>
              /\ [frames EXCEPT ![t] = Tail(@)] \in [Threads -> Seq(Frame)]
              /\ Head(frames[t]) \in Frame
              /\ \A step \in {"flag", "stop", "drain"} :
                   [frames EXCEPT ![t][1].step = step]
                     \in [Threads -> Seq(Frame)]
<1>1. frames[t] \in Seq(Frame)
  OBVIOUS
<1>2. ASSUME NEW f \in Frame
      PROVE  [frames EXCEPT ![t] = <<f>> \o @] \in [Threads -> Seq(Frame)]
  <2>1. <<f>> \o frames[t] \in Seq(Frame)
    BY <1>1
  <2> QED
    BY <2>1
<1>3. ASSUME frames[t] # <<>>
      PROVE  /\ [frames EXCEPT ![t] = Tail(@)] \in [Threads -> Seq(Frame)]
             /\ Head(frames[t]) \in Frame
  <2>1. Tail(frames[t]) \in Seq(Frame) /\ Head(frames[t]) \in Frame
    BY <1>1, <1>3
  <2> QED
    BY <2>1
<1>4. ASSUME frames[t] # <<>>, NEW step \in {"flag", "stop", "drain"}
      PROVE  [frames EXCEPT ![t][1].step = step] \in [Threads -> Seq(Frame)]
  <2> DEFINE f == [frames[t][1] EXCEPT !.step = step]
  <2>1. 1 \in 1..Len(frames[t]) /\ frames[t][1] \in Frame
    BY <1>1, <1>4
  <2>2. f \in Frame
    BY <2>1 DEF Frame
  <2>3. [frames[t] EXCEPT ![1] = f] \in Seq(Frame)
    BY <1>1, <2>1, <2>2, ExceptSeq
  <2>4. [frames EXCEPT ![t][1].step = step]
          = [frames EXCEPT ![t] = [frames[t] EXCEPT ![1] = f]]
    OBVIOUS
  <2> QED
    BY <2>3, <2>4
<1> QED
  BY <1>2, <1>3, <1>4

LEMMA InitTypeOK == Init => TypeOK
<1> SUFFICES ASSUME Init PROVE TypeOK
  OBVIOUS
<1>1. mutex = Free /\ Free # Consumer /\ \A r \in Rpcs : Free # r
  BY LifecycleAssumption DEF Init, Threads
<1>2. frames \in [Threads -> Seq(Frame)]
  BY DEF Init
<1> QED
  BY <1>1, <1>2 DEF Init, TypeOK, MainSteps

LEMMA MainTypeOK == TypeOK /\ BeforeStart /\ MainNext => TypeOK'
<1> SUFFICES ASSUME TypeOK, BeforeStart, MainNext PROVE TypeOK'
  OBVIOUS
<1> USE LifecycleAssumption DEF TypeOK, MainSteps, MainAt, Main, Consumer
<1>1. CASE Construct     BY <1>1 DEF Construct
<1>2. CASE StartConsumer BY <1>2 DEF StartConsumer, BeforeStart
<1>3. CASE PublishServer BY <1>3 DEF PublishServer
<1>4. CASE BuildAndStart BY <1>4 DEF BuildAndStart
<1>5. CASE WaitLocks     BY <1>5 DEF WaitLocks
<1>6. CASE WaitSleeps    BY <1>6 DEF WaitSleeps
<1>7. CASE WaitWakes     BY <1>7 DEF WaitWakes
<1>8. CASE CheckFlag     BY <1>8 DEF CheckFlag
<1>9. CASE StopConsumer
  <2>1. main' \in MainSteps /\ running' \in BOOLEAN
    BY <1>9 DEF StopConsumer
  <2> QED
    BY <1>9, <2>1 DEF StopConsumer
<1>10. CASE Join          BY <1>10 DEF Join
<1>11. CASE Flush         BY <1>11 DEF Flush
<1>12. CASE ResetConsumer BY <1>12 DEF ResetConsumer
<1>13. CASE ResetProducer BY <1>13 DEF ResetProducer
<1> QED
  BY <1>1, <1>2, <1>3, <1>4, <1>5, <1>6, <1>7, <1>8, <1>9, <1>10, <1>11,
     <1>12, <1>13 DEF MainNext

LEMMA HandlerTypeOK ==
  ASSUME TypeOK, NEW t \in HandlerThreads,
         HandlerNext(t) \/ \E sig \in Signals : Arrive(sig, t)
  PROVE  TypeOK'
<1> t \in Threads
  BY LifecycleAssumption
<1> frames \in [Threads -> Seq(Frame)]
  BY DEF TypeOK
<1>1. CASE RequestShutdown(t)
  <2>1. frames' \in [Threads -> Seq(Frame)]
    BY <1>1, FrameStacks DEF RequestShutdown, Handling, Return, GoTo
  <2> QED
    BY <1>1, <2>1 DEF TypeOK, RequestShutdown
<1>2. CASE StopServer(t)
  <2>1. frames' \in [Threads -> Seq(Frame)] /\ Head(frames[t]).sig \in Signals
    BY <1>2, FrameStacks DEF StopServer, Handling, Return, GoTo, Frame
  <2>2. server' \in {"null", "serving", "draining", "notified"}
    BY <1>2 DEF StopServer, TypeOK
  <2>3. serverMu' \in {Free, Main} \cup Signals
    BY <1>2, <2>1 DEF StopServer, TypeOK
  <2>4. main' \in MainSteps
    BY <1>2 DEF StopServer, TypeOK, MainSteps
  <2> QED
    BY <1>2, <2>1, <2>2, <2>3, <2>4 DEF TypeOK, StopServer
<1>3. CASE Drained(t)
  <2>1. frames' \in [Threads -> Seq(Frame)]
    BY <1>3, FrameStacks DEF Drained, Handling, Return
  <2> QED
    BY <1>3, <2>1 DEF TypeOK, Drained
<1>4. ASSUME NEW sig \in Signals, Arrive(sig, t)
      PROVE  TypeOK'
  <2>1. [sig |-> sig, step |-> "flag"] \in Frame
    BY DEF Frame
  <2>2. frames' \in [Threads -> Seq(Frame)]
    BY <1>4, <2>1, FrameStacks DEF Arrive
  <2> QED
    BY <1>4, <2>2 DEF TypeOK, Arrive
<1> QED
  BY <1>1, <1>2, <1>3, <1>4 DEF HandlerNext

LEMMA RpcTypeOK ==
  ASSUME TypeOK, NEW r \in Rpcs, BeginRpc(r) \/ FinishRpc(r)
  PROVE  TypeOK'
<1> USE LifecycleAssumption DEF TypeOK, RpcAt, Main, Consumer, Threads
<1>1. CASE BeginRpc(r)       BY <1>1 DEF BeginRpc
<1>2. CASE Validate(r)       BY <1>2 DEF Validate
<1>3. CASE LockProducer(r)   BY <1>3 DEF LockProducer
<1>4. CASE UnlockProducer(r) BY <1>4 DEF UnlockProducer
<1>5. CASE EndRpc(r)         BY <1>5 DEF EndRpc
<1> QED
  BY <1>1, <1>2, <1>3, <1>4, <1>5 DEF FinishRpc

LEMMA WorkerTypeOK == TypeOK /\ WorkerNext => TypeOK'
<1> SUFFICES ASSUME TypeOK, WorkerNext PROVE TypeOK'
  OBVIOUS
<1> USE LifecycleAssumption
    DEF TypeOK, WorkerStep, WorkerAt, Main, Consumer, Threads
<1>1. CASE LoopHead          BY <1>1 DEF LoopHead
<1>2. CASE ReturnFromConsume BY <1>2 DEF ReturnFromConsume
<1>3. CASE ProcessMessage    BY <1>3 DEF ProcessMessage
<1>4. CASE LockForResponse   BY <1>4 DEF LockForResponse
<1>5. CASE SendResponse      BY <1>5 DEF SendResponse
<1>6. CASE Callback          BY <1>6 DEF Callback
<1> QED
  BY <1>1, <1>2, <1>3, <1>4, <1>5, <1>6 DEF WorkerNext

LEMMA NextTypeOK == TypeOK /\ BeforeStart /\ [Next]_vars => TypeOK'
<1> SUFFICES ASSUME TypeOK, BeforeStart, [Next]_vars PROVE TypeOK'
  OBVIOUS
<1>1. CASE UNCHANGED vars
  BY <1>1 DEF TypeOK, vars
<1>2. CASE Next
  BY <1>1, <1>2, MainTypeOK, HandlerTypeOK, RpcTypeOK, WorkerTypeOK
  DEF Next, Ended
<1> QED
  BY <1>1, <1>2

-----------------------------------------------------------------------------
(***************************************************************************)
(* The order of start-up and teardown.                                     *)
(***************************************************************************)

LEMMA InitOrder == Init => Order
  BY DEF Init, Order, BeforeStart, ClientReady, StoppedServer, JoinedConsumer,
     ClientServesItsUsers, Teardown

LEMMA MainOrder == TypeOK /\ Order /\ MainNext => Order'
<1> SUFFICES ASSUME TypeOK, Order, MainNext PROVE Order'
  OBVIOUS
<1> USE DEF Order, BeforeStart, ClientReady, StoppedServer, JoinedConsumer,
            ClientServesItsUsers, Teardown, MainAt
<1>1. CASE Construct     BY <1>1 DEF Construct
<1>2. CASE StartConsumer BY <1>2 DEF StartConsumer
<1>3. CASE PublishServer BY <1>3 DEF PublishServer
<1>4. CASE BuildAndStart BY <1>4 DEF BuildAndStart
<1>5. CASE WaitLocks     BY <1>5 DEF WaitLocks
<1>6. CASE WaitSleeps    BY <1>6 DEF WaitSleeps
<1>7. CASE WaitWakes     BY <1>7 DEF WaitWakes
<1>8. CASE CheckFlag     BY <1>8 DEF CheckFlag
<1>9. CASE StopConsumer  BY <1>9 DEF StopConsumer
<1>10. CASE Join          BY <1>10 DEF Join
<1>11. CASE Flush         BY <1>11 DEF Flush
<1>12. CASE ResetConsumer BY <1>12 DEF ResetConsumer
<1>13. CASE ResetProducer BY <1>13 DEF ResetProducer
<1> QED
  BY <1>1, <1>2, <1>3, <1>4, <1>5, <1>6, <1>7, <1>8, <1>9, <1>10, <1>11,
     <1>12, <1>13 DEF MainNext

LEMMA HandlerOrder ==
  ASSUME TypeOK, Order, NEW t \in HandlerThreads,
         HandlerNext(t) \/ \E sig \in Signals : Arrive(sig, t)
  PROVE  Order'
<1> USE DEF Order, BeforeStart, ClientReady, StoppedServer, JoinedConsumer,
            ClientServesItsUsers, Teardown
<1>1. CASE RequestShutdown(t) BY <1>1 DEF RequestShutdown
<1>2. CASE StopServer(t)      BY <1>2 DEF StopServer
<1>3. CASE Drained(t)         BY <1>3 DEF Drained
<1>4. CASE \E sig \in Signals : Arrive(sig, t) BY <1>4 DEF Arrive
<1> QED
  BY <1>1, <1>2, <1>3, <1>4 DEF HandlerNext

LEMMA RpcOrder ==
  ASSUME TypeOK, Order, NEW r \in Rpcs, BeginRpc(r) \/ FinishRpc(r)
  PROVE  Order'
<1> rpc \in [Rpcs -> {"idle", "entered", "waiting", "produce", "reply"}]
  BY DEF TypeOK
<1> USE DEF Order, BeforeStart, ClientReady, StoppedServer, JoinedConsumer,
            ClientServesItsUsers, Teardown, RpcAt
<1>1. CASE BeginRpc(r)
  <2>1. client = "ready"
    BY <1>1 DEF BeginRpc, TypeOK, MainSteps, Gone
  <2> QED
    BY <1>1, <2>1 DEF BeginRpc
<1>2. CASE Validate(r)       BY <1>2 DEF Validate
<1>3. CASE LockProducer(r)   BY <1>3 DEF LockProducer
<1>4. CASE UnlockProducer(r) BY <1>4 DEF UnlockProducer
<1>5. CASE EndRpc(r)         BY <1>5 DEF EndRpc
<1> QED
  BY <1>1, <1>2, <1>3, <1>4, <1>5 DEF FinishRpc

LEMMA WorkerOrder == TypeOK /\ Order /\ WorkerNext => Order'
<1> SUFFICES ASSUME TypeOK, Order, WorkerNext PROVE Order'
  OBVIOUS
<1> USE DEF Order, BeforeStart, ClientReady, StoppedServer, JoinedConsumer,
            ClientServesItsUsers, Teardown, WorkerStep, WorkerAt
<1>1. CASE LoopHead          BY <1>1 DEF LoopHead
<1>2. CASE ReturnFromConsume BY <1>2 DEF ReturnFromConsume
<1>3. CASE ProcessMessage    BY <1>3 DEF ProcessMessage
<1>4. CASE LockForResponse   BY <1>4 DEF LockForResponse
<1>5. CASE SendResponse      BY <1>5 DEF SendResponse
<1>6. CASE Callback          BY <1>6 DEF Callback
<1> QED
  BY <1>1, <1>2, <1>3, <1>4, <1>5, <1>6 DEF WorkerNext

LEMMA NextOrder == TypeOK /\ Order /\ [Next]_vars => Order'
<1> SUFFICES ASSUME TypeOK, Order, [Next]_vars PROVE Order'
  OBVIOUS
<1>1. CASE UNCHANGED vars
  BY <1>1 DEF Order, BeforeStart, ClientReady, StoppedServer, JoinedConsumer,
     ClientServesItsUsers, vars
<1>2. CASE Next
  BY <1>1, <1>2, MainOrder, HandlerOrder, RpcOrder, WorkerOrder
  DEF Next, Ended
<1> QED
  BY <1>1, <1>2

LEMMA Invariant == Spec => [](TypeOK /\ Order)
<1>1. Init => TypeOK /\ Order
  BY InitTypeOK, InitOrder
<1>2. TypeOK /\ Order /\ [Next]_vars => (TypeOK /\ Order)'
  BY NextTypeOK, NextOrder DEF Order
<1> QED
  BY <1>1, <1>2, PTL DEF Spec

\* Every variable keeps its type, and the producer's mutex is held by exactly
\* the thread that is inside produce().
THEOREM LifecycleTypeCorrect == Spec => []TypeOK
  BY Invariant, PTL

\* No RPC and no consumer thread is left when main() flushes and releases the
\* Kafka client, wherever a signal was delivered.
THEOREM ClientOutlivesItsUsers == Spec => []ClientServesItsUsers
<1>1. Order => ClientServesItsUsers
  BY DEF Order
<1> QED
  BY <1>1, Invariant, PTL

-----------------------------------------------------------------------------
(***************************************************************************)
(* Lifecycle implements ProcessModes.                                      *)
(***************************************************************************)

LEMMA InitModes == Init => PM!Init
  BY DEF Init, PM!Init, Mode, Calls, Gone, Stopping

\* Nobody serves an RPC once main() has returned from Wait().
LEMMA QuietAfterWait ==
  ASSUME Order, main \in {"check", "stop"} \/ Stopping
  PROVE  Calls = {}
  BY DEF Order, StoppedServer, Teardown, Stopping, Calls

LEMMA MainModes ==
  TypeOK /\ Order /\ MainNext => PM!Next \/ UNCHANGED <<Mode, Calls>>
<1> SUFFICES ASSUME TypeOK, Order, MainNext
             PROVE  PM!Next \/ UNCHANGED <<Mode, Calls>>
  OBVIOUS
<1> USE DEF MainAt, Mode, Calls, Gone, Stopping
<1>1. CASE Construct
  BY <1>1 DEF Construct, PM!Next, PM!Kill, Order, BeforeStart
<1>2. CASE StartConsumer BY <1>2 DEF StartConsumer
<1>3. CASE PublishServer BY <1>3 DEF PublishServer
<1>4. CASE BuildAndStart
  BY <1>4 DEF BuildAndStart, PM!Next, PM!Kill, Order, BeforeStart
<1>5. CASE WaitLocks     BY <1>5 DEF WaitLocks
<1>6. CASE WaitSleeps    BY <1>6 DEF WaitSleeps
<1>7. CASE WaitWakes     BY <1>7 DEF WaitWakes
<1>8. CASE CheckFlag     BY <1>8 DEF CheckFlag
<1>9. CASE StopConsumer
  <2>1. Mode = "closing" /\ Mode' = "stopping" /\ UNCHANGED Calls
    BY <1>9 DEF StopConsumer, Order, StoppedServer
  <2> QED
    BY <1>9, <2>1, QuietAfterWait DEF StopConsumer, PM!Next, PM!StopConsumer
<1>10. CASE Join          BY <1>10 DEF Join
<1>11. CASE Flush         BY <1>11 DEF Flush
<1>12. CASE ResetConsumer BY <1>12 DEF ResetConsumer
<1>13. CASE ResetProducer
  <2>1. Mode = "stopping" /\ Mode' = "down" /\ Calls' = {}
    BY <1>13 DEF ResetProducer
  <2> QED
    BY <1>13, <2>1, QuietAfterWait DEF ResetProducer, PM!Next, PM!Leave
<1> QED
  BY <1>1, <1>2, <1>3, <1>4, <1>5, <1>6, <1>7, <1>8, <1>9, <1>10, <1>11,
     <1>12, <1>13 DEF MainNext

LEMMA HandlerModes ==
  ASSUME TypeOK, Order, NEW t \in HandlerThreads,
         HandlerNext(t) \/ \E sig \in Signals : Arrive(sig, t)
  PROVE  PM!Next \/ UNCHANGED <<Mode, Calls>>
<1> USE DEF Mode, Calls, Gone, Stopping, Handling
<1>1. CASE RequestShutdown(t) BY <1>1 DEF RequestShutdown
<1>2. CASE StopServer(t)
  <2>1. CASE server = "serving"
    <3>1. ~Gone /\ ~Stopping /\ main' = main /\ server' = "draining"
      BY <1>2, <2>1 DEF StopServer, Order, StoppedServer, Teardown
    <3> QED
      BY <1>2, <2>1, <3>1 DEF StopServer, PM!Next, PM!Close
  <2>2. CASE server # "serving"
    BY <1>2, <2>2 DEF StopServer, PM!Next, PM!Kill
  <2> QED
    BY <2>1, <2>2
<1>3. CASE Drained(t) BY <1>3 DEF Drained
<1>4. CASE \E sig \in Signals : Arrive(sig, t) BY <1>4 DEF Arrive
<1> QED
  BY <1>1, <1>2, <1>3, <1>4 DEF HandlerNext

LEMMA RpcModes ==
  ASSUME TypeOK, Order, NEW r \in Rpcs, BeginRpc(r) \/ FinishRpc(r)
  PROVE  PM!Next \/ UNCHANGED <<Mode, Calls>>
<1> rpc \in [Rpcs -> {"idle", "entered", "waiting", "produce", "reply"}]
  BY DEF TypeOK
<1> USE DEF Mode, Calls, Gone, Stopping, RpcAt
<1>1. CASE BeginRpc(r)
  <2>1. Mode = "up"
    BY <1>1 DEF BeginRpc, Order, StoppedServer, Teardown
  <2> QED
    BY <1>1, <2>1 DEF BeginRpc, PM!Next, PM!Begin
<1>2. CASE Validate(r)       BY <1>2 DEF Validate
<1>3. CASE LockProducer(r)   BY <1>3 DEF LockProducer
<1>4. CASE UnlockProducer(r) BY <1>4 DEF UnlockProducer
<1>5. CASE EndRpc(r)
  <2>1. r \in Calls /\ Calls' = Calls \ {r}
    BY <1>5 DEF EndRpc
  <2> QED
    BY <1>5, <2>1 DEF EndRpc, PM!Next, PM!End
<1> QED
  BY <1>1, <1>2, <1>3, <1>4, <1>5 DEF FinishRpc

LEMMA WorkerModes == WorkerNext => UNCHANGED <<Mode, Calls>>
  BY DEF WorkerNext, LoopHead, ReturnFromConsume, ProcessMessage,
     LockForResponse, SendResponse, Callback, WorkerStep, Mode, Calls, Gone,
     Stopping

LEMMA NextModes ==
  TypeOK /\ Order /\ [Next]_vars => [PM!Next]_<<Mode, Calls>>
<1>1. UNCHANGED vars => UNCHANGED <<Mode, Calls>>
  BY DEF vars, Mode, Calls, Gone, Stopping
<1> QED
  BY <1>1, MainModes, HandlerModes, RpcModes, WorkerModes DEF Next, Ended

\* The threads and locks of the process implement the order of a stop that the
\* message path relies on.
THEOREM ModesKept == Spec => ImplementsModes
<1> USE DEF ImplementsModes, PM!Spec, PM!vars
<1> QED
  BY Invariant, InitModes, NextModes, PTL DEF Spec

-----------------------------------------------------------------------------
(***************************************************************************)
(* The server's mutex, the flag and the handlers.  A signal has at most    *)
(* one handler, wherever its stack, and the mutex is held by main() inside *)
(* Wait(), by the handler that drains, or by nobody.                       *)
(***************************************************************************)

InFrames(sig) ==
  \E t \in Threads : \E k \in DOMAIN frames[t] : frames[t][k].sig = sig

Alone ==
  \A t, u \in Threads : \A j \in DOMAIN frames[t], k \in DOMAIN frames[u] :
    frames[t][j].sig = frames[u][k].sig => t = u /\ j = k

\* Of handler f, when as has arrived, the flag is set or not, and mu holds the mutex.
Honest(f, as, set, mu) ==
  /\ f.sig \in as
  /\ f.step \in {"stop", "drain"} => set
  /\ f.step = "drain" <=> mu = f.sig

AllHonest ==
  \A t \in Threads : \A k \in DOMAIN frames[t] :
    Honest(frames[t][k], arrived, flag, serverMu)

Locks ==
  /\ serverMu = Main <=> main = "locked"
  /\ server = "draining" <=> serverMu \in Signals
  /\ serverMu \in Signals => serverMu \in arrived
  /\ server \in {"draining", "notified"} => flag
  /\ server = "null" =>
       main \in {"construct", "start", "publish", "build", "failed", "crashed"}
  /\ server = "notified" => \E sig \in arrived : ~InFrames(sig)

Held == Alone /\ AllHonest /\ Locks

\* A frame is pushed: the others move down by one.
LEMMA Pushed ==
  ASSUME TypeOK, NEW t \in Threads, NEW f \in Frame,
         frames' = [frames EXCEPT ![t] = <<f>> \o @]
  PROVE  \A u \in Threads : \A k \in DOMAIN frames'[u] :
           \/ u = t /\ k = 1 /\ frames'[u][k] = f
           \/ u = t /\ k - 1 \in DOMAIN frames[u] /\ frames'[u][k] = frames[u][k - 1]
           \/ u # t /\ k \in DOMAIN frames[u] /\ frames'[u][k] = frames[u][k]
<1>1. frames \in [Threads -> Seq(Frame)]
  BY DEF TypeOK
<1> SUFFICES ASSUME NEW u \in Threads, NEW k \in DOMAIN frames'[u]
             PROVE  \/ u = t /\ k = 1 /\ frames'[u][k] = f
                    \/ u = t /\ k - 1 \in DOMAIN frames[u] /\ frames'[u][k] = frames[u][k - 1]
                    \/ u # t /\ k \in DOMAIN frames[u] /\ frames'[u][k] = frames[u][k]
  OBVIOUS
<1>2. CASE u # t
  BY <1>1, <1>2
<1>3. CASE u = t
  <2>1. frames'[u] = <<f>> \o frames[t] /\ frames[t] \in Seq(Frame)
    BY <1>1, <1>3
  <2>2. k \in 1..(Len(frames[t]) + 1)
    BY <2>1
  <2>3. k = 1 => frames'[u][k] = f
    BY <2>1
  <2>4. k # 1 => k - 1 \in 1..Len(frames[t]) /\ frames'[u][k] = frames[t][k - 1]
    BY <2>1, <2>2
  <2> QED
    BY <1>3, <2>1, <2>3, <2>4
<1> QED
  BY <1>2, <1>3

\* The frame on top is popped: the others move up by one.
LEMMA Popped ==
  ASSUME TypeOK, NEW t \in Threads, frames[t] # <<>>, Return(t)
  PROVE  /\ 1 \in DOMAIN frames[t] /\ Head(frames[t]) = frames[t][1]
         /\ \A u \in Threads : \A k \in DOMAIN frames'[u] :
              \/ u = t /\ k + 1 \in DOMAIN frames[u] /\ frames'[u][k] = frames[u][k + 1]
              \/ u # t /\ k \in DOMAIN frames[u] /\ frames'[u][k] = frames[u][k]
<1>1. frames \in [Threads -> Seq(Frame)] /\ frames[t] \in Seq(Frame)
  BY DEF TypeOK
<1>2. 1 \in DOMAIN frames[t] /\ Head(frames[t]) = frames[t][1]
  BY <1>1
<1> SUFFICES ASSUME NEW u \in Threads, NEW k \in DOMAIN frames'[u]
             PROVE  \/ u = t /\ k + 1 \in DOMAIN frames[u] /\ frames'[u][k] = frames[u][k + 1]
                    \/ u # t /\ k \in DOMAIN frames[u] /\ frames'[u][k] = frames[u][k]
  BY <1>2
<1>3. CASE u # t
  BY <1>1, <1>3 DEF Return
<1>4. CASE u = t
  <2>1. frames'[u] = Tail(frames[t])
    BY <1>1, <1>4 DEF Return
  <2>2. k \in 1..(Len(frames[t]) - 1)
    BY <1>1, <2>1
  <2>3. k + 1 \in 1..Len(frames[t]) /\ frames'[u][k] = frames[t][k + 1]
    BY <1>1, <2>1, <2>2
  <2> QED
    BY <1>1, <1>4, <2>3
<1> QED
  BY <1>3, <1>4

\* The handler on top takes a step: no signal moves.
LEMMA Stepped ==
  ASSUME TypeOK, NEW t \in Threads, frames[t] # <<>>, NEW step, GoTo(t, step)
  PROVE  /\ 1 \in DOMAIN frames[t] /\ Head(frames[t]) = frames[t][1]
         /\ \A u \in Threads :
              /\ DOMAIN frames'[u] = DOMAIN frames[u]
              /\ \A k \in DOMAIN frames[u] :
                   /\ frames'[u][k].sig = frames[u][k].sig
                   /\ u # t \/ k # 1 => frames'[u][k] = frames[u][k]
         /\ frames'[t][1].step = step
<1>1. frames \in [Threads -> Seq(Frame)] /\ frames[t] \in Seq(Frame)
  BY DEF TypeOK
<1>2. /\ 1 \in DOMAIN frames[t] /\ Head(frames[t]) = frames[t][1]
      /\ frames[t][1] \in Frame
  BY <1>1
<1> DEFINE g == [frames[t][1] EXCEPT !.step = step]
<1>3. g.sig = frames[t][1].sig /\ g.step = step
  BY <1>2 DEF Frame
<1>4. frames' = [frames EXCEPT ![t] = [frames[t] EXCEPT ![1] = g]]
  BY DEF GoTo
<1> HIDE DEF g
<1>5. frames'[t] = [frames[t] EXCEPT ![1] = g]
  BY <1>1, <1>4
<1>6. /\ DOMAIN frames'[t] = DOMAIN frames[t]
      /\ frames'[t][1] = g
      /\ \A k \in DOMAIN frames[t] : k # 1 => frames'[t][k] = frames[t][k]
  BY <1>1, <1>2, <1>5
<1>7. \A u \in Threads : u # t => frames'[u] = frames[u]
  BY <1>1, <1>4
<1> QED
  BY <1>2, <1>3, <1>6, <1>7

LEMMA FrameIs ==
  ASSUME TypeOK, NEW t \in Threads, NEW k \in DOMAIN frames[t]
  PROVE  frames[t][k].sig \in Signals /\ frames[t][k].step \in {"flag", "stop", "drain"}
<1>1. frames[t] \in Seq(Frame)
  BY DEF TypeOK
<1>2. frames[t][k] \in Frame
  BY <1>1
<1> QED
  BY <1>2 DEF Frame

LEMMA InitHeld == Init => Held
<1> SUFFICES ASSUME Init PROVE Held
  OBVIOUS
<1>1. \A t \in Threads : frames[t] = <<>>
  BY DEF Init
<1>2. Alone /\ AllHonest
  BY <1>1 DEF Alone, AllHonest
<1>3. serverMu # Main /\ serverMu \notin Signals
  BY LifecycleAssumption DEF Init, Threads
<1> QED
  BY <1>2, <1>3 DEF Init, Held, Locks

\* main() takes and releases the mutex; the handlers stand where they are.
LEMMA MainHeld == TypeOK /\ Order /\ Held /\ MainNext => Held'
<1> SUFFICES ASSUME TypeOK, Order, Held, MainNext PROVE Held'
  OBVIOUS
<1>1. /\ UNCHANGED <<frames, arrived, flag>>
      /\ serverMu' = serverMu \/ {serverMu, serverMu'} = {Free, Main}
  BY DEF MainNext, Construct, StartConsumer, PublishServer, BuildAndStart, WaitLocks,
         WaitSleeps, WaitWakes, CheckFlag, StopConsumer, Join, Flush, ResetConsumer,
         ResetProducer, MainAt, Held, Locks
<1>2. Main \notin Signals /\ Free \notin Signals /\ Free # Main
  BY LifecycleAssumption DEF Threads
<1>3. Alone'
  BY <1>1 DEF Alone, Held
<1>4. AllHonest'
  <2> SUFFICES ASSUME NEW t \in Threads, NEW k \in DOMAIN frames[t]
               PROVE  Honest(frames[t][k], arrived', flag', serverMu')
    BY <1>1 DEF AllHonest
  <2>1. Honest(frames[t][k], arrived, flag, serverMu)
    BY DEF Held, AllHonest
  <2>2. frames[t][k].sig \in Signals
    BY FrameIs
  <2>3. serverMu' = frames[t][k].sig <=> serverMu = frames[t][k].sig
    BY <1>1, <1>2, <2>2
  <2> QED
    BY <1>1, <2>1, <2>3 DEF Honest
<1>5. \A sig : InFrames(sig)' <=> InFrames(sig)
  BY <1>1 DEF InFrames
<1>6. Locks'
  <2> USE <1>1, <1>2, <1>5
      DEF Held, Locks, Order, BeforeStart, StoppedServer, Teardown, MainAt
  <2>1. CASE Construct     BY <2>1 DEF Construct
  <2>2. CASE StartConsumer BY <2>2 DEF StartConsumer
  <2>3. CASE PublishServer BY <2>3 DEF PublishServer
  <2>4. CASE BuildAndStart BY <2>4 DEF BuildAndStart
  <2>5. CASE WaitLocks     BY <2>5 DEF WaitLocks
  <2>6. CASE WaitSleeps    BY <2>6 DEF WaitSleeps
  <2>7. CASE WaitWakes     BY <2>7 DEF WaitWakes
  <2>8. CASE CheckFlag     BY <2>8 DEF CheckFlag
  <2>9. CASE StopConsumer  BY <2>9 DEF StopConsumer
  <2>10. CASE Join          BY <2>10 DEF Join
  <2>11. CASE Flush         BY <2>11 DEF Flush
  <2>12. CASE ResetConsumer BY <2>12 DEF ResetConsumer
  <2>13. CASE ResetProducer BY <2>13 DEF ResetProducer
  <2> QED
    BY <2>1, <2>2, <2>3, <2>4, <2>5, <2>6, <2>7, <2>8, <2>9, <2>10, <2>11,
       <2>12, <2>13 DEF MainNext
<1> QED
  BY <1>3, <1>4, <1>6 DEF Held

\* A signal finds no handler of its own.
LEMMA ArriveHeld ==
  ASSUME TypeOK, Held, NEW sig \in Signals, NEW t \in Threads, Arrive(sig, t)
  PROVE  Held'
<1> DEFINE f == [sig |-> sig, step |-> "flag"]
<1>1. /\ sig \notin arrived /\ arrived' = arrived \cup {sig}
      /\ frames' = [frames EXCEPT ![t] = <<f>> \o @]
      /\ UNCHANGED <<main, flag, server, serverMu>>
  BY DEF Arrive
<1>2. f \in Frame /\ f.sig = sig /\ f.step = "flag"
  BY DEF Frame
<1> HIDE DEF f
<1>3. \A u \in Threads : \A k \in DOMAIN frames'[u] :
        \/ u = t /\ k = 1 /\ frames'[u][k] = f
        \/ u = t /\ k - 1 \in DOMAIN frames[u] /\ frames'[u][k] = frames[u][k - 1]
        \/ u # t /\ k \in DOMAIN frames[u] /\ frames'[u][k] = frames[u][k]
  BY <1>1, <1>2, Pushed
<1>4. \A u \in Threads : DOMAIN frames[u] \subseteq Int /\ DOMAIN frames'[u] \subseteq Int
  <2> SUFFICES ASSUME NEW u \in Threads
               PROVE  DOMAIN frames[u] \subseteq Int /\ DOMAIN frames'[u] \subseteq Int
    OBVIOUS
  <2>1. frames \in [Threads -> Seq(Frame)]
    BY DEF TypeOK
  <2>2. frames' \in [Threads -> Seq(Frame)]
    BY <1>1, <1>2, <2>1, FrameStacks
  <2> QED
    BY <2>1, <2>2
<1>5. \A u \in Threads : \A k \in DOMAIN frames[u] : frames[u][k].sig # sig
  BY <1>1 DEF Held, AllHonest, Honest
<1>6. Alone'
  <2> SUFFICES ASSUME NEW u \in Threads, NEW v \in Threads,
                      NEW j \in DOMAIN frames'[u], NEW k \in DOMAIN frames'[v],
                      frames'[u][j].sig = frames'[v][k].sig
               PROVE  u = v /\ j = k
    BY DEF Alone
  <2>1. j \in Int /\ k \in Int
    BY <1>4
  <2>2. CASE u = t /\ j = 1 /\ frames'[u][j] = f
    BY <1>2, <1>3, <1>5, <2>2
  <2>3. CASE v = t /\ k = 1 /\ frames'[v][k] = f
    BY <1>2, <1>3, <1>5, <2>3
  <2>4. CASE /\ ~(u = t /\ j = 1 /\ frames'[u][j] = f)
             /\ ~(v = t /\ k = 1 /\ frames'[v][k] = f)
    <3>1. PICK p \in DOMAIN frames[u] :
            /\ frames'[u][j] = frames[u][p]
            /\ p = IF u = t THEN j - 1 ELSE j
      BY <1>3, <2>4
    <3>2. PICK q \in DOMAIN frames[v] :
            /\ frames'[v][k] = frames[v][q]
            /\ q = IF v = t THEN k - 1 ELSE k
      BY <1>3, <2>4
    <3>3. u = v /\ p = q
      BY <3>1, <3>2 DEF Held, Alone
    <3> QED
      BY <2>1, <3>1, <3>2, <3>3
  <2> QED
    BY <2>2, <2>3, <2>4
<1>7. serverMu # sig
  BY <1>1 DEF Held, Locks
<1>8. AllHonest'
  <2> SUFFICES ASSUME NEW u \in Threads, NEW k \in DOMAIN frames'[u]
               PROVE  Honest(frames'[u][k], arrived', flag', serverMu')
    BY DEF AllHonest
  <2>1. CASE frames'[u][k] = f
    BY <1>1, <1>2, <1>7, <2>1 DEF Honest
  <2>2. CASE \E j \in DOMAIN frames[u] : frames'[u][k] = frames[u][j]
    <3>1. PICK j \in DOMAIN frames[u] : frames'[u][k] = frames[u][j]
      BY <2>2
    <3>2. Honest(frames[u][j], arrived, flag, serverMu)
      BY DEF Held, AllHonest
    <3> QED
      BY <1>1, <3>1, <3>2 DEF Honest
  <2> QED
    BY <1>3, <2>1, <2>2
<1>9. \A s : InFrames(s)' => InFrames(s) \/ s = sig
  <2> SUFFICES ASSUME NEW s, NEW u \in Threads, NEW k \in DOMAIN frames'[u],
                      frames'[u][k].sig = s, s # sig
               PROVE  InFrames(s)
    BY DEF InFrames
  <2> QED
    BY <1>2, <1>3 DEF InFrames
<1>10. Locks'
  BY <1>1, <1>9 DEF Held, Locks
<1> QED
  BY <1>6, <1>8, <1>10 DEF Held

\* The signal of a handler that returns has no other handler.
LEMMA ReturnHeld ==
  ASSUME TypeOK, Held, NEW t \in Threads, frames[t] # <<>>, Return(t)
  PROVE  /\ Alone'
         /\ \A u \in Threads : \A k \in DOMAIN frames'[u] :
              \E j \in DOMAIN frames[u] :
                frames'[u][k] = frames[u][j] /\ frames[u][j].sig # Head(frames[t]).sig
         /\ \A s : InFrames(s)' => InFrames(s) /\ s # Head(frames[t]).sig
<1>1. /\ 1 \in DOMAIN frames[t] /\ Head(frames[t]) = frames[t][1]
      /\ \A u \in Threads : \A k \in DOMAIN frames'[u] :
           \/ u = t /\ k + 1 \in DOMAIN frames[u] /\ frames'[u][k] = frames[u][k + 1]
           \/ u # t /\ k \in DOMAIN frames[u] /\ frames'[u][k] = frames[u][k]
  BY Popped
<1>2. \A u \in Threads : DOMAIN frames[u] \subseteq Int /\ DOMAIN frames'[u] \subseteq Nat \ {0}
  <2> SUFFICES ASSUME NEW u \in Threads
               PROVE  DOMAIN frames[u] \subseteq Int /\ DOMAIN frames'[u] \subseteq Nat \ {0}
    OBVIOUS
  <2>1. frames \in [Threads -> Seq(Frame)]
    BY DEF TypeOK
  <2>2. frames' \in [Threads -> Seq(Frame)]
    BY <2>1, FrameStacks DEF Return
  <2> QED
    BY <2>1, <2>2
<1>3. Alone'
  <2> SUFFICES ASSUME NEW u \in Threads, NEW v \in Threads,
                      NEW j \in DOMAIN frames'[u], NEW k \in DOMAIN frames'[v],
                      frames'[u][j].sig = frames'[v][k].sig
               PROVE  u = v /\ j = k
    BY DEF Alone
  <2>1. j \in Int /\ k \in Int
    BY <1>2
  <2>2. PICK p \in DOMAIN frames[u] :
          /\ frames'[u][j] = frames[u][p]
          /\ p = IF u = t THEN j + 1 ELSE j
    BY <1>1
  <2>3. PICK q \in DOMAIN frames[v] :
          /\ frames'[v][k] = frames[v][q]
          /\ q = IF v = t THEN k + 1 ELSE k
    BY <1>1
  <2>4. u = v /\ p = q
    BY <2>2, <2>3 DEF Held, Alone
  <2> QED
    BY <2>1, <2>2, <2>3, <2>4
<1>4. ASSUME NEW u \in Threads, NEW k \in DOMAIN frames'[u]
      PROVE  \E j \in DOMAIN frames[u] :
               frames'[u][k] = frames[u][j] /\ frames[u][j].sig # Head(frames[t]).sig
  <2>1. k \in Nat \ {0}
    BY <1>2
  <2>2. PICK j \in DOMAIN frames[u] :
          /\ frames'[u][k] = frames[u][j]
          /\ j = IF u = t THEN k + 1 ELSE k
    BY <1>1
  <2>3. ~(u = t /\ j = 1)
    BY <2>1, <2>2
  <2>4. frames[u][j].sig # frames[t][1].sig
    BY <1>1, <2>3 DEF Held, Alone
  <2> QED
    BY <1>1, <2>2, <2>4
<1>5. ASSUME NEW s, InFrames(s)'
      PROVE  InFrames(s) /\ s # Head(frames[t]).sig
  <2>1. PICK u \in Threads : \E k \in DOMAIN frames'[u] : frames'[u][k].sig = s
    BY <1>5 DEF InFrames
  <2>2. PICK k \in DOMAIN frames'[u] : frames'[u][k].sig = s
    BY <2>1
  <2> QED
    BY <1>4, <2>2 DEF InFrames
<1> QED
  BY <1>3, <1>4, <1>5

\* The handler on top sets the flag or takes the mutex.
LEMMA StepHeld ==
  ASSUME TypeOK, Held, NEW t \in Threads, frames[t] # <<>>, NEW step, GoTo(t, step)
  PROVE  /\ Alone'
         /\ \A s : InFrames(s)' <=> InFrames(s)
         /\ \A u \in Threads : \A k \in DOMAIN frames'[u] :
              \/ /\ frames'[u][k].sig = Head(frames[t]).sig
                 /\ frames'[u][k].step = step
              \/ \E j \in DOMAIN frames[u] :
                   frames'[u][k] = frames[u][j] /\ frames[u][j].sig # Head(frames[t]).sig
<1>1. /\ 1 \in DOMAIN frames[t] /\ Head(frames[t]) = frames[t][1]
      /\ \A u \in Threads :
           /\ DOMAIN frames'[u] = DOMAIN frames[u]
           /\ \A k \in DOMAIN frames[u] :
                /\ frames'[u][k].sig = frames[u][k].sig
                /\ u # t \/ k # 1 => frames'[u][k] = frames[u][k]
      /\ frames'[t][1].step = step
  BY Stepped
<1>2. Alone'
  BY <1>1 DEF Held, Alone
<1>3. ASSUME NEW s
      PROVE  InFrames(s)' <=> InFrames(s)
  BY <1>1 DEF InFrames
<1>4. ASSUME NEW u \in Threads, NEW k \in DOMAIN frames'[u]
      PROVE  \/ /\ frames'[u][k].sig = Head(frames[t]).sig
                /\ frames'[u][k].step = step
             \/ \E j \in DOMAIN frames[u] :
                  frames'[u][k] = frames[u][j] /\ frames[u][j].sig # Head(frames[t]).sig
  <2>1. CASE u = t /\ k = 1
    BY <1>1, <2>1
  <2>2. CASE ~(u = t /\ k = 1)
    <3>1. k \in DOMAIN frames[u] /\ frames'[u][k] = frames[u][k]
      BY <1>1, <2>2
    <3>2. frames[u][k].sig # frames[t][1].sig
      BY <1>1, <2>2, <3>1 DEF Held, Alone
    <3> QED
      BY <1>1, <3>1, <3>2
  <2> QED
    BY <2>1, <2>2
<1> QED
  BY <1>2, <1>3, <1>4

LEMMA RequestHeld ==
  ASSUME TypeOK, Held, NEW t \in Threads, RequestShutdown(t)
  PROVE  Held'
<1>1. /\ frames[t] # <<>> /\ Head(frames[t]).step = "flag"
      /\ flag' = TRUE
      /\ UNCHANGED <<main, arrived, server, serverMu>>
  BY DEF RequestShutdown, Handling
<1>2. /\ 1 \in DOMAIN frames[t] /\ Head(frames[t]) = frames[t][1]
  <2>1. frames[t] \in Seq(Frame)
    BY DEF TypeOK
  <2> QED
    BY <1>1, <2>1
<1>3. Honest(Head(frames[t]), arrived, flag, serverMu)
  BY <1>2 DEF Held, AllHonest
<1>4. CASE Return(t)
  <2>1. Alone'
    BY <1>1, <1>4, ReturnHeld
  <2>2. AllHonest'
    <3> SUFFICES ASSUME NEW u \in Threads, NEW k \in DOMAIN frames'[u]
                 PROVE  Honest(frames'[u][k], arrived', flag', serverMu')
      BY DEF AllHonest
    <3>1. PICK j \in DOMAIN frames[u] : frames'[u][k] = frames[u][j]
      BY <1>1, <1>4, ReturnHeld
    <3>2. Honest(frames[u][j], arrived, flag, serverMu)
      BY DEF Held, AllHonest
    <3> QED
      BY <1>1, <3>1, <3>2 DEF Honest
  <2>3. \A s : InFrames(s)' => InFrames(s)
    BY <1>1, <1>4, ReturnHeld
  <2>4. Locks'
    BY <1>1, <2>3 DEF Held, Locks
  <2> QED
    BY <2>1, <2>2, <2>4 DEF Held
<1>5. CASE GoTo(t, "stop")
  <2>1. Alone' /\ \A s : InFrames(s)' <=> InFrames(s)
    BY <1>1, <1>5, StepHeld
  <2>2. AllHonest'
    <3> SUFFICES ASSUME NEW u \in Threads, NEW k \in DOMAIN frames'[u]
                 PROVE  Honest(frames'[u][k], arrived', flag', serverMu')
      BY DEF AllHonest
    <3>1. \/ /\ frames'[u][k].sig = Head(frames[t]).sig
             /\ frames'[u][k].step = "stop"
          \/ \E j \in DOMAIN frames[u] : frames'[u][k] = frames[u][j]
      BY <1>1, <1>5, StepHeld
    <3>2. \A j \in DOMAIN frames[u] : Honest(frames[u][j], arrived, flag, serverMu)
      BY DEF Held, AllHonest
    <3> QED
      BY <1>1, <1>3, <3>1, <3>2 DEF Honest
  <2>3. Locks'
    BY <1>1, <2>1 DEF Held, Locks
  <2> QED
    BY <2>1, <2>2, <2>3 DEF Held
<1> QED
  BY <1>4, <1>5 DEF RequestShutdown

\* Shutdown() takes the mutex for its signal, or returns at once.
LEMMA StopHeld ==
  ASSUME TypeOK, Held, NEW t \in Threads, StopServer(t)
  PROVE  Held'
<1> DEFINE top == Head(frames[t])
<1>1. /\ frames[t] # <<>> /\ top.step = "stop"
      /\ UNCHANGED <<arrived, flag>>
  BY DEF StopServer, Handling
<1>2. 1 \in DOMAIN frames[t] /\ top = frames[t][1]
  <2>1. frames[t] \in Seq(Frame)
    BY DEF TypeOK
  <2> QED
    BY <1>1, <2>1
<1>3. Honest(top, arrived, flag, serverMu) /\ top.sig \in Signals
  BY <1>2, FrameIs DEF Held, AllHonest
<1>4. Main \notin Signals /\ Free \notin Signals /\ Free # Main
  BY LifecycleAssumption DEF Threads
<1>5. CASE server = "null"
  <2>1. main' = "crashed" /\ UNCHANGED <<frames, server, serverMu>>
    BY <1>5 DEF StopServer
  <2>2. Alone' /\ AllHonest' /\ \A s : InFrames(s)' <=> InFrames(s)
    BY <1>1, <2>1 DEF Held, Alone, AllHonest, InFrames
  <2>3. Locks'
    BY <1>1, <1>5, <2>1, <2>2 DEF Held, Locks
  <2> QED
    BY <2>2, <2>3 DEF Held
<1>6. CASE server = "serving"
  <2>1. /\ serverMu = Free /\ serverMu' = top.sig /\ server' = "draining"
        /\ GoTo(t, "drain") /\ UNCHANGED main
    BY <1>6 DEF StopServer
  <2>2. Alone' /\ \A s : InFrames(s)' <=> InFrames(s)
    BY <1>1, <2>1, StepHeld
  <2>3. AllHonest'
    <3> SUFFICES ASSUME NEW u \in Threads, NEW k \in DOMAIN frames'[u]
                 PROVE  Honest(frames'[u][k], arrived', flag', serverMu')
      BY DEF AllHonest
    <3>1. \/ frames'[u][k].sig = top.sig /\ frames'[u][k].step = "drain"
          \/ \E j \in DOMAIN frames[u] :
               frames'[u][k] = frames[u][j] /\ frames[u][j].sig # top.sig
      BY <1>1, <2>1, StepHeld
    <3>2. CASE frames'[u][k].sig = top.sig /\ frames'[u][k].step = "drain"
      BY <1>1, <1>3, <2>1, <3>2 DEF Honest
    <3>3. CASE \E j \in DOMAIN frames[u] :
                 frames'[u][k] = frames[u][j] /\ frames[u][j].sig # top.sig
      <4>1. PICK j \in DOMAIN frames[u] :
              frames'[u][k] = frames[u][j] /\ frames[u][j].sig # top.sig
        BY <3>3
      <4>2. Honest(frames[u][j], arrived, flag, serverMu) /\ frames[u][j].sig \in Signals
        BY FrameIs DEF Held, AllHonest
      <4> QED
        BY <1>1, <1>4, <2>1, <4>1, <4>2 DEF Honest
    <3> QED
      BY <3>1, <3>2, <3>3
  <2>4. Locks'
    BY <1>1, <1>3, <1>4, <2>1 DEF Held, Locks, Honest
  <2> QED
    BY <2>2, <2>3, <2>4 DEF Held
<1>7. CASE server = "notified"
  <2>1. Return(t) /\ UNCHANGED <<main, server, serverMu>>
    BY <1>7 DEF StopServer
  <2>2. Alone' /\ \A s : InFrames(s)' => InFrames(s)
    BY <1>1, <2>1, ReturnHeld
  <2>3. AllHonest'
    <3> SUFFICES ASSUME NEW u \in Threads, NEW k \in DOMAIN frames'[u]
                 PROVE  Honest(frames'[u][k], arrived', flag', serverMu')
      BY DEF AllHonest
    <3>1. PICK j \in DOMAIN frames[u] : frames'[u][k] = frames[u][j]
      BY <1>1, <2>1, ReturnHeld
    <3> QED
      BY <1>1, <2>1, <3>1 DEF Held, AllHonest
  <2>4. Locks'
    BY <1>1, <2>1, <2>2 DEF Held, Locks
  <2> QED
    BY <2>2, <2>3, <2>4 DEF Held
<1> QED
  BY <1>5, <1>6, <1>7 DEF StopServer

\* The one that drained lets the mutex go, and its signal is done with.
LEMMA DrainedHeld ==
  ASSUME TypeOK, Held, NEW t \in Threads, Drained(t)
  PROVE  Held'
<1> DEFINE top == Head(frames[t])
<1>1. /\ frames[t] # <<>> /\ top.step = "drain"
      /\ server = "draining" /\ server' = "notified" /\ serverMu' = Free
      /\ Return(t) /\ UNCHANGED <<main, arrived, flag>>
  BY DEF Drained, Handling
<1>2. 1 \in DOMAIN frames[t] /\ top = frames[t][1]
  <2>1. frames[t] \in Seq(Frame)
    BY DEF TypeOK
  <2> QED
    BY <1>1, <2>1
<1>3. Honest(top, arrived, flag, serverMu) /\ top.sig \in Signals
  BY <1>2, FrameIs DEF Held, AllHonest
<1>4. Main \notin Signals /\ Free \notin Signals /\ Free # Main
  BY LifecycleAssumption DEF Threads
<1>5. serverMu = top.sig
  BY <1>1, <1>3 DEF Honest
<1>6. Alone' /\ \A s : InFrames(s)' => s # top.sig
  BY <1>1, ReturnHeld
<1>7. AllHonest'
  <2> SUFFICES ASSUME NEW u \in Threads, NEW k \in DOMAIN frames'[u]
               PROVE  Honest(frames'[u][k], arrived', flag', serverMu')
    BY DEF AllHonest
  <2>1. PICK j \in DOMAIN frames[u] :
          frames'[u][k] = frames[u][j] /\ frames[u][j].sig # top.sig
    BY <1>1, ReturnHeld
  <2>2. Honest(frames[u][j], arrived, flag, serverMu) /\ frames[u][j].sig \in Signals
    BY FrameIs DEF Held, AllHonest
  <2> QED
    BY <1>1, <1>4, <1>5, <2>1, <2>2 DEF Honest
<1>8. (\E sig \in arrived : ~InFrames(sig))'
  <2>1. top.sig \in arrived
    BY <1>3 DEF Honest
  <2>2. PICK s \in arrived : s = top.sig
    BY <2>1
  <2>3. s \in arrived' /\ ~InFrames(s)'
    BY <1>1, <1>6, <2>2
  <2> QED
    BY <2>3
<1>9. Locks'
  BY <1>1, <1>3, <1>4, <1>5, <1>8 DEF Held, Locks
<1> QED
  BY <1>6, <1>7, <1>9 DEF Held

LEMMA NextHeld == TypeOK /\ Order /\ Held /\ [Next]_vars => Held'
<1> SUFFICES ASSUME TypeOK, Order, Held, [Next]_vars PROVE Held'
  OBVIOUS
<1>1. ASSUME UNCHANGED <<main, frames, arrived, flag, server, serverMu>>
      PROVE  Held'
  <2>1. \A s : InFrames(s)' <=> InFrames(s)
    BY <1>1 DEF InFrames
  <2> QED
    BY <1>1, <2>1 DEF Held, Alone, AllHonest, Locks
<1>2. HandlerThreads \subseteq Threads
  BY LifecycleAssumption
<1>3. ASSUME NEW t \in HandlerThreads, HandlerNext(t)
      PROVE  Held'
  BY <1>2, <1>3, RequestHeld, StopHeld, DrainedHeld DEF HandlerNext
<1>4. ASSUME NEW r \in Rpcs, BeginRpc(r) \/ FinishRpc(r)
      PROVE  Held'
  BY <1>1, <1>4 DEF BeginRpc, FinishRpc, Validate, LockProducer, UnlockProducer, EndRpc
<1>5. WorkerNext => Held'
  BY <1>1 DEF WorkerNext, LoopHead, ReturnFromConsume, ProcessMessage, LockForResponse,
              SendResponse, Callback, WorkerStep
<1>6. UNCHANGED vars => Held'
  BY <1>1 DEF vars
<1> QED
  BY <1>2, <1>3, <1>4, <1>5, <1>6, MainHeld, ArriveHeld DEF Next, Ended

\* For any number of RPC threads and signals, wherever a signal lands: the only
\* handler, on top of Wait(), never waits for a mutex or meets a null pointer, and
\* a notified Wait() finds the mutex free and the flag set.
THEOREM StopIsNotBlocked == Spec => []NothingBlocksTheStop
<1>1. Init => Held
  BY InitHeld
<1>2. TypeOK /\ Order /\ Held /\ [Next]_vars => Held'
  BY NextHeld
<1>3. ASSUME TypeOK, Order, Held
      PROVE  NothingBlocksTheStop
  <2>1. serverMu \in {Free, Main} \cup Signals /\ server \in {"null", "serving", "draining", "notified"}
    BY <1>3 DEF TypeOK
  <2>2. Main \notin Signals /\ Free \notin Signals /\ Free # Main
    BY LifecycleAssumption DEF Threads
  <2>3. ASSUME Undisturbed, NEW t \in Threads, Handling(t, "stop")
        PROVE  server = "serving" /\ serverMu = Free
    <3> DEFINE top == Head(frames[t])
    <3>1. frames[t] # <<>> /\ top.step = "stop" /\ main = "asleep"
      BY <2>3 DEF Handling, Undisturbed
    <3>2. 1 \in DOMAIN frames[t] /\ top = frames[t][1]
      <4>1. frames[t] \in Seq(Frame)
        BY <1>3 DEF TypeOK
      <4> QED
        BY <3>1, <4>1
    <3>3. Honest(top, arrived, flag, serverMu)
      BY <1>3, <3>2 DEF Held, AllHonest
    <3>4. \A s \in arrived : s = top.sig
      BY <2>3, <3>3 DEF Undisturbed, Honest
    <3>5. InFrames(top.sig)
      BY <3>2 DEF InFrames
    <3>6. server # "notified"
      BY <1>3, <3>4, <3>5 DEF Held, Locks
    <3>7. serverMu \notin Signals
      BY <1>3, <3>1, <3>3, <3>4 DEF Held, Locks, Honest
    <3> QED
      BY <1>3, <2>1, <3>1, <3>6, <3>7 DEF Held, Locks
  <2>4. main = "asleep" /\ server = "notified" => serverMu = Free
    BY <1>3, <2>1, <2>2 DEF Held, Locks
  <2>5. main = "check" => flag
    BY <1>3 DEF Held, Locks, Order, StoppedServer
  <2> QED
    BY <2>3, <2>4, <2>5 DEF NothingBlocksTheStop
<1> QED
  BY <1>1, <1>2, <1>3, Invariant, PTL DEF Spec
=============================================================================
