------------------------ MODULE ModerationFlow_proofs ------------------------
(***************************************************************************)
(* Proofs about ModerationFlow, for every number of handlers, places in    *)
(* the producer's queue, messages, sessions and crashes, and every choice  *)
(* of faults.                                                              *)
(***************************************************************************)
EXTENDS ModerationFlow, FiniteSetTheorems, TLAPS

-----------------------------------------------------------------------------
(***************************************************************************)
(* The operators on messages return what their names say.                  *)
(***************************************************************************)

\* What the service publishes for a request is a message of the request topic.
LEMMA KafkaRequestType == \A r \in Request : KafkaRequest(r) \in Message
  BY DEF Request, KafkaRequest, Message, WireTypes, ObjectTypes, Unspecified

\* An acceptable message has an answer whose key is an object id.
LEMMA ResponseType ==
  \A m \in Message : Acceptable(m) => Response(m) \in Answer
  BY MessagesAssumption
  DEF Message, Acceptable, KeyAccepted, Response, RequestId, IsFlagged, Answer

\* An acceptable message has a row.
LEMMA RecordType ==
  \A m \in Message : Acceptable(m) => ModerationRecord(m) \in Row
  BY MessagesAssumption
  DEF Message, Acceptable, KeyAccepted, ModerationRecord, RequestId, IsFlagged,
      Row

\* Demand counts the messages of the topic and more.
LEMMA DemandBoundsTopic ==
  ASSUME TypeOK PROVE Demand \in Nat /\ Len(requests) <= Demand
<1> DEFINE Q == {s \in Slots : outbox[s] \notin {None, Reported}
                                 /\ outbox[s].topic = "request"}
           C == {h \in Handlers : Calling(h) /\ call[h].stage = "sending"}
<1>1. IsFiniteSet(Q) /\ IsFiniteSet(C)
  <2>1. Q \subseteq Slots /\ C \subseteq Handlers
    OBVIOUS
  <2> QED
    BY <2>1, FS_Subset, FlowAssumption
<1>2. Cardinality(Q) \in Nat /\ Cardinality(C) \in Nat
  BY <1>1, FS_CardinalityType
<1>3. Len(requests) \in Nat
  BY DEF TypeOK
<1>4. Demand = Len(requests) + Cardinality(Q) + Cardinality(C)
  BY DEF Demand
<1> HIDE DEF Q, C
<1> QED
  BY <1>2, <1>3, <1>4

-----------------------------------------------------------------------------
(***************************************************************************)
(* Type correctness.  Alone TypeOK is not inductive: the consumer must     *)
(* have a message at hand where it works on one, and that message must     *)
(* have passed the checks once it is being answered, and a process that is *)
(* down has left both behind.                                              *)
(***************************************************************************)

Busy == pc \in {"process", "respond", "save"}

AtHand ==
  /\ Busy <=> current # 0
  /\ pc \in {"respond", "save"} => Acceptable(Working)
  /\ mode = "down" => pc = "exited"

TypeInv == TypeOK /\ AtHand

LEMMA InitTypeInv == Init => TypeInv
  BY MessagesAssumption, FlowAssumption
  DEF Init, TypeInv, TypeOK, AtHand, Busy, Call, Entry, Offsets

LEMMA PollType ==
  ASSUME NEW box \in [Slots -> Entry \cup {None, Reported}]
  PROVE  Poll(box) \in [Slots -> Entry \cup {None, Reported}]
  BY DEF Poll

LEMMA ProduceType ==
  ASSUME TypeOK, NEW e \in Entry, Produce(e)
  PROVE  outbox' \in [Slots -> Entry \cup {None, Reported}]
<1>1. PICK s \in Slots : outbox' = Poll([outbox EXCEPT ![s] = e])
  BY DEF Produce
<1>2. [outbox EXCEPT ![s] = e] \in [Slots -> Entry \cup {None, Reported}]
  BY DEF TypeOK
<1> QED
  BY <1>1, <1>2, PollType

LEMMA WorkingType ==
  ASSUME TypeInv, Busy
  PROVE  current \in DOMAIN requests /\ Working \in Message
  BY DEF TypeInv, TypeOK, AtHand, Busy, Working

LEMMA QueuedType == ASSUME TypeOK PROVE Queued \subseteq Entry
  BY DEF TypeOK, Queued

LEMMA AppendedType ==
  ASSUME TypeInv, NEW e \in Entry, Appended(e)
  PROVE  /\ requests' \in Seq(Message)
         /\ Len(requests') <= MaxRequests
         /\ results' \subseteq Answer
         /\ Len(requests) <= Len(requests')
         /\ \A n \in DOMAIN requests : n \in DOMAIN requests'
                                         /\ requests'[n] = requests[n]
<1>1. CASE e.topic = "request"
  <2>1. e.body \in Message /\ requests' = Append(requests, e.body)
        /\ Len(requests) < MaxRequests /\ UNCHANGED results
    BY <1>1 DEF Entry, Appended
  <2>2. requests \in Seq(Message) /\ results \subseteq Answer
    BY DEF TypeInv, TypeOK
  <2> QED
    BY <2>1, <2>2, FlowAssumption
<1>2. CASE e.topic = "result"
  <2>1. e.body \in Answer /\ results' = results \cup {e.body} /\ UNCHANGED requests
    BY <1>2 DEF Entry, Appended
  <2> QED
    BY <2>1, FlowAssumption DEF TypeInv, TypeOK
<1> QED
  BY <1>1, <1>2 DEF Entry

\* A step that appends to a topic and leaves the consumer alone.
LEMMA TopicStepType ==
  ASSUME TypeInv, NEW e \in Entry, Appended(e),
         UNCHANGED <<process, grpc, lost, consumer, database>>,
         outbox' \in [Slots -> Entry \cup {None, Reported}]
  PROVE  TypeInv'
<1>1. /\ requests' \in Seq(Message)
      /\ Len(requests') <= MaxRequests
      /\ results' \subseteq Answer
      /\ Len(requests) <= Len(requests')
      /\ \A n \in DOMAIN requests : n \in DOMAIN requests'
                                      /\ requests'[n] = requests[n]
  BY AppendedType
<1>2. TypeOK'
  BY <1>1, FlowAssumption DEF TypeInv, TypeOK, process, grpc, consumer, database
<1>3. AtHand'
  <2>1. UNCHANGED <<mode, pc, current>>
    BY DEF process, consumer
  <2>2. CASE current = 0
    BY <2>1, <2>2 DEF TypeInv, AtHand, Busy
  <2>3. CASE current # 0
    <3>1. current \in DOMAIN requests
      BY <2>3 DEF TypeInv, TypeOK
    <3>2. Working' = Working
      BY <3>1, <2>1, <1>1 DEF Working
    <3> QED
      BY <3>2, <2>1 DEF TypeInv, AtHand, Busy, Acceptable, KeyAccepted,
         TypeAccepted
  <2> QED
    BY <2>2, <2>3
<1> QED
  BY <1>2, <1>3 DEF TypeInv

\* The step that ends a life.
LEMMA LoseMemoryType ==
  ASSUME TypeInv, LoseMemory, crashes' \in Nat,
         committed' \in {committed, position}
  PROVE  TypeInv'
<1>1. Queued \subseteq Entry
  BY QueuedType DEF TypeInv
<1>2. TypeOK'
  BY <1>1 DEF TypeInv, TypeOK, LoseMemory, topics, database
<1>3. AtHand'
  BY DEF LoseMemory, AtHand, Busy
<1> QED
  BY <1>2, <1>3 DEF TypeInv

LEMMA NextTypeInv == TypeInv /\ [Next]_vars => TypeInv'
<1> SUFFICES ASSUME TypeInv, [Next]_vars PROVE TypeInv'
  OBVIOUS
<1> USE DEF process, grpc, producer, topics, consumer, database
<1>0. TypeOK /\ AtHand
  BY DEF TypeInv
<1>1. ASSUME NEW h \in Handlers, NEW r \in GrpcRequests, ModerateObject(h, r)
      PROVE  TypeInv'
  <2>1. call' \in [Handlers -> Call \cup {None}]
    BY <1>0, <1>1 DEF ModerateObject, TypeOK, Call
  <2> QED
    BY <2>1, <1>0, <1>1 DEF ModerateObject, TypeInv, TypeOK, AtHand, Busy, Working
<1>2. ASSUME NEW h \in Handlers, SendRequestAsync(h) PROVE TypeInv'
  <2>1. call[h] \in Call
    BY <1>0, <1>2 DEF SendRequestAsync, Calling, TypeOK
  <2>2. call' \in [Handlers -> Call \cup {None}]
    BY <2>1, <1>0, <1>2 DEF SendRequestAsync, TypeOK, Call
  <2>3. ToRequestTopic(KafkaRequest(call[h].req)) \in Entry
    BY <2>1, KafkaRequestType, FlowAssumption DEF Call, ToRequestTopic, Entry
  <2>4. outbox' \in [Slots -> Entry \cup {None, Reported}]
    BY <2>3, <1>0, <1>2, ProduceType DEF SendRequestAsync, ProduceFails, TypeOK
  <2> QED
    BY <2>2, <2>4, <1>0, <1>2
    DEF SendRequestAsync, TypeInv, TypeOK, AtHand, Busy, Working
<1>3. ASSUME NEW h \in Handlers, ReplyToCaller(h) PROVE TypeInv'
  <2>1. call[h] \in Call
    BY <1>0, <1>3 DEF ReplyToCaller, Calling, TypeOK
  <2>2. accepted' \subseteq GrpcRequests /\ call' \in [Handlers -> Call \cup {None}]
    BY <2>1, <1>0, <1>3 DEF ReplyToCaller, TypeOK, Call
  <2> QED
    BY <2>2, <1>0, <1>3 DEF ReplyToCaller, TypeInv, TypeOK, AtHand, Busy, Working
<1>4. ASSUME NEW s \in Slots, Deliver(s) PROVE TypeInv'
  <2>1. outbox[s] \in Entry /\ Appended(outbox[s])
    BY <1>0, <1>4, QueuedType DEF Deliver
  <2>2. outbox' \in [Slots -> Entry \cup {None, Reported}]
    BY <1>0, <1>4 DEF Deliver, TypeOK
  <2> QED
    BY <2>1, <2>2, <1>4, TopicStepType DEF Deliver
<1>5. ASSUME NEW s \in Slots, AckLost(s) PROVE TypeInv'
  <2>1. outbox[s] \in Entry /\ Appended(outbox[s])
    BY <1>0, <1>5, QueuedType DEF AckLost
  <2>2. outbox' \in [Slots -> Entry \cup {None, Reported}]
    BY <1>0, <1>5 DEF AckLost, TypeOK
  <2> QED
    BY <2>1, <2>2, <1>5, TopicStepType DEF AckLost
<1>6. ASSUME NEW s \in Slots, Expire(s) PROVE TypeInv'
  <2>1. outbox[s] \in Entry
    BY <1>0, <1>6, QueuedType DEF Expire
  <2> QED
    BY <2>1, <1>0, <1>6 DEF Expire, TypeInv, TypeOK, AtHand, Busy, Working
<1>7. ASSUME NEW m \in ForeignMessages, PublishForeign(m) PROVE TypeInv'
  <2>1. ToRequestTopic(m) \in Entry
    BY FlowAssumption DEF ToRequestTopic, Entry
  <2>2. Len(requests) < MaxRequests
    <3>1. Len(requests) \in Nat
      BY <1>0 DEF TypeOK
    <3> QED
      BY <3>1, <1>0, <1>7, DemandBoundsTopic, FlowAssumption DEF PublishForeign
  <2>3. Appended(ToRequestTopic(m))
    BY <2>2, <1>7 DEF PublishForeign, Appended, ToRequestTopic
  <2>4. outbox' \in [Slots -> Entry \cup {None, Reported}]
    BY <1>0, <1>7 DEF PublishForeign, TypeOK
  <2> QED
    BY <2>1, <2>3, <2>4, <1>7, TopicStepType DEF PublishForeign
<1>8. CASE LoopHead
  BY <1>0, <1>8 DEF LoopHead, TypeInv, TypeOK, AtHand, Busy, Working
<1>9. CASE Consume
  BY <1>0, <1>9 DEF Consume, TypeInv, TypeOK, AtHand, Busy, Working
<1>10. CASE ConsumeNothing
  BY <1>0, <1>10 DEF ConsumeNothing, TypeInv, TypeOK, AtHand, Busy, Working
<1>11. CASE ProcessMessage
  <2>1. current \in DOMAIN requests /\ Working \in Message
    BY <1>11, WorkingType DEF ProcessMessage, Busy
  <2>2. Acceptable(Working) =>
          Verdict(Working) \subseteq Entry \cup [topic : {"table"}, body : Row]
    BY <2>1, ResponseType, RecordType
    DEF Verdict, ToResultTopic, ToTable, Entry
  <2> QED
    BY <2>1, <2>2, <1>0, <1>11
    DEF ProcessMessage, Finish, TypeInv, TypeOK, AtHand, Busy, Working
<1>12. CASE SendResponse
  <2>1. current \in DOMAIN requests /\ Working \in Message
    BY <1>12, WorkingType DEF SendResponse, Busy
  <2>2. ToResultTopic(Response(Working)) \in Entry
    BY <2>1, <1>0, <1>12, ResponseType
    DEF SendResponse, AtHand, ToResultTopic, Entry
  <2>3. outbox' \in [Slots -> Entry \cup {None, Reported}]
    BY <2>2, <1>0, <1>12, ProduceType DEF SendResponse, ProduceFails, TypeOK
  <2>4. lost' \subseteq Entry \cup [topic : {"table"}, body : Row]
    BY <2>2, <1>0, <1>12 DEF SendResponse, TypeOK
  <2> QED
    BY <2>3, <2>4, <1>0, <1>12
    DEF SendResponse, TypeInv, TypeOK, AtHand, Busy, Working
<1>13. CASE HandleModerationResult
  <2>1. current \in DOMAIN requests /\ Working \in Message
    BY <1>13, WorkingType DEF HandleModerationResult, Busy
  <2>2. ModerationRecord(Working) \in Row
    BY <2>1, <1>0, <1>13, RecordType DEF HandleModerationResult, AtHand
  <2>3. /\ table' \subseteq Row
        /\ saved' \in [Offsets -> Nat]
        /\ dbOpen' \in BOOLEAN
        /\ lost' \subseteq Entry \cup [topic : {"table"}, body : Row]
    BY <2>2, <1>0, <1>13
    DEF HandleModerationResult, SaveModerationResult, Insert, ToTable, TypeOK
  <2> QED
    BY <2>1, <2>3, <1>0, <1>13
    DEF HandleModerationResult, Finish, TypeInv, TypeOK, AtHand, Busy
<1>14. CASE AutoCommit
  BY <1>0, <1>14 DEF AutoCommit, TypeInv, TypeOK, AtHand, Busy, Working
<1>15. CASE Rejoin
  BY <1>0, <1>15 DEF Rejoin, TypeInv, TypeOK, AtHand, Busy, Working
<1>16. CASE Signal
  BY <1>0, <1>16 DEF Signal, TypeInv, TypeOK, AtHand, Busy, Working
<1>17. CASE StopConsumer
  BY <1>0, <1>17 DEF StopConsumer, TypeInv, TypeOK, AtHand, Busy, Working
<1>18. CASE Shutdown
  BY <1>0, <1>18, LoseMemoryType DEF Shutdown, TypeInv, TypeOK
<1>19. CASE Crash
  BY <1>0, <1>19, LoseMemoryType DEF Crash, TypeInv, TypeOK
<1>20. CASE Restart
  BY <1>0, <1>20 DEF Restart, TypeInv, TypeOK, AtHand, Busy, Working
<1>21. CASE UNCHANGED vars
  BY <1>0, <1>21 DEF vars, TypeInv, TypeOK, AtHand, Busy, Working
<1> QED
  BY <1>1, <1>2, <1>3, <1>4, <1>5, <1>6, <1>7, <1>8, <1>9, <1>10, <1>11, <1>12,
     <1>13, <1>14, <1>15, <1>16, <1>17, <1>18, <1>19, <1>20, <1>21
  DEF Next, Serve, Ended

\* The queue holds entries, offsets stay within the topic, the committed offset
\* never passes the position, and the topic never outgrows its bound.
THEOREM TypeCorrect == Spec => []TypeOK
<1>1. Init => TypeInv
  BY InitTypeInv
<1>2. TypeInv /\ [Next]_vars => TypeInv'
  BY NextTypeInv
<1>3. TypeInv => TypeOK
  BY DEF TypeInv
<1> QED
  BY <1>1, <1>2, <1>3, PTL DEF Spec

-----------------------------------------------------------------------------
(***************************************************************************)
(* How often a message is recorded.                                        *)
(*                                                                         *)
(* Each assignment lets the consumer take a message once.  An offset has   *)
(* used an assignment when its row was written, is about to use one while  *)
(* its message is at hand, and may still use one while the position has    *)
(* not passed it; the three never exceed the assignments there have been.  *)
(***************************************************************************)

AtWork(n) == IF current = n THEN 1 ELSE 0
Ahead(n)  == IF Alive /\ position <= n THEN 1 ELSE 0

TurnsLeft == \A n \in Offsets : saved[n] + AtWork(n) + Ahead(n) <= sessions

TurnsInv == TypeInv /\ TurnsLeft

LEMMA InitTurns == Init => TurnsLeft
  BY FlowAssumption DEF Init, TurnsLeft, AtWork, Ahead, Alive, Offsets

\* Steps that leave the position, the message at hand and the counts alone.
LEMMA TurnsUntouched ==
  ASSUME TypeInv, TurnsLeft, UNCHANGED <<saved, current, position, sessions>>,
         Alive' => Alive
  PROVE  TurnsLeft'
<1>1. /\ sessions \in Nat
      /\ saved \in [Offsets -> Nat]
  BY DEF TypeInv, TypeOK
<1>2. ASSUME NEW n \in Offsets
      PROVE  /\ AtWork(n)' = AtWork(n) /\ AtWork(n) \in {0, 1}
             /\ Ahead(n)' \in {0, Ahead(n)} /\ Ahead(n) \in {0, 1}
  BY DEF AtWork, Ahead
<1> QED
  BY <1>1, <1>2 DEF TurnsLeft

LEMMA NextTurns == TurnsInv /\ [Next]_vars => TurnsLeft'
<1> SUFFICES ASSUME TypeInv, TurnsLeft, [Next]_vars PROVE TurnsLeft'
  BY DEF TurnsInv
<1> USE DEF process, grpc, producer, topics, consumer, database
<1>0. /\ sessions \in Nat
      /\ current \in Nat
      /\ position \in Nat
      /\ committed \in Nat
      /\ committed <= position
      /\ saved \in [Offsets -> Nat]
      /\ Offsets \subseteq Nat \ {0}
  BY FlowAssumption DEF TypeInv, TypeOK, Offsets
<1>1. ASSUME NEW h \in Handlers,
             Serve(h) \/ \E r \in GrpcRequests : ModerateObject(h, r)
      PROVE  TurnsLeft'
  BY <1>1, TurnsUntouched
  DEF Serve, SendRequestAsync, ReplyToCaller, ModerateObject, Alive
<1>2. ASSUME NEW s \in Slots, Deliver(s) \/ AckLost(s) \/ Expire(s)
      PROVE  TurnsLeft'
  BY <1>2, TurnsUntouched DEF Deliver, AckLost, Expire, Alive
<1>3. ASSUME NEW m \in ForeignMessages, PublishForeign(m) PROVE TurnsLeft'
  BY <1>3, TurnsUntouched DEF PublishForeign, Alive
<1>4. CASE LoopHead \/ ConsumeNothing \/ SendResponse \/ AutoCommit
           \/ Signal \/ StopConsumer \/ UNCHANGED vars
  BY <1>4, TurnsUntouched
  DEF LoopHead, ConsumeNothing, SendResponse, AutoCommit, Signal, StopConsumer,
      vars, Alive
<1>5. CASE Consume
  <2>1. current = 0
    BY <1>5 DEF Consume, TypeInv, AtHand, Busy
  <2>2. SUFFICES ASSUME NEW n \in Offsets
                 PROVE  (saved[n] + AtWork(n) + Ahead(n))' <= sessions'
    BY <1>5 DEF TurnsLeft, Consume
  <2>3. saved[n] + AtWork(n) + Ahead(n) <= sessions
    BY DEF TurnsLeft
  <2>4. mode # "down"
    BY <1>5 DEF Consume, TypeInv, AtHand
  <2> QED
    BY <2>1, <2>3, <2>4, <1>0, <1>5 DEF Consume, AtWork, Ahead, Alive
<1>6. CASE ProcessMessage
  <2>1. saved' = saved /\ position' = position /\ mode' = mode
        /\ sessions' = sessions /\ current' \in {0, current}
    BY <1>6 DEF ProcessMessage, Finish
  <2> QED
    BY <2>1, <1>0 DEF TurnsLeft, AtWork, Ahead, Alive
<1>7. CASE HandleModerationResult
  <2>0. current \in DOMAIN requests
    BY <1>7, WorkingType DEF HandleModerationResult, Busy
  <2>1. /\ current \in Offsets
        /\ current' = 0 /\ position' = position /\ mode' = mode
        /\ sessions' = sessions
    BY <2>0, <1>7, FlowAssumption
    DEF HandleModerationResult, Finish, TypeInv, TypeOK, Offsets
  <2>2. saved' = saved \/ saved' = [saved EXCEPT ![current] = @ + 1]
    BY <1>7 DEF HandleModerationResult, SaveModerationResult, Insert
  <2> QED
    BY <2>1, <2>2, <1>0 DEF TurnsLeft, AtWork, Ahead, Alive
<1>8. CASE Rejoin \/ Restart
  <2>1. /\ saved' = saved /\ current' = current /\ position' = committed
        /\ sessions' = sessions + 1
    BY <1>8 DEF Rejoin, Restart
  <2> QED
    BY <2>1, <1>0 DEF TurnsLeft, AtWork, Ahead, Alive
<1>9. CASE Shutdown \/ Crash
  <2>1. /\ saved' = saved /\ current' = 0 /\ mode' = "down"
        /\ sessions' = sessions
    BY <1>9 DEF Shutdown, Crash, LoseMemory
  <2> QED
    BY <2>1, <1>0 DEF TurnsLeft, AtWork, Ahead, Alive
<1> QED
  BY <1>1, <1>2, <1>3, <1>4, <1>5, <1>6, <1>7, <1>8, <1>9 DEF Next, Ended

\* However often the process is killed, stopped, restarted or loses its
\* assignment, and however the database fails, a message is never recorded more
\* often than the topic was assigned to this consumer.
THEOREM RowsBounded == Spec => []RowsBoundedBySessions
<1>1. Init => TurnsInv
  BY InitTypeInv, InitTurns DEF TurnsInv
<1>2. TurnsInv /\ [Next]_vars => TurnsInv'
  BY NextTypeInv, NextTurns DEF TurnsInv
<1>3. TurnsInv => RowsBoundedBySessions
  BY DEF TurnsInv, TypeInv, TypeOK, TurnsLeft, AtWork, Ahead, RowsBoundedBySessions
<1> QED
  BY <1>1, <1>2, <1>3, PTL DEF Spec

-----------------------------------------------------------------------------
(***************************************************************************)
(* How many messages are forgotten.                                        *)
(*                                                                         *)
(* The bound holds of everything below the position, whatever part of it   *)
(* auto-commit has told the coordinator: only a crash leaves a message     *)
(* that was at hand without finishing it.                                  *)
(***************************************************************************)

LossInv == TypeInv /\ Cardinality(Forgotten(position)) <= crashes

LEMMA ForgottenFinite ==
  ASSUME TypeInv, NEW limit
  PROVE  IsFiniteSet(Forgotten(limit)) /\ Cardinality(Forgotten(limit)) \in Nat
<1>1. Len(requests) \in Nat /\ DOMAIN requests = 1..Len(requests)
  BY DEF TypeInv, TypeOK
<1>2. IsFiniteSet(DOMAIN requests)
  BY <1>1, FS_Interval
<1>3. IsFiniteSet(Forgotten(limit))
  BY <1>2, FS_Subset DEF Forgotten
<1> QED
  BY <1>3, FS_CardinalityType

\* Steps after which nothing else is forgotten.
LEMMA NothingForgotten ==
  ASSUME LossInv, crashes' = crashes, Forgotten(position)' \subseteq Forgotten(position)
  PROVE  Cardinality(Forgotten(position)') <= crashes'
<1>1. IsFiniteSet(Forgotten(position)) /\ Cardinality(Forgotten(position)) \in Nat
  BY ForgottenFinite DEF LossInv
<1>2. /\ Cardinality(Forgotten(position)') \in Nat
      /\ Cardinality(Forgotten(position)') <= Cardinality(Forgotten(position))
  BY <1>1, FS_Subset, FS_CardinalityType
<1>3. crashes \in Nat
  BY DEF LossInv, TypeInv, TypeOK
<1> QED
  BY <1>1, <1>2, <1>3 DEF LossInv

LEMMA NextLoss == LossInv /\ [Next]_vars => LossInv'
<1> SUFFICES ASSUME LossInv, [Next]_vars
             PROVE  Cardinality(Forgotten(position)') <= crashes'
  BY NextTypeInv DEF LossInv
<1> USE DEF process, grpc, producer, topics, consumer, database
<1>0. TypeInv
  BY DEF LossInv
<1>1. /\ position \in 1..(Len(requests) + 1)
      /\ committed \in 1..position
      /\ current \in 0..Len(requests)
      /\ requests \in Seq(Message)
      /\ crashes \in Nat
  BY <1>0 DEF TypeInv, TypeOK
<1>2. ASSUME UNCHANGED <<position, current, handled, crashes>>,
             \A n \in DOMAIN requests' : n < position => n \in DOMAIN requests
      PROVE  Cardinality(Forgotten(position)') <= crashes'
  <2>1. Forgotten(position)' \subseteq Forgotten(position)
    BY <1>2 DEF Forgotten
  <2> QED
    BY <2>1, <1>2, NothingForgotten
<1>3. ASSUME NEW e \in Entry, Appended(e),
             UNCHANGED <<position, current, handled, crashes>>
      PROVE  Cardinality(Forgotten(position)') <= crashes'
  <2>1. requests' = requests \/ \E m : requests' = Append(requests, m)
    BY <1>3 DEF Appended, Entry
  <2>2. \A n \in DOMAIN requests' : n < position => n \in DOMAIN requests
    BY <2>1, <1>1
  <2> QED
    BY <2>2, <1>2, <1>3
<1>4. ASSUME NEW h \in Handlers,
             Serve(h) \/ \E r \in GrpcRequests : ModerateObject(h, r)
      PROVE  Cardinality(Forgotten(position)') <= crashes'
  BY <1>2, <1>4 DEF Serve, SendRequestAsync, ReplyToCaller, ModerateObject
<1>5. ASSUME NEW s \in Slots, Deliver(s) \/ AckLost(s)
      PROVE  Cardinality(Forgotten(position)') <= crashes'
  <2>1. outbox[s] \in Entry
    BY <1>0, <1>5, QueuedType DEF Deliver, AckLost, TypeInv
  <2> QED
    BY <2>1, <1>3, <1>5 DEF Deliver, AckLost
<1>6. ASSUME NEW s \in Slots, Expire(s)
      PROVE  Cardinality(Forgotten(position)') <= crashes'
  BY <1>2, <1>6 DEF Expire
<1>7. ASSUME NEW m \in ForeignMessages, PublishForeign(m)
      PROVE  Cardinality(Forgotten(position)') <= crashes'
  <2>1. \A n \in DOMAIN requests' : n < position => n \in DOMAIN requests
    BY <1>1, <1>7 DEF PublishForeign
  <2> QED
    BY <2>1, <1>2, <1>7 DEF PublishForeign
<1>8. CASE LoopHead \/ ConsumeNothing \/ SendResponse \/ AutoCommit
           \/ Signal \/ StopConsumer \/ UNCHANGED vars
  BY <1>2, <1>8
  DEF LoopHead, ConsumeNothing, SendResponse, AutoCommit, Signal, StopConsumer,
      vars
<1>9. CASE Consume
  <2>1. current = 0
    BY <1>0, <1>9 DEF Consume, TypeInv, AtHand, Busy
  <2>2. /\ position' = position + 1 /\ requests' = requests
        /\ crashes' = crashes /\ current' = position /\ handled' = handled
    BY <1>9 DEF Consume
  <2>3. Forgotten(position)' \subseteq Forgotten(position)
    BY <2>1, <2>2, <1>1 DEF Forgotten
  <2> QED
    BY <2>2, <2>3, NothingForgotten
<1>10. CASE ProcessMessage \/ HandleModerationResult
  <2>1. /\ position' = position /\ requests' = requests /\ crashes' = crashes
        /\ \/ current' = current /\ handled' = handled
           \/ current' = 0 /\ handled' = handled \cup {current}
    BY <1>10 DEF ProcessMessage, HandleModerationResult, Finish
  <2>2. Forgotten(position)' \subseteq Forgotten(position)
    BY <2>1 DEF Forgotten
  <2> QED
    BY <2>1, <2>2, NothingForgotten
<1>11. CASE Rejoin \/ Restart
  <2>1. /\ position' = committed /\ requests' = requests /\ crashes' = crashes
        /\ current' = current /\ handled' = handled
    BY <1>11 DEF Rejoin, Restart
  <2>2. Forgotten(position)' \subseteq Forgotten(position)
    BY <2>1, <1>1 DEF Forgotten
  <2> QED
    BY <2>1, <2>2, NothingForgotten
<1>12. CASE Shutdown
  <2>1. current = 0
    BY <1>0, <1>12 DEF Shutdown, TypeInv, AtHand, Busy
  <2>2. /\ position' = position /\ requests' = requests /\ crashes' = crashes
        /\ current' = 0 /\ handled' = handled
    BY <1>12 DEF Shutdown, LoseMemory
  <2>3. Forgotten(position)' \subseteq Forgotten(position)
    BY <2>1, <2>2 DEF Forgotten
  <2> QED
    BY <2>2, <2>3, NothingForgotten
<1>13. CASE Crash
  <2>1. /\ position' = position /\ requests' = requests /\ crashes' = crashes + 1
        /\ current' = 0 /\ handled' = handled
    BY <1>13 DEF Crash, LoseMemory
  <2>2. Forgotten(position)' \subseteq Forgotten(position) \cup {current}
    BY <2>1 DEF Forgotten
  <2>3. /\ IsFiniteSet(Forgotten(position))
        /\ Cardinality(Forgotten(position)) \in Nat
    BY <1>0, ForgottenFinite
  <2>4. /\ IsFiniteSet(Forgotten(position) \cup {current})
        /\ Cardinality(Forgotten(position) \cup {current})
             <= Cardinality(Forgotten(position)) + 1
    BY <2>3, FS_AddElement
  <2>5. /\ Cardinality(Forgotten(position)')
             <= Cardinality(Forgotten(position) \cup {current})
        /\ Cardinality(Forgotten(position)') \in Nat
        /\ Cardinality(Forgotten(position) \cup {current}) \in Nat
    BY <2>2, <2>4, FS_Subset, FS_CardinalityType
  <2> QED
    BY <2>1, <2>3, <2>4, <2>5, <1>1 DEF LossInv
<1> QED
  BY <1>4, <1>5, <1>6, <1>7, <1>8, <1>9, <1>10, <1>11, <1>12, <1>13
  DEF Next, Ended

\* The offset is stored before the message is processed, yet at most one message
\* is forgotten per crash: stops in order, restarts and rebalances forget none.
THEOREM LossBounded == Spec => []LossBoundedByCrashes
<1>1. Init => LossInv
  <2> SUFFICES ASSUME Init PROVE LossInv
    OBVIOUS
  <2>1. Forgotten(position) = {}
    BY DEF Init, Forgotten
  <2>2. Cardinality(Forgotten(position)) = 0
    BY <2>1, FS_EmptySet
  <2>3. crashes = 0
    BY DEF Init
  <2> QED
    BY <2>2, <2>3, InitTypeInv DEF LossInv
<1>2. LossInv /\ [Next]_vars => LossInv'
  BY NextLoss
<1>3. LossInv => LossBoundedByCrashes
  <2> SUFFICES ASSUME LossInv PROVE LossBoundedByCrashes
    OBVIOUS
  <2>1. Forgotten(committed) \subseteq Forgotten(position)
    BY DEF LossInv, TypeInv, TypeOK, Forgotten
  <2>2. /\ IsFiniteSet(Forgotten(position))
        /\ Cardinality(Forgotten(position)) \in Nat
        /\ Cardinality(Forgotten(committed)) \in Nat
    BY ForgottenFinite DEF LossInv
  <2>3. Cardinality(Forgotten(committed)) <= Cardinality(Forgotten(position))
    BY <2>1, <2>2, FS_Subset
  <2> QED
    BY <2>2, <2>3 DEF LossInv, LossBoundedByCrashes, TypeInv, TypeOK
<1> QED
  BY <1>1, <1>2, <1>3, PTL DEF Spec
=============================================================================
