----------------------- MODULE ModerationFlow_promises -----------------------
(***************************************************************************)
(* What the message path promises as a whole: it implements                *)
(* ModerationPromise, with the request topic for what is asked, the result *)
(* topic for the answers, the table for the rows and the assignments of    *)
(* the topic for the turns; and nothing it accepted or handled disappears  *)
(* silently.                                                               *)
(***************************************************************************)
EXTENDS ModerationFlow_proofs

\* Every answer that waits in the queue was given to a message of the topic.
AnswersJustified ==
  \A s \in Slots :
    (outbox[s] \in Entry /\ outbox[s].topic = "result")
      => \E n \in DOMAIN requests :
           Acceptable(requests[n]) /\ outbox[s].body = Response(requests[n])

RefinementInv == TurnsInv /\ AnswersJustified

\* Serving reports and taking a place changes a place in one of two ways.
LEMMA ProduceEffect ==
  ASSUME TypeOK, NEW e, Produce(e), NEW t \in Slots
  PROVE  outbox'[t] \in {outbox[t], None, e}
<1>1. PICK s \in Slots : outbox' = Poll([outbox EXCEPT ![s] = e])
  BY DEF Produce
<1>2. outbox \in [Slots -> Entry \cup {None, Reported}]
  BY DEF TypeOK
<1>3. [outbox EXCEPT ![s] = e][t] \in {outbox[t], e}
  BY <1>2
<1> QED
  BY <1>1, <1>3 DEF Poll

\* Steps that queue no answer and take no message from the topic.
LEMMA JustifiedKept ==
  ASSUME AnswersJustified,
         \A t \in Slots : \/ outbox'[t] = outbox[t]
                          \/ outbox'[t] \notin Entry
                          \/ outbox'[t].topic # "result",
         \A n \in DOMAIN requests : n \in DOMAIN requests'
                                      /\ requests'[n] = requests[n]
  PROVE  AnswersJustified'
<1> SUFFICES ASSUME NEW t \in Slots, outbox'[t] \in Entry,
                    outbox'[t].topic = "result"
             PROVE  \E n \in DOMAIN requests' :
                      /\ Acceptable(requests'[n])
                      /\ outbox'[t].body = Response(requests'[n])
  BY DEF AnswersJustified, Acceptable, KeyAccepted, TypeAccepted, Response,
         RequestId, IsFlagged
<1>1. outbox[t] \in Entry /\ outbox[t].topic = "result" /\ outbox'[t] = outbox[t]
  OBVIOUS
<1>2. PICK n \in DOMAIN requests :
        Acceptable(requests[n]) /\ outbox[t].body = Response(requests[n])
  BY <1>1 DEF AnswersJustified
<1> QED
  BY <1>1, <1>2

LEMMA NextJustified == TypeInv /\ AnswersJustified /\ [Next]_vars => AnswersJustified'
<1> SUFFICES ASSUME TypeInv, AnswersJustified, [Next]_vars
             PROVE  AnswersJustified'
  OBVIOUS
<1> USE DEF process, grpc, producer, topics, consumer, database
<1>0. TypeOK /\ AtHand /\ outbox \in [Slots -> Entry \cup {None, Reported}]
  BY DEF TypeInv, TypeOK
<1>1. ASSUME UNCHANGED requests,
             \A t \in Slots : outbox'[t] = outbox[t] \/ outbox'[t] \notin Entry
      PROVE  AnswersJustified'
  BY <1>1, JustifiedKept
<1>2. ASSUME NEW h \in Handlers, SendRequestAsync(h) PROVE AnswersJustified'
  <2> DEFINE e == ToRequestTopic(KafkaRequest(call[h].req))
  <2>1. e.topic # "result"
    BY DEF ToRequestTopic
  <2>2. CASE Produce(e)
    <3>1. \A t \in Slots : outbox'[t] \in {outbox[t], None, e}
      BY <2>2, <1>0, ProduceEffect
    <3> HIDE DEF e
    <3>2. \A t \in Slots : \/ outbox'[t] = outbox[t]
                           \/ outbox'[t] \notin Entry
                           \/ outbox'[t].topic # "result"
      BY <3>1, <2>1, FlowAssumption
    <3>3. UNCHANGED requests
      BY <1>2 DEF SendRequestAsync
    <3> QED
      BY <3>2, <3>3, JustifiedKept
  <2>3. CASE ~Produce(e)
    BY <2>3, <1>1, <1>2 DEF SendRequestAsync, ProduceFails
  <2> QED
    BY <2>2, <2>3
<1>3. ASSUME NEW h \in Handlers,
             ReplyToCaller(h) \/ \E r \in GrpcRequests : ModerateObject(h, r)
      PROVE  AnswersJustified'
  BY <1>1, <1>3 DEF ReplyToCaller, ModerateObject
<1>4. ASSUME NEW s \in Slots, Deliver(s) \/ AckLost(s) PROVE AnswersJustified'
  <2>1. outbox[s] \in Entry /\ Appended(outbox[s])
    BY <1>0, <1>4, QueuedType DEF Deliver, AckLost
  <2>2. \A n \in DOMAIN requests : n \in DOMAIN requests'
                                     /\ requests'[n] = requests[n]
    BY <2>1, AppendedType
  <2>3. \A t \in Slots : outbox'[t] = outbox[t] \/ outbox'[t] \notin Entry
    BY <1>0, <1>4, FlowAssumption DEF Deliver, AckLost
  <2> QED
    BY <2>2, <2>3, JustifiedKept
<1>5. ASSUME NEW s \in Slots, Expire(s) PROVE AnswersJustified'
  <2>1. \A t \in Slots : outbox'[t] = outbox[t] \/ outbox'[t] \notin Entry
    BY <1>0, <1>5, FlowAssumption DEF Expire
  <2> QED
    BY <2>1, <1>1, <1>5 DEF Expire
<1>6. ASSUME NEW m \in ForeignMessages, PublishForeign(m) PROVE AnswersJustified'
  <2>1. requests \in Seq(Message) /\ requests' = Append(requests, m)
    BY <1>6 DEF PublishForeign, TypeInv, TypeOK
  <2>2. \A n \in DOMAIN requests : n \in DOMAIN requests'
                                     /\ requests'[n] = requests[n]
    BY <2>1
  <2> QED
    BY <2>2, <1>6, JustifiedKept DEF PublishForeign
<1>7. CASE SendResponse
  <2> DEFINE e == ToResultTopic(Response(Working))
  <2>1. current \in DOMAIN requests /\ Acceptable(requests[current])
    BY <1>0, <1>7, WorkingType DEF SendResponse, Busy, AtHand, Working
  <2>2. UNCHANGED requests
    BY <1>7 DEF SendResponse
  <2>3. CASE Produce(e)
    <3> SUFFICES ASSUME NEW t \in Slots, outbox'[t] \in Entry,
                        outbox'[t].topic = "result"
                 PROVE  \E n \in DOMAIN requests :
                          /\ Acceptable(requests[n])
                          /\ outbox'[t].body = Response(requests[n])
      BY <2>2 DEF AnswersJustified
    <3>1. outbox'[t] \in {outbox[t], e}
      BY <2>3, <1>0, ProduceEffect, FlowAssumption
    <3>2. e.body = Response(requests[current])
      BY DEF ToResultTopic, Working
    <3> HIDE DEF e
    <3> QED
      BY <3>1, <3>2, <2>1 DEF AnswersJustified
  <2>4. CASE ~Produce(e)
    BY <2>4, <1>1, <1>7 DEF SendResponse, ProduceFails
  <2> QED
    BY <2>3, <2>4
<1>8. CASE Shutdown \/ Crash
  BY <1>1, <1>8, FlowAssumption DEF Shutdown, Crash, LoseMemory
<1>9. CASE LoopHead \/ Consume \/ ConsumeNothing \/ ProcessMessage
           \/ HandleModerationResult \/ AutoCommit \/ Rejoin \/ Signal
           \/ StopConsumer \/ Restart \/ UNCHANGED vars
  BY <1>1, <1>9
  DEF LoopHead, Consume, ConsumeNothing, ProcessMessage, HandleModerationResult,
      AutoCommit, Rejoin, Signal, StopConsumer, Restart, vars
<1> QED
  BY <1>2, <1>3, <1>4, <1>5, <1>6, <1>7, <1>8, <1>9 DEF Next, Serve, Ended

-----------------------------------------------------------------------------
\* The promise speaks of the same messages, answers and rows.
LEMMA SameVocabulary ==
  /\ Promise!Message = Message
  /\ \A m : /\ Promise!Acceptable(m) <=> Acceptable(m)
            /\ Promise!IsFlagged(m) <=> IsFlagged(m)
            /\ Promise!Response(m) = Response(m)
            /\ Promise!ModerationRecord(m) = ModerationRecord(m)
<1>1. Promise!Message = Message
  BY DEF Promise!Message, Promise!WireTypes, Promise!ObjectTypes,
         Promise!Unspecified, Message, WireTypes, ObjectTypes, Unspecified
<1>2. ASSUME NEW m
      PROVE  /\ Promise!Acceptable(m) <=> Acceptable(m)
             /\ Promise!IsFlagged(m) <=> IsFlagged(m)
             /\ Promise!RequestId(m) = RequestId(m)
  BY DEF Promise!Acceptable, Promise!KeyAccepted, Promise!TypeAccepted,
         Promise!ObjectTypes, Promise!Unspecified, Promise!IsFlagged,
         Promise!RequestId, Acceptable, KeyAccepted, TypeAccepted, ObjectTypes,
         Unspecified, IsFlagged, RequestId
<1>3. ASSUME NEW m
      PROVE  /\ Promise!Response(m) = Response(m)
             /\ Promise!ModerationRecord(m) = ModerationRecord(m)
  BY DEF Promise!Response, Promise!ModerationRecord, Promise!RequestId,
         Promise!IsFlagged, Response, ModerationRecord, RequestId, IsFlagged
<1> QED
  BY <1>1, <1>2, <1>3

\* Every step of the service is a step of the promise or leaves it alone.
LEMMA StepRefines ==
  RefinementInv /\ [Next]_vars => [Promise!Next]_(Promise!vars)
<1> SUFFICES ASSUME TypeInv, TurnsLeft, AnswersJustified, [Next]_vars
             PROVE  Promise!Next \/ UNCHANGED Promise!vars
  BY DEF RefinementInv, TurnsInv
<1> USE DEF process, grpc, producer, topics, consumer, database
<1>0. TypeOK /\ AtHand
  BY DEF TypeInv
<1>1. ASSUME UNCHANGED <<requests, results, table, saved, sessions>>
      PROVE  UNCHANGED Promise!vars
  BY <1>1 DEF Promise!vars
<1>2. ASSUME NEW h \in Handlers,
             Serve(h) \/ \E r \in GrpcRequests : ModerateObject(h, r)
      PROVE  UNCHANGED Promise!vars
  BY <1>1, <1>2 DEF Serve, SendRequestAsync, ReplyToCaller, ModerateObject
<1>3. ASSUME NEW s \in Slots, Deliver(s) \/ AckLost(s) PROVE Promise!Next
  <2>1. /\ outbox[s] \in Entry
        /\ Appended(outbox[s])
        /\ UNCHANGED <<table, saved, sessions>>
    BY <1>0, <1>3, QueuedType DEF Deliver, AckLost
  <2>2. CASE outbox[s].topic = "request"
    <3>1. outbox[s].body \in Message
      BY <2>1, <2>2 DEF Entry
    <3>2. Promise!Ask(outbox[s].body)
      BY <2>1, <2>2 DEF Appended, Promise!Ask
    <3> QED
      BY <3>1, <3>2, SameVocabulary DEF Promise!Next
  <2>3. CASE outbox[s].topic = "result"
    <3>1. PICK n \in DOMAIN requests :
            Acceptable(requests[n]) /\ outbox[s].body = Response(requests[n])
      BY <2>1, <2>3 DEF AnswersJustified
    <3>2. Promise!Reply(n)
      BY <2>1, <2>3, <3>1, SameVocabulary DEF Appended, Promise!Reply
    <3> QED
      BY <3>2 DEF Promise!Next
  <2> QED
    BY <2>1, <2>2, <2>3 DEF Entry
<1>4. ASSUME NEW s \in Slots, Expire(s) PROVE UNCHANGED Promise!vars
  BY <1>1, <1>4 DEF Expire
<1>5. ASSUME NEW m \in ForeignMessages, PublishForeign(m) PROVE Promise!Next
  <2>1. m \in Message
    BY FlowAssumption
  <2>2. Len(requests) < MaxRequests
    <3>1. Len(requests) \in Nat
      BY <1>0 DEF TypeOK
    <3> QED
      BY <3>1, <1>0, <1>5, DemandBoundsTopic, FlowAssumption DEF PublishForeign
  <2>3. Promise!Ask(m)
    BY <2>2, <1>5 DEF PublishForeign, Promise!Ask
  <2> QED
    BY <2>1, <2>3, SameVocabulary DEF Promise!Next
<1>6. CASE HandleModerationResult
  <2>1. current \in DOMAIN requests /\ Acceptable(requests[current])
    BY <1>0, <1>6, WorkingType
    DEF HandleModerationResult, Busy, AtHand, Working
  <2>2. UNCHANGED <<requests, results, sessions>>
    BY <1>6 DEF HandleModerationResult
  <2>3. CASE UNCHANGED <<table, saved>>
    BY <2>2, <2>3, <1>1
  <2>4. CASE IsFlagged(Working) /\ Insert(ModerationRecord(Working))
    <3>1. saved[current] < sessions
      <4>1. current \in Offsets /\ current # 0
        BY <2>1, <1>0, FlowAssumption DEF TypeOK, Offsets
      <4>2. saved[current] + AtWork(current) + Ahead(current) <= sessions
        BY <4>1 DEF TurnsLeft
      <4>3. saved[current] \in Nat /\ sessions \in Nat
        BY <4>1, <1>0 DEF TypeOK
      <4> QED
        BY <4>2, <4>3 DEF AtWork, Ahead
    <3>2. Promise!Record(current)
      BY <2>1, <2>2, <2>4, <3>1, SameVocabulary DEF Insert, Working, Promise!Record
    <3> QED
      BY <2>1, <3>2 DEF Promise!Next
  <2> QED
    BY <2>3, <2>4, <1>6 DEF HandleModerationResult, SaveModerationResult
<1>7. CASE Rejoin \/ Restart
  <2>1. Promise!NewTurn
    BY <1>7 DEF Rejoin, Restart, Promise!NewTurn
  <2> QED
    BY <2>1 DEF Promise!Next
<1>8. CASE LoopHead \/ Consume \/ ConsumeNothing \/ ProcessMessage
           \/ SendResponse \/ AutoCommit \/ Signal \/ StopConsumer
           \/ UNCHANGED vars
  BY <1>1, <1>8
  DEF LoopHead, Consume, ConsumeNothing, ProcessMessage, SendResponse,
      AutoCommit, Signal, StopConsumer, vars
<1>9. CASE Shutdown \/ Crash
  BY <1>1, <1>9 DEF Shutdown, Crash, LoseMemory
<1> QED
  BY <1>2, <1>3, <1>4, <1>5, <1>6, <1>7, <1>8, <1>9 DEF Next, Ended

\* The service keeps its promise: only well-formed messages of the request topic
\* are answered and recorded, always with their own verdict, under their own key
\* and at most once per assignment, whatever crashes, duplicates or is lost.
THEOREM PromiseKept == Spec => ImplementsPromise
<1>1. Init => RefinementInv
  BY InitTypeInv, InitTurns, FlowAssumption
  DEF Init, RefinementInv, TurnsInv, AnswersJustified
<1>2. RefinementInv /\ [Next]_vars => RefinementInv'
  BY NextTypeInv, NextTurns, NextJustified DEF RefinementInv, TurnsInv
<1>3. Init => Promise!Init
  BY DEF Init, Promise!Init, Promise!Places, Offsets
<1>4. RefinementInv /\ [Next]_vars => [Promise!Next]_(Promise!vars)
  BY StepRefines
<1> QED
  BY <1>1, <1>2, <1>3, <1>4, PTL DEF Spec, ImplementsPromise, Promise!Spec

-----------------------------------------------------------------------------
(***************************************************************************)
(* ModerationFlow implements ProcessModes.                                 *)
(***************************************************************************)

Quiet == mode \in {"stopping", "down"} => \A h \in Handlers : ~Calling(h)

ModesInv == TypeInv /\ Quiet

CallsNow == {h \in Handlers : Calling(h)}

LEMMA ModeStep ==
  ModesInv /\ [Next]_vars => [PM!Next]_<<mode, CallsNow>> /\ Quiet'
<1> SUFFICES ASSUME ModesInv, [Next]_vars
             PROVE  [PM!Next]_<<mode, CallsNow>> /\ Quiet'
  OBVIOUS
<1>0. TypeOK /\ Quiet
  BY DEF ModesInv, TypeInv
<1>a. call \in [Handlers -> Call \cup {None}] /\ None \notin Call
  BY <1>0, FlowAssumption, MessagesAssumption DEF TypeOK, Call
<1> USE DEF CallsNow, Calling, Quiet
<1>1. ASSUME NEW h \in Handlers, NEW r \in GrpcRequests, ModerateObject(h, r)
      PROVE  [PM!Next]_<<mode, CallsNow>> /\ Quiet'
  <2>1. mode = "up" /\ UNCHANGED mode /\ h \notin CallsNow
    BY <1>1 DEF ModerateObject, process
  <2>2. call'[h] \in Call
    BY <1>1, <1>a DEF ModerateObject, Call
  <2>3. CallsNow' = CallsNow \cup {h}
    BY <1>1, <1>a, <2>2 DEF ModerateObject
  <2> QED
    BY <2>1, <2>3 DEF PM!Next, PM!Begin
<1>2. ASSUME NEW h \in Handlers, SendRequestAsync(h)
      PROVE  [PM!Next]_<<mode, CallsNow>> /\ Quiet'
  <2>1. UNCHANGED mode /\ call[h] \in Call /\ call'[h] # None
    BY <1>2, <1>a DEF SendRequestAsync, process, Call
  <2>2. CallsNow' = CallsNow
    BY <1>2, <1>a, <2>1 DEF SendRequestAsync
  <2> QED
    BY <1>0, <2>1, <2>2
<1>3. ASSUME NEW h \in Handlers, ReplyToCaller(h)
      PROVE  [PM!Next]_<<mode, CallsNow>> /\ Quiet'
  <2>1. UNCHANGED mode /\ h \in CallsNow
    BY <1>3 DEF ReplyToCaller, process
  <2>2. CallsNow' = CallsNow \ {h}
    BY <1>3, <1>a DEF ReplyToCaller
  <2> QED
    BY <1>0, <2>1, <2>2 DEF PM!Next, PM!End
<1>4. CASE Signal
  BY <1>4 DEF Signal, grpc, PM!Next, PM!Close
<1>5. CASE StopConsumer
  BY <1>5 DEF StopConsumer, grpc, PM!Next, PM!StopConsumer
<1>6. CASE Shutdown \/ Crash
  <2>1. mode' = "down" /\ CallsNow' = {}
    BY <1>6 DEF Shutdown, Crash, LoseMemory
  <2>2. mode # "down"
    BY <1>6 DEF Shutdown, Crash, Alive
  <2> QED
    BY <2>1, <2>2 DEF PM!Next, PM!Kill
<1>7. CASE Restart
  BY <1>0, <1>7 DEF Restart, grpc, PM!Next, PM!Again
<1>8. CASE UNCHANGED <<mode, call>>
  BY <1>0, <1>8
<1>9. CASE \E s \in Slots : Deliver(s) \/ AckLost(s) \/ Expire(s)
  BY <1>8, <1>9 DEF Deliver, AckLost, Expire, process, grpc
<1>10. CASE \E m \in ForeignMessages : PublishForeign(m)
  BY <1>8, <1>10 DEF PublishForeign, process, grpc
<1>11. CASE LoopHead \/ Consume \/ ConsumeNothing \/ ProcessMessage
            \/ SendResponse \/ HandleModerationResult \/ AutoCommit \/ Rejoin
            \/ UNCHANGED vars
  BY <1>8, <1>11
  DEF LoopHead, Consume, ConsumeNothing, ProcessMessage, SendResponse,
      HandleModerationResult, AutoCommit, Rejoin, process, grpc, vars
<1> QED
  BY <1>1, <1>2, <1>3, <1>4, <1>5, <1>6, <1>7, <1>9, <1>10, <1>11
  DEF Next, Serve, Ended

\* However often the process is stopped, killed and started again, its RPCs and
\* its consumer keep to the order that ProcessModes states.
THEOREM FlowKeepsModes == Spec => ImplementsModes
<1>1. Init => ModesInv /\ PM!Init
  BY InitTypeInv DEF Init, ModesInv, Quiet, Calling, PM!Init
<1>2. ModesInv /\ [Next]_vars => ModesInv'
  BY NextTypeInv, ModeStep DEF ModesInv
<1>3. ModesInv /\ [Next]_vars => [PM!Next]_(PM!vars)
  BY ModeStep DEF CallsNow, PM!vars
<1> QED
  BY <1>1, <1>2, <1>3, PTL DEF Spec, ImplementsModes, PM!Spec

-----------------------------------------------------------------------------
\* A stop in order, in any life, gives up nothing: no RPC is left that could
\* queue behind the flush, no message is at hand, and the queue is empty unless
\* the flush timed out.
THEOREM OrderlyStop == Spec => OrderlyStopLosesNothing
<1> DEFINE Loses ==
      (mode = "stopping" /\ mode' = "down" /\ crashes' = crashes)
        => /\ "flush" \notin Faults => lost' = lost
           /\ current = 0
           /\ \A h \in Handlers : call[h] = None
<1>1. Init => ModesInv
  BY InitTypeInv DEF Init, ModesInv, Quiet, Calling
<1>2. ModesInv /\ [Next]_vars => ModesInv'
  BY NextTypeInv, ModeStep DEF ModesInv
<1>3. ModesInv /\ [Next]_vars => [Loses]_vars
  <2> SUFFICES ASSUME ModesInv, [Next]_vars, mode = "stopping", mode' = "down",
                      crashes' = crashes
               PROVE  Loses
    OBVIOUS
  <2>1. crashes \in Nat /\ (Busy <=> current # 0)
    BY DEF ModesInv, TypeInv, TypeOK, AtHand
  <2>2. Shutdown
    BY <2>1
    DEF Next, Serve, Ended, ModerateObject, SendRequestAsync, ReplyToCaller,
        Deliver, AckLost, Expire, PublishForeign, LoopHead, Consume,
        ConsumeNothing, ProcessMessage, SendResponse, HandleModerationResult,
        AutoCommit, Rejoin, Signal, StopConsumer, Crash, Restart, vars, process
  <2> QED
    BY <2>1, <2>2 DEF Shutdown, LoseMemory, Busy, ModesInv, Quiet, Calling
<1> QED
  BY <1>1, <1>2, <1>3, PTL DEF Spec, OrderlyStopLosesNothing

-----------------------------------------------------------------------------
(***************************************************************************)
(* Nothing disappears silently: AcceptedAccounted and HandledAccounted for *)
(* every value of the constants.                                           *)
(*                                                                         *)
(* Whatever was once queued is from then on in the queue, on its topic or  *)
(* among what was given up.  The invariant adds the two moments at which   *)
(* an entry is queued and not yet counted: an RPC that is about to answer  *)
(* OK, and a consumer that has sent its answer and is about to save.       *)
(***************************************************************************)

Settled(e) ==
  \/ e.topic = "request" /\ e.body \in Published
  \/ e.topic = "result" /\ e.body \in results

Accounted(e) == Settled(e) \/ e \in Queued \cup lost

AcceptedEntry(r) == ToRequestTopic(KafkaRequest(r))
AnswerEntry(n) == ToResultTopic(Response(requests[n]))

OkCalls ==
  \A h \in Handlers :
    (Calling(h) /\ call[h].stage = "ok") => Accounted(AcceptedEntry(call[h].req))

Answered == pc = "save" => Accounted(AnswerEntry(current))

AccountsInv ==
  TypeInv /\ OkCalls /\ Answered /\ AcceptedAccounted /\ HandledAccounted

-----------------------------------------------------------------------------
(***************************************************************************)
(* What a step keeps.                                                      *)
(***************************************************************************)

LEMMA EntryTypes ==
  /\ \A r \in Request : AcceptedEntry(r) \in Entry
  /\ TypeOK => \A n \in DOMAIN requests :
                  Acceptable(requests[n]) => AnswerEntry(n) \in Entry
<1>1. \A r \in Request : AcceptedEntry(r) \in Entry
  BY KafkaRequestType DEF AcceptedEntry, ToRequestTopic, Entry
<1>2. ASSUME TypeOK, NEW n \in DOMAIN requests, Acceptable(requests[n])
      PROVE  AnswerEntry(n) \in Entry
  <2>1. requests[n] \in Message
    BY <1>2 DEF TypeOK
  <2> QED
    BY <1>2, <2>1, ResponseType DEF AnswerEntry, ToResultTopic, Entry
<1> QED
  BY <1>1, <1>2

\* produce() and poll() keep every entry of the queue and add the new one.
LEMMA ProduceQueues ==
  ASSUME TypeOK, NEW e \in Entry, Produce(e)
  PROVE  Queued \subseteq Queued' /\ e \in Queued'
<1>1. PICK s \in Slots :
        outbox[s] = None /\ outbox' = Poll([outbox EXCEPT ![s] = e])
  BY DEF Produce
<1>2. outbox \in [Slots -> Entry \cup {None, Reported}]
  BY DEF TypeOK
<1>3. None \notin Entry /\ Reported \notin Entry /\ Reported # None
  BY FlowAssumption
<1>4. outbox'[s] = e
  BY <1>1, <1>2, <1>3 DEF Poll
<1>5. \A t \in Slots : outbox[t] \notin {None, Reported} => outbox'[t] = outbox[t]
  BY <1>1, <1>2, <1>3 DEF Poll
<1> QED
  BY <1>3, <1>4, <1>5 DEF Queued

\* The topics only grow, and a message keeps its offset.
TopicsKept ==
  /\ results \subseteq results'
  /\ \A n \in DOMAIN requests : n \in DOMAIN requests' /\ requests'[n] = requests[n]

NothingDropped ==
  /\ TopicsKept
  /\ lost \subseteq lost'
  /\ \A e \in Queued : e \in Queued' \cup lost' \/ Settled(e)'

LEMMA AppendedSettles ==
  ASSUME TypeInv, NEW e \in Entry, Appended(e)
  PROVE  TopicsKept /\ Settled(e)'
<1>1. requests \in Seq(Message)
  BY DEF TypeInv, TypeOK
<1>2. CASE e.topic = "request"
  <2>1. requests' = Append(requests, e.body) /\ results' = results
    BY <1>2 DEF Appended
  <2>2. requests'[Len(requests) + 1] = e.body
         /\ Len(requests) + 1 \in DOMAIN requests'
    BY <1>1, <2>1
  <2> QED
    BY <1>1, <1>2, <2>1, <2>2 DEF TopicsKept, Settled, Published
<1>3. CASE e.topic = "result"
  BY <1>3 DEF Appended, TopicsKept, Settled
<1> QED
  BY <1>2, <1>3 DEF Appended

LEMMA NextDropsNothing == TypeInv /\ [Next]_vars => NothingDropped
<1> SUFFICES ASSUME TypeInv, [Next]_vars PROVE NothingDropped
  OBVIOUS
<1> USE DEF process, grpc, producer, topics, consumer, database
<1>0. TypeOK /\ AtHand /\ outbox \in [Slots -> Entry \cup {None, Reported}]
        /\ requests \in Seq(Message) /\ Queued \subseteq Entry
  BY QueuedType DEF TypeInv, TypeOK
<1>a. ASSUME UNCHANGED topics PROVE TopicsKept
  BY <1>a DEF TopicsKept
<1>1. CASE \E h \in Handlers, r \in GrpcRequests : ModerateObject(h, r)
  BY <1>1, <1>a DEF ModerateObject, NothingDropped, Queued
<1>2. ASSUME NEW h \in Handlers, SendRequestAsync(h) PROVE NothingDropped
  <2>1. AcceptedEntry(call[h].req) \in Entry
    BY <1>0, <1>2, EntryTypes, FlowAssumption
    DEF TypeOK, Call, SendRequestAsync, Calling
  <2>2. Queued \subseteq Queued'
    BY <1>0, <1>2, <2>1, ProduceQueues
    DEF SendRequestAsync, ProduceFails, AcceptedEntry, Queued
  <2> QED
    BY <1>2, <1>a, <2>2 DEF SendRequestAsync, NothingDropped
<1>3. CASE \E h \in Handlers : ReplyToCaller(h)
  BY <1>3, <1>a DEF ReplyToCaller, NothingDropped, Queued
<1>4. ASSUME NEW s \in Slots, Deliver(s) PROVE NothingDropped
  <2>0. PICK q \in Entry : q = outbox[s]
    BY <1>0, <1>4 DEF Deliver
  <2>1. TopicsKept /\ Settled(q)'
    BY <1>4, <2>0, AppendedSettles DEF Deliver
  <2>2. \A t \in Slots : t # s => outbox'[t] = outbox[t]
    BY <1>0, <1>4 DEF Deliver
  <2>3. \A e \in Queued : e \in Queued' \/ e = q
    BY <2>0, <2>2 DEF Queued
  <2> QED
    BY <1>4, <2>1, <2>3 DEF Deliver, NothingDropped
<1>5. ASSUME NEW s \in Slots, AckLost(s) PROVE NothingDropped
  <2>1. TopicsKept
    BY <1>0, <1>5, AppendedSettles DEF AckLost
  <2> QED
    BY <1>5, <2>1 DEF AckLost, NothingDropped, Queued
<1>6. ASSUME NEW s \in Slots, Expire(s) PROVE NothingDropped
  <2>2. \A t \in Slots : t # s => outbox'[t] = outbox[t]
    BY <1>0, <1>6 DEF Expire
  <2>3. \A e \in Queued : e \in Queued' \/ e = outbox[s]
    BY <2>2 DEF Queued
  <2> QED
    BY <1>6, <1>a, <2>3 DEF Expire, NothingDropped
<1>7. ASSUME NEW m \in ForeignMessages, PublishForeign(m) PROVE NothingDropped
  <2>1. requests' = Append(requests, m) /\ results' = results
    BY <1>7 DEF PublishForeign
  <2>2. TopicsKept
    BY <1>0, <2>1 DEF TopicsKept
  <2> QED
    BY <1>7, <2>2 DEF PublishForeign, NothingDropped, Queued
<1>8. CASE ProcessMessage
  BY <1>8, <1>a DEF ProcessMessage, NothingDropped, Queued
<1>9. CASE SendResponse
  <2>1. AnswerEntry(current) \in Entry
    BY <1>0, <1>9, EntryTypes, WorkingType DEF SendResponse, AtHand, Busy, Working
  <2>2. Queued \subseteq Queued'
    BY <1>0, <1>9, <2>1, ProduceQueues
    DEF SendResponse, ProduceFails, AnswerEntry, Working, Queued
  <2> QED
    BY <1>9, <1>a, <2>2 DEF SendResponse, NothingDropped
<1>10. CASE HandleModerationResult
  BY <1>10, <1>a DEF HandleModerationResult, SaveModerationResult, NothingDropped,
     Queued
<1>11. CASE LoopHead \/ Consume \/ ConsumeNothing \/ AutoCommit \/ Rejoin
            \/ Signal \/ StopConsumer \/ Restart \/ UNCHANGED vars
  BY <1>11, <1>a
  DEF LoopHead, Consume, ConsumeNothing, AutoCommit, Rejoin, Signal,
      StopConsumer, Restart, vars, NothingDropped, Queued
<1>12. CASE Shutdown \/ Crash
  BY <1>12, <1>a DEF Shutdown, Crash, LoseMemory, NothingDropped
<1> QED
  BY <1>1, <1>2, <1>3, <1>4, <1>5, <1>6, <1>7, <1>8, <1>9, <1>10, <1>11, <1>12
  DEF Next, Serve, Ended

\* Hence an entry that is accounted for stays accounted for.
LEMMA AccountKept ==
  ASSUME NothingDropped, NEW e, Accounted(e)
  PROVE  Accounted(e)'
<1>1. Published \subseteq Published'
  BY DEF NothingDropped, TopicsKept, Published
<1> QED
  BY <1>1 DEF NothingDropped, TopicsKept, Accounted, Settled

-----------------------------------------------------------------------------
(***************************************************************************)
(* What a step adds.                                                       *)
(***************************************************************************)

\* An RPC comes to answer OK only with its request in the queue.
LEMMA OkStep ==
  ASSUME TypeInv, [Next]_vars, NothingDropped, OkCalls
  PROVE  OkCalls'
<1> SUFFICES ASSUME NEW h \in Handlers, (Calling(h) /\ call[h].stage = "ok")'
             PROVE  Accounted(AcceptedEntry(call[h].req))'
  BY DEF OkCalls
<1> USE DEF Calling, process, grpc, producer, topics, consumer, database
<1>0. TypeOK /\ call \in [Handlers -> Call \cup {None}]
  BY DEF TypeInv, TypeOK
<1>1. PICK c : c = call'[h]
  OBVIOUS
<1> SUFFICES Accounted(AcceptedEntry(c.req))'
  BY <1>1
<1>2. ASSUME call'[h] = call[h]
      PROVE  Accounted(AcceptedEntry(c.req))'
  BY <1>1, <1>2, AccountKept DEF OkCalls, AcceptedEntry
<1>3. ASSUME NEW g \in Handlers, SendRequestAsync(g)
      PROVE  Accounted(AcceptedEntry(c.req))'
  <2>1. CASE g # h
    BY <1>0, <1>2, <1>3, <2>1 DEF SendRequestAsync
  <2>2. CASE g = h
    <3>1. call[h] \in Call
      BY <1>0, <1>3, <2>2 DEF SendRequestAsync
    <3>2. /\ Produce(AcceptedEntry(call[h].req))
          /\ c.req = call[h].req
          /\ c.req \in Request
      BY <1>0, <1>1, <1>3, <2>2, <3>1, FlowAssumption
      DEF SendRequestAsync, AcceptedEntry, Call
    <3>3. AcceptedEntry(c.req) \in Queued'
      BY <1>0, <3>2, EntryTypes, ProduceQueues
    <3> QED
      BY <3>3 DEF Accounted, AcceptedEntry
  <2> QED
    BY <2>1, <2>2
<1>4. ASSUME NEW g \in Handlers, ReplyToCaller(g)
      PROVE  Accounted(AcceptedEntry(c.req))'
  BY <1>0, <1>2, <1>4 DEF ReplyToCaller
<1>5. ASSUME NEW g \in Handlers, NEW r \in GrpcRequests, ModerateObject(g, r)
      PROVE  Accounted(AcceptedEntry(c.req))'
  BY <1>0, <1>2, <1>5 DEF ModerateObject
<1>6. CASE Shutdown \/ Crash
  BY <1>6 DEF Shutdown, Crash, LoseMemory
<1>7. CASE UNCHANGED call
  BY <1>2, <1>7
<1>8. CASE \E s \in Slots : Deliver(s) \/ AckLost(s) \/ Expire(s)
  BY <1>7, <1>8 DEF Deliver, AckLost, Expire
<1>9. CASE \E m \in ForeignMessages : PublishForeign(m)
  BY <1>7, <1>9 DEF PublishForeign
<1>10. CASE LoopHead \/ Consume \/ ConsumeNothing \/ ProcessMessage
            \/ SendResponse \/ HandleModerationResult \/ AutoCommit \/ Rejoin
            \/ Signal \/ StopConsumer \/ Restart \/ UNCHANGED vars
  BY <1>7, <1>10
  DEF LoopHead, Consume, ConsumeNothing, ProcessMessage, SendResponse,
      HandleModerationResult, AutoCommit, Rejoin, Signal, StopConsumer,
      Restart, vars
<1> QED
  BY <1>3, <1>4, <1>5, <1>6, <1>8, <1>9, <1>10 DEF Next, Serve, Ended

\* OK is answered by an RPC that has its request in the queue, or had.
LEMMA AcceptedStep ==
  ASSUME TypeInv, [Next]_vars, NothingDropped, OkCalls, AcceptedAccounted
  PROVE  AcceptedAccounted'
<1>0. accepted \subseteq Request
  BY FlowAssumption DEF TypeInv, TypeOK
<1>1. \A r : AcceptedEntry(r).topic = "request"
               /\ AcceptedEntry(r).body = KafkaRequest(r)
  BY DEF AcceptedEntry, ToRequestTopic
<1>2. \A r \in accepted : Accounted(AcceptedEntry(r))
  BY <1>1 DEF AcceptedAccounted, Accounted, Settled, AcceptedEntry
<1>3. ASSUME NEW r \in accepted'
      PROVE  Accounted(AcceptedEntry(r))
  <2>1. CASE r \in accepted
    BY <1>2, <2>1
  <2>2. CASE r \notin accepted
    <3>1. PICK h \in Handlers :
            Calling(h) /\ call[h].stage = "ok" /\ r = call[h].req
      BY <2>2
      DEF Next, Serve, Ended, ModerateObject, SendRequestAsync, ReplyToCaller,
          Deliver, AckLost, Expire, PublishForeign, LoopHead, Consume,
          ConsumeNothing, ProcessMessage, SendResponse, HandleModerationResult,
          AutoCommit, Rejoin, Signal, StopConsumer, Shutdown, Crash, LoseMemory,
          Restart, vars, process, grpc
    <3> QED
      BY <3>1 DEF OkCalls
  <2> QED
    BY <2>1, <2>2
<1>4. \A r \in accepted' : Accounted(AcceptedEntry(r))'
  BY <1>3, AccountKept DEF AcceptedEntry
<1> QED
  BY <1>1, <1>4 DEF AcceptedAccounted, Accounted, Settled, AcceptedEntry

\* The answer is in the queue, or refused and logged, before the row is saved.
LEMMA AnsweredStep ==
  ASSUME TypeInv, [Next]_vars, NothingDropped, Answered
  PROVE  Answered'
<1> SUFFICES ASSUME pc' = "save"
             PROVE  Accounted(AnswerEntry(current))'
  BY DEF Answered
<1> USE DEF process, grpc, producer, topics, consumer, database
<1>0. TypeOK /\ AtHand
  BY DEF TypeInv
<1>1. PICK e : e = AnswerEntry(current)
  OBVIOUS
<1>2. (Busy /\ UNCHANGED current) => e = AnswerEntry(current)'
  BY <1>0, <1>1, WorkingType
  DEF NothingDropped, TopicsKept, AnswerEntry, ToResultTopic, Response,
      RequestId, IsFlagged
<1>3. ASSUME pc = "save", UNCHANGED current
      PROVE  Accounted(AnswerEntry(current))'
  <2>1. Accounted(e)'
    BY <1>1, <1>3, AccountKept DEF Answered
  <2> QED
    BY <1>2, <1>3, <2>1 DEF Busy, Accounted, Settled
<1>4. CASE SendResponse
  <2>1. e \in Entry
    BY <1>0, <1>1, <1>4, EntryTypes, WorkingType
    DEF SendResponse, AtHand, Busy, Working
  <2>2. Accounted(e)'
    BY <1>0, <1>1, <1>4, <2>1, ProduceQueues
    DEF SendResponse, AnswerEntry, Working, Accounted
  <2> QED
    BY <1>2, <1>4, <2>2 DEF SendResponse, Busy, Accounted, Settled
<1>5. CASE UNCHANGED <<pc, current>>
  BY <1>3, <1>5
<1>6. CASE \/ \E h \in Handlers : Serve(h) \/ \E r \in GrpcRequests : ModerateObject(h, r)
           \/ \E s \in Slots : Deliver(s) \/ AckLost(s) \/ Expire(s)
           \/ \E m \in ForeignMessages : PublishForeign(m)
           \/ AutoCommit \/ Rejoin \/ Signal \/ StopConsumer \/ UNCHANGED vars
  BY <1>5, <1>6
  DEF Serve, ModerateObject, SendRequestAsync, ReplyToCaller, Deliver, AckLost,
      Expire, PublishForeign, AutoCommit, Rejoin, Signal, StopConsumer, vars
<1>7. CASE LoopHead \/ Consume \/ ConsumeNothing \/ ProcessMessage
           \/ HandleModerationResult \/ Shutdown \/ Crash \/ Restart
  BY <1>7
  DEF LoopHead, Consume, ConsumeNothing, ProcessMessage, Finish,
      HandleModerationResult, Shutdown, Crash, LoseMemory, Restart
<1> QED
  BY <1>4, <1>6, <1>7 DEF Next, Ended

\* Processing ends without a consequence only where one was refused or lost.
RowDone(n) ==
  IsFlagged(requests[n]) =>
    \/ ModerationRecord(requests[n]) \in table
    \/ ToTable(ModerationRecord(requests[n])) \in lost

Consequences(n) ==
  Acceptable(requests[n]) => Accounted(AnswerEntry(n)) /\ RowDone(n)

LEMMA HandledMeans == HandledAccounted <=> \A n \in handled : Consequences(n)
<1>1. \A n : AnswerEntry(n).topic = "result"
               /\ AnswerEntry(n).body = Response(requests[n])
  BY DEF AnswerEntry, ToResultTopic
<1> QED
  BY <1>1
  DEF HandledAccounted, Consequences, RowDone, Accounted, Settled, AnswerEntry

LEMMA TableKept == TypeInv /\ [Next]_vars => table \subseteq table'
  BY DEF Next, Serve, Ended, ModerateObject, SendRequestAsync, ReplyToCaller,
     Deliver, AckLost, Expire, PublishForeign, LoopHead, Consume, ConsumeNothing,
     ProcessMessage, SendResponse, HandleModerationResult, SaveModerationResult,
     Insert, AutoCommit, Rejoin, Signal, StopConsumer, Shutdown, Crash,
     LoseMemory, Restart, vars, database

LEMMA HandledStep ==
  ASSUME TypeInv, [Next]_vars, NothingDropped, Answered, HandledAccounted
  PROVE  HandledAccounted'
<1> USE DEF process, grpc, producer, topics, consumer, database
<1>0. TypeOK /\ AtHand
  BY DEF TypeInv
<1>a. HandledAccounted' <=> (\A n \in handled : Consequences(n))'
  BY HandledMeans, PTL
<1>1. SUFFICES ASSUME NEW n \in handled'
               PROVE  Consequences(n)'
  BY <1>a
<1>2. ASSUME n \in DOMAIN requests
      PROVE  /\ requests'[n] = requests[n]
             /\ AnswerEntry(n)' = AnswerEntry(n)
             /\ Acceptable(requests[n])' <=> Acceptable(requests[n])
  BY <1>2 DEF NothingDropped, TopicsKept, AnswerEntry
<1>3. ASSUME n \in DOMAIN requests, Consequences(n)
      PROVE  Consequences(n)'
  <2>1. ASSUME Acceptable(requests[n])
        PROVE  Accounted(AnswerEntry(n))'
    <3>1. PICK e : e = AnswerEntry(n)
      OBVIOUS
    <3>2. Accounted(e)'
      BY <1>3, <2>1, <3>1, AccountKept DEF Consequences
    <3> QED
      BY <1>2, <1>3, <3>1, <3>2 DEF Accounted, Settled
  <2>2. ASSUME Acceptable(requests[n])
        PROVE  RowDone(n)'
    BY <1>2, <1>3, <2>2, TableKept DEF Consequences, RowDone, NothingDropped
  <2> QED
    BY <1>2, <1>3, <2>1, <2>2 DEF Consequences
<1>4. CASE n \in handled
  BY <1>0, <1>3, <1>4, HandledMeans DEF TypeOK
<1>5. CASE n \notin handled
  <2>1. n = current /\ (ProcessMessage \/ HandleModerationResult)
    BY <1>5
    DEF Next, Serve, Ended, ModerateObject, SendRequestAsync, ReplyToCaller,
        Deliver, AckLost, Expire, PublishForeign, LoopHead, Consume,
        ConsumeNothing, ProcessMessage, Finish, SendResponse,
        HandleModerationResult, AutoCommit, Rejoin, Signal, StopConsumer,
        Shutdown, Crash, LoseMemory, Restart, vars
  <2>2. n \in DOMAIN requests /\ UNCHANGED requests
    BY <1>0, <2>1, WorkingType
    DEF ProcessMessage, HandleModerationResult, Busy
  <2>3. CASE ProcessMessage
    <3>1. CASE Acceptable(requests[n])
      <4>1. lost' = lost \cup Verdict(requests[n])
        BY <1>5, <2>1, <2>3, <3>1 DEF ProcessMessage, Working
      <4>2. AnswerEntry(n) \in lost'
        BY <4>1 DEF Verdict, AnswerEntry
      <4>3. Accounted(AnswerEntry(n))'
        BY <1>2, <2>2, <4>2 DEF Accounted
      <4>4. RowDone(n)'
        BY <2>2, <4>1 DEF RowDone, Verdict
      <4> QED
        BY <4>3, <4>4 DEF Consequences
    <3>2. CASE ~Acceptable(requests[n])
      BY <1>2, <2>2, <3>2 DEF Consequences
    <3> QED
      BY <3>1, <3>2
  <2>4. CASE HandleModerationResult
    <3>1. Accounted(AnswerEntry(n))
      BY <2>1, <2>4 DEF HandleModerationResult, Answered
    <3>2. PICK e : e = AnswerEntry(n)
      OBVIOUS
    <3>3. Accounted(e)'
      BY <3>1, <3>2, AccountKept
    <3>4. Accounted(AnswerEntry(n))'
      BY <1>2, <2>2, <3>2, <3>3 DEF Accounted, Settled
    <3>5. RowDone(n)'
      BY <2>1, <2>2, <2>4
      DEF HandleModerationResult, SaveModerationResult, Insert, Working, RowDone
    <3> QED
      BY <3>4, <3>5 DEF Consequences
  <2> QED
    BY <2>1, <2>3, <2>4
<1> QED
  BY <1>4, <1>5

LEMMA AccountsInvariant == Spec => []AccountsInv
<1>1. Init => AccountsInv
  BY InitTypeInv
  DEF Init, AccountsInv, OkCalls, Calling, Answered, AcceptedAccounted,
      HandledAccounted
<1>2. AccountsInv /\ [Next]_vars => AccountsInv'
  BY NextTypeInv, NextDropsNothing, OkStep, AnsweredStep, AcceptedStep,
     HandledStep
  DEF AccountsInv
<1> QED
  BY <1>1, <1>2, PTL DEF Spec

\* A caller that was answered OK has its request in the queue, on the topic or
\* among the deliveries given up, with any number of RPCs, places and lives.
THEOREM AcceptedAccountedFor == Spec => []AcceptedAccounted
<1>1. AccountsInv => AcceptedAccounted
  BY DEF AccountsInv
<1> QED
  BY <1>1, AccountsInvariant, PTL

\* A message that was processed to its end has its answer and, if flagged, its
\* row, or the one that is missing was given up.
THEOREM HandledAccountedFor == Spec => []HandledAccounted
<1>1. AccountsInv => HandledAccounted
  BY DEF AccountsInv
<1> QED
  BY <1>1, AccountsInvariant, PTL
=============================================================================
