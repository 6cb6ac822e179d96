--------------------------- MODULE ModerationFlow ---------------------------
(***************************************************************************)
(* The path of a moderation request through the service, and back:         *)
(*                                                                         *)
(*   gRPC handlers --> producer queue --> request topic                    *)
(*     --> consumer thread --> producer queue --> result topic             *)
(*                         \-> moderation_records                          *)
(*                                                                         *)
(* Actors: the gRPC handler threads, librdkafka's sender (which empties    *)
(* the producer's queue in the background), the consumer thread, other     *)
(* producers of the request topic, the Kafka group coordinator, and the    *)
(* process itself, which is stopped in order by a signal, killed, and      *)
(* started again.  The steps of one actor are separate actions exactly     *)
(* where another actor can observe or disturb it; KafkaProducer::mutex_    *)
(* makes one produce-and-poll a single step.                               *)
(*                                                                         *)
(* The request topic has one partition; an offset is a place in it.        *)
(***************************************************************************)
EXTENDS ModerationMessages, Sequences, FiniteSets

CONSTANTS
  Handlers,        \* gRPC handler threads
  Slots,           \* places of the producer's queue (queue.buffering.max.messages)
  Reported,        \* a place whose message is settled, its report unserved
  GrpcRequests,    \* requests the gRPC callers send
  ForeignMessages, \* messages other producers put on the request topic
  MaxRequests,     \* bound of the model on the request topic's length
  MaxSessions,     \* bound of the model on restarts and rebalances
  Faults           \* the faults this instance allows

AllFaults ==
  {"crash",   \* the process is killed
   "rejoin",  \* the consumer loses its assignment and gets it back
   "expire",  \* a queued message times out or is refused by the broker
   "ack",     \* an acknowledgement is lost and the message is sent again
   "produce", \* produce() fails though there is room
   "text",    \* text processing throws
   "db",      \* the database connection breaks
   "flush",   \* the flush at shutdown times out
   "commit"}  \* the offset commit at close fails

\* What the producer queues.
Entry == [topic : {"request"}, body : Message]
           \cup [topic : {"result"}, body : Answer]

ASSUME FlowAssumption ==
  /\ IsFiniteSet(Handlers)
  /\ IsFiniteSet(Slots)
  /\ GrpcRequests \subseteq Request
  /\ ForeignMessages \subseteq Message
  /\ MaxRequests \in Nat
  /\ MaxSessions \in Nat
  /\ Faults \subseteq AllFaults
  /\ Reported # None
  /\ None \notin Entry
  /\ Reported \notin Entry
  /\ None \notin [stage : {"sending", "ok", "error"}, req : GrpcRequests]

VARIABLES
  mode,      \* up, closing (RPCs drain), stopping (consumer joins), down
  sessions,  \* assignments of the request topic to this consumer so far
  crashes,   \* how often the process was killed
  call,      \* the RPC each handler thread is serving, or None
  accepted,  \* history: requests answered OK
  outbox,    \* the producer's queue
  lost,      \* history: entries given up, in the producer or at the database
  requests,  \* the request topic
  results,   \* the answers on the result topic
  pc,        \* where the consumer thread stands
  current,   \* offset of the message it is working on, 0 when there is none
  position,  \* offset consume() returns next; what auto-commit stores
  committed, \* offset the group coordinator holds
  handled,   \* history: offsets whose processing ran to its end
  table,     \* the rows of moderation_records
  saved,     \* history: rows written for each offset
  dbOpen     \* pqxx::connection::is_open()

process  == <<mode, sessions, crashes>>
grpc     == <<call, accepted>>
producer == <<outbox, lost>>
topics   == <<requests, results>>
consumer == <<pc, current, position, committed, handled>>
database == <<table, saved, dbOpen>>
vars == <<process, grpc, producer, topics, consumer, database>>

Offsets == 1..MaxRequests

ToRequestTopic(m) == [topic |-> "request", body |-> m]
ToResultTopic(a)  == [topic |-> "result", body |-> a]
ToTable(r)        == [topic |-> "table", body |-> r]

Call == [stage : {"sending", "ok", "error"}, req : GrpcRequests]

Alive == mode # "down"
Running == mode \in {"up", "closing"}    \* KafkaConsumer::running_
Calling(h) == call[h] # None
Queued == {outbox[s] : s \in Slots} \ {None, Reported}
QueueFull == \A s \in Slots : outbox[s] # None
Published == {requests[n] : n \in DOMAIN requests}
Working == requests[current]

\* Entries that are, or may become, messages of the request topic.
Demand ==
  Len(requests)
    + Cardinality({s \in Slots : outbox[s] \notin {None, Reported}
                                   /\ outbox[s].topic = "request"})
    + Cardinality({h \in Handlers : Calling(h) /\ call[h].stage = "sending"})

TypeOK ==
  /\ mode \in {"up", "closing", "stopping", "down"}
  /\ sessions \in Nat
  /\ crashes \in Nat
  /\ call \in [Handlers -> Call \cup {None}]
  /\ accepted \subseteq GrpcRequests
  /\ outbox \in [Slots -> Entry \cup {None, Reported}]
  /\ lost \subseteq Entry \cup [topic : {"table"}, body : Row]
  /\ requests \in Seq(Message)
  /\ Len(requests) <= MaxRequests
  /\ results \subseteq Answer
  /\ pc \in {"loop", "consume", "process", "respond", "save", "exited"}
  /\ current \in 0..Len(requests)
  /\ position \in 1..(Len(requests) + 1)
  /\ committed \in 1..position
  /\ handled \subseteq DOMAIN requests
  /\ table \subseteq Row
  /\ saved \in [Offsets -> Nat]
  /\ dbOpen \in BOOLEAN

\* main() has constructed everything and started the consumer and the server,
\* on an empty topic and for a consumer group that has no committed offset yet.
Init ==
  /\ mode = "up"
  /\ sessions = 1
  /\ crashes = 0
  /\ call = [h \in Handlers |-> None]
  /\ accepted = {}
  /\ outbox = [s \in Slots |-> None]
  /\ lost = {}
  /\ requests = <<>>
  /\ results = {}
  /\ pc = "loop"
  /\ current = 0
  /\ position = 1
  /\ committed = 1
  /\ handled = {}
  /\ table = {}
  /\ saved = [n \in Offsets |-> 0]
  /\ dbOpen = TRUE

-----------------------------------------------------------------------------
(***************************************************************************)
(* The producer: produce() takes a free place, and after it poll(0) serves *)
(* every waiting delivery report, which frees its place.                   *)
(***************************************************************************)

Poll(box) == [s \in Slots |-> IF box[s] = Reported THEN None ELSE box[s]]

Produce(entry) ==
  \E s \in Slots :
    /\ outbox[s] = None
    /\ outbox' = Poll([outbox EXCEPT ![s] = entry])

\* produce() returned an error: nothing is queued, and poll() is not called.
ProduceFails ==
  /\ QueueFull \/ "produce" \in Faults
  /\ UNCHANGED outbox

(***************************************************************************)
(* gRPC handler threads.                                                   *)
(***************************************************************************)

ModerateObject(h, r) ==
  /\ mode = "up"
  /\ ~Calling(h)
  /\ Demand < MaxRequests
  /\ call' = [call EXCEPT ![h] =
                [stage |-> IF ValidRequest(r) THEN "sending" ELSE "error",
                 req |-> r]]
  /\ UNCHANGED <<process, accepted, producer, topics, consumer, database>>

\* Mutant: the error of produce() is ignored.
SendRequestAsync_ErrorIgnored(h) ==
  /\ Calling(h)
  /\ call[h].stage = "sending"
  /\ Produce(ToRequestTopic(KafkaRequest(call[h].req))) \/ ProduceFails
  /\ call' = [call EXCEPT ![h].stage = "ok"]
  /\ UNCHANGED <<process, accepted, lost, topics, consumer, database>>

SendRequestAsync(h) ==
  /\ Calling(h)
  /\ call[h].stage = "sending"
  /\ \/ /\ Produce(ToRequestTopic(KafkaRequest(call[h].req)))
        /\ call' = [call EXCEPT ![h].stage = "ok"]
     \/ /\ ProduceFails
        /\ call' = [call EXCEPT ![h].stage = "error"]
  /\ UNCHANGED <<process, accepted, lost, topics, consumer, database>>

\* The status goes back to the caller; OK claims that the request was taken.
ReplyToCaller(h) ==
  /\ Calling(h)
  /\ call[h].stage \in {"ok", "error"}
  /\ accepted' = IF call[h].stage = "ok" THEN accepted \cup {call[h].req}
                                         ELSE accepted
  /\ call' = [call EXCEPT ![h] = None]
  /\ UNCHANGED <<process, producer, topics, consumer, database>>

(***************************************************************************)
(* librdkafka's sender, the broker, and other producers.                   *)
(***************************************************************************)

\* The broker appends the entry to its topic.
Appended(entry) ==
  \/ /\ entry.topic = "request"
     /\ Len(requests) < MaxRequests
     /\ requests' = Append(requests, entry.body)
     /\ UNCHANGED results
  \/ /\ entry.topic = "result"
     /\ results' = results \cup {entry.body}
     /\ UNCHANGED requests

\* Mutant: acks=0, reported as delivered whether the broker has it or not.
Deliver_Unacknowledged(s) ==
  /\ Alive
  /\ outbox[s] \in Queued
  /\ Appended(outbox[s]) \/ UNCHANGED topics
  /\ outbox' = [outbox EXCEPT ![s] = Reported]
  /\ UNCHANGED <<process, grpc, lost, consumer, database>>

\* The report waits in the queue for the next poll: dr_cb only logs it.
Deliver(s) ==
  /\ Alive
  /\ outbox[s] \in Queued
  /\ Appended(outbox[s])
  /\ outbox' = [outbox EXCEPT ![s] = Reported]
  /\ UNCHANGED <<process, grpc, lost, consumer, database>>

\* Without idempotence a lost acknowledgement sends the message once more.
AckLost(s) ==
  /\ Alive
  /\ "ack" \in Faults
  /\ Demand < MaxRequests
  /\ outbox[s] \in Queued
  /\ Appended(outbox[s])
  /\ UNCHANGED <<process, grpc, producer, consumer, database>>

Expire(s) ==
  /\ Alive
  /\ "expire" \in Faults
  /\ outbox[s] \in Queued
  /\ lost' = lost \cup {outbox[s]}
  /\ outbox' = [outbox EXCEPT ![s] = Reported]
  /\ UNCHANGED <<process, grpc, topics, consumer, database>>

PublishForeign(m) ==
  /\ Demand < MaxRequests
  /\ requests' = Append(requests, m)
  /\ UNCHANGED <<process, grpc, producer, results, consumer, database>>

-----------------------------------------------------------------------------
(***************************************************************************)
(* The consumer thread.                                                    *)
(***************************************************************************)

\* Mutant: the loop does not look at running_.
LoopHead_NeverStops ==
  /\ pc = "loop"
  /\ Alive
  /\ pc' = "consume"
  /\ UNCHANGED <<process, grpc, producer, topics, database,
                 current, position, committed, handled>>

\* while (running_.load())
LoopHead ==
  /\ pc = "loop"
  /\ Alive
  /\ pc' = IF Running THEN "consume" ELSE "exited"
  /\ UNCHANGED <<process, grpc, producer, topics, database,
                 current, position, committed, handled>>

\* consume() returns a message and stores the next offset for auto-commit,
\* before the message is processed.
Consume ==
  /\ pc = "consume"
  /\ position <= Len(requests)
  /\ pc' = "process"
  /\ current' = position
  /\ position' = position + 1
  /\ UNCHANGED <<process, grpc, producer, topics, database, committed, handled>>

\* consume() returns a time-out, an end of partition or an error.
ConsumeNothing ==
  /\ pc = "consume"
  /\ pc' = "loop"
  /\ UNCHANGED <<process, grpc, producer, topics, database,
                 current, position, committed, handled>>

\* The message at hand is done with: back to the head of the loop.
Finish ==
  /\ pc' = "loop"
  /\ current' = 0
  /\ handled' = handled \cup {current}
  /\ UNCHANGED <<position, committed>>

\* What goes missing when an acceptable message is dropped before its answer.
Verdict(m) ==
  {ToResultTopic(Response(m))}
    \cup IF IsFlagged(m) THEN {ToTable(ModerationRecord(m))} ELSE {}

\* Mutant: the key is not checked.
ProcessMessage_AnyKey ==
  /\ pc = "process"
  /\ IF Working.parses /\ TypeAccepted(Working)
     THEN pc' = "respond" /\ UNCHANGED <<current, position, committed, handled>>
     ELSE Finish
  /\ UNCHANGED <<process, grpc, producer, topics, database>>

\* Mutant: an exception of the text processing leaves the thread.
ProcessMessage_Uncaught ==
  /\ pc = "process"
  /\ \/ ~Acceptable(Working) /\ Finish
     \/ /\ Acceptable(Working)
        /\ \/ pc' = "respond" /\ UNCHANGED current
           \/ "text" \in Faults /\ pc' = "exited" /\ current' = 0
        /\ UNCHANGED <<position, committed, handled>>
  /\ UNCHANGED <<process, grpc, producer, topics, database>>

\* ProcessMessage up to the answer: every early return finishes the message.
ProcessMessage ==
  /\ pc = "process"
  /\ \/ /\ ~Acceptable(Working)
        /\ Finish
        /\ UNCHANGED lost
     \/ /\ Acceptable(Working)
        /\ "text" \in Faults
        /\ lost' = lost \cup Verdict(Working)
        /\ Finish
     \/ /\ Acceptable(Working)
        /\ pc' = "respond"
        /\ UNCHANGED <<lost, current, position, committed, handled>>
  /\ UNCHANGED <<process, grpc, outbox, topics, database>>

\* Mutant: a refused answer ends the processing of the message.
SendResponse_GivesUp ==
  /\ pc = "respond"
  /\ LET answer == ToResultTopic(Response(Working))
     IN  \/ /\ Produce(answer)
            /\ pc' = "save"
            /\ UNCHANGED <<lost, current, position, committed, handled>>
         \/ ProduceFails /\ lost' = lost \cup {answer} /\ Finish
  /\ UNCHANGED <<process, grpc, topics, database>>

\* A refused answer is logged and forgotten; the result is saved all the same.
SendResponse ==
  /\ pc = "respond"
  /\ LET answer == ToResultTopic(Response(Working))
     IN  \/ Produce(answer) /\ UNCHANGED lost
         \/ ProduceFails /\ lost' = lost \cup {answer}
  /\ pc' = "save"
  /\ UNCHANGED <<process, grpc, topics, database,
                 current, position, committed, handled>>

\* The INSERT and its commit.  A connection that fails stays closed, and the
\* outcome of a commit that fails is not known to the program.
Insert(row) ==
  /\ table' = table \cup {row}
  /\ saved' = [saved EXCEPT ![current] = @ + 1]

SaveModerationResult(row) ==
  \/ dbOpen /\ Insert(row) /\ UNCHANGED <<dbOpen, lost>>
  \/ /\ dbOpen
     /\ "db" \in Faults
     /\ \/ Insert(row) /\ UNCHANGED lost
        \/ lost' = lost \cup {ToTable(row)} /\ UNCHANGED <<table, saved>>
     /\ dbOpen' \in BOOLEAN
  \/ ~dbOpen /\ lost' = lost \cup {ToTable(row)} /\ UNCHANGED database

\* Mutant: a save that fails, or whose outcome is in doubt, is tried again.
HandleModerationResult_Retry ==
  /\ pc = "save"
  /\ IF IsFlagged(Working)
     THEN SaveModerationResult(ModerationRecord(Working))
     ELSE UNCHANGED <<database, lost>>
  /\ Finish \/ ("db" \in Faults /\ UNCHANGED consumer)
  /\ UNCHANGED <<process, grpc, outbox, topics>>

HandleModerationResult ==
  /\ pc = "save"
  /\ IF IsFlagged(Working)
     THEN SaveModerationResult(ModerationRecord(Working))
     ELSE UNCHANGED <<database, lost>>
  /\ Finish
  /\ UNCHANGED <<process, grpc, outbox, topics>>

\* Mutant: the offset after the next one is committed.
AutoCommit_OneTooFar ==
  /\ Alive
  /\ committed # position + 1
  /\ committed' = position + 1
  /\ UNCHANGED <<process, grpc, producer, topics, database,
                 pc, current, position, handled>>

\* librdkafka commits the stored offset every auto.commit.interval.ms.
AutoCommit ==
  /\ Alive
  /\ committed # position
  /\ committed' = position
  /\ UNCHANGED <<process, grpc, producer, topics, database,
                 pc, current, position, handled>>

\* The assignment is lost and regained: fetching resumes at the committed
\* offset, whatever the thread is doing.
Rejoin ==
  /\ Alive
  /\ "rejoin" \in Faults
  /\ sessions < MaxSessions
  /\ sessions' = sessions + 1
  /\ position' = committed
  /\ UNCHANGED <<mode, crashes, grpc, producer, topics, database,
                 pc, current, committed, handled>>

-----------------------------------------------------------------------------
(***************************************************************************)
(* The life of the process.                                                *)
(***************************************************************************)

\* SIGTERM reaches Server::Stop: no new RPCs.
Signal ==
  /\ mode = "up"
  /\ mode' = "closing"
  /\ UNCHANGED <<sessions, crashes, grpc, producer, topics, consumer, database>>

\* Mutant: the RPCs in flight are not waited for.
StopConsumer_Early ==
  /\ mode = "closing"
  /\ mode' = "stopping"
  /\ UNCHANGED <<sessions, crashes, grpc, producer, topics, consumer, database>>

\* Server::Shutdown has waited for the RPCs, main stops the consumer.
StopConsumer ==
  /\ mode = "closing"
  /\ \A h \in Handlers : ~Calling(h)
  /\ mode' = "stopping"
  /\ UNCHANGED <<sessions, crashes, grpc, producer, topics, consumer, database>>

\* The memory of the process is gone, and with it what was still queued.
LoseMemory ==
  /\ mode' = "down"
  /\ call' = [h \in Handlers |-> None]
  /\ outbox' = [s \in Slots |-> None]
  /\ lost' = lost \cup Queued
  /\ pc' = "exited"
  /\ current' = 0
  /\ UNCHANGED <<sessions, accepted, topics, position, handled, database>>

\* Mutant: the producer is not flushed.
Shutdown_Unflushed ==
  /\ mode = "stopping"
  /\ pc = "exited"
  /\ LoseMemory
  /\ committed' = position
  /\ UNCHANGED crashes

\* Mutant: the consumer thread is not joined.
Shutdown_Unjoined ==
  /\ mode = "stopping"
  /\ Queued = {} \/ "flush" \in Faults
  /\ LoseMemory
  /\ committed' = position
  /\ UNCHANGED crashes

\* The consumer thread is joined, the producer flushed, the consumer closed
\* (which commits the stored offset) and both destroyed.
Shutdown ==
  /\ mode = "stopping"
  /\ pc = "exited"
  /\ Queued = {} \/ "flush" \in Faults
  /\ LoseMemory
  /\ \/ committed' = position
     \/ "commit" \in Faults /\ UNCHANGED committed
  /\ UNCHANGED crashes

Crash ==
  /\ Alive
  /\ "crash" \in Faults
  /\ crashes' = crashes + 1
  /\ LoseMemory
  /\ UNCHANGED committed

\* Mutant: auto.offset.reset=latest, and the committed offset is not used.
Restart_AtLatest ==
  /\ mode = "down"
  /\ sessions < MaxSessions
  /\ mode' = "up"
  /\ sessions' = sessions + 1
  /\ pc' = "loop"
  /\ position' = Len(requests) + 1
  /\ dbOpen' = TRUE
  /\ UNCHANGED <<crashes, grpc, producer, topics,
                 current, committed, handled, table, saved>>

\* main() once more: a new connection, a new consumer at the committed offset.
Restart ==
  /\ mode = "down"
  /\ sessions < MaxSessions
  /\ mode' = "up"
  /\ sessions' = sessions + 1
  /\ pc' = "loop"
  /\ position' = committed
  /\ dbOpen' = TRUE
  /\ UNCHANGED <<crashes, grpc, producer, topics,
                 current, committed, handled, table, saved>>

\* The last life is over: the model ends here.
Ended ==
  /\ mode = "down"
  /\ sessions = MaxSessions
  /\ UNCHANGED vars

-----------------------------------------------------------------------------
Serve(h) == SendRequestAsync(h) \/ ReplyToCaller(h)

Next ==
  \/ \E h \in Handlers : Serve(h) \/ \E r \in GrpcRequests : ModerateObject(h, r)
  \/ \E s \in Slots : Deliver(s) \/ AckLost(s) \/ Expire(s)
  \/ \E m \in ForeignMessages : PublishForeign(m)
  \/ LoopHead \/ Consume \/ ConsumeNothing
  \/ ProcessMessage \/ SendResponse \/ HandleModerationResult
  \/ AutoCommit \/ Rejoin
  \/ Signal \/ StopConsumer \/ Shutdown \/ Crash \/ Restart
  \/ Ended

Spec == Init /\ [][Next]_vars

(***************************************************************************)
(* Fairness.  The operating system runs every ready thread; consume()      *)
(* returns within its time-out, and does not return empty-handed for ever  *)
(* while messages are waiting; librdkafka settles every queued message,    *)
(* one way or the other, before message.timeout.ms; main() goes on.  No    *)
(* caller has to call, nobody has to send a signal or to start the process *)
(* again, and no fault has to happen.                                      *)
(***************************************************************************)
Fairness ==
  /\ \A h \in Handlers : WF_vars(Serve(h))
  /\ \A s \in Slots : WF_vars(Deliver(s) \/ Expire(s))
  /\ WF_vars(LoopHead)
  /\ WF_vars(Consume \/ ConsumeNothing)
  /\ SF_vars(Consume)
  /\ WF_vars(ProcessMessage)
  /\ WF_vars(SendResponse)
  /\ WF_vars(HandleModerationResult)
  /\ WF_vars(StopConsumer)
  /\ WF_vars(Shutdown)

FairSpec == Spec /\ Fairness

-----------------------------------------------------------------------------
(***************************************************************************)
(* Safety.                                                                 *)
(***************************************************************************)

\* The service implements the promise: whatever is answered or recorded is the
\* right verdict on a well-formed message of the request topic, at most one row
\* is written for a message per assignment, and nothing is retracted.  It is
\* about ProcessMessage's early returns, the key carried from the message to
\* the answer and the row, and the offset stored at every consume().
Promise == INSTANCE ModerationPromise WITH
  MaxAsked <- MaxRequests, asked <- requests, answers <- results,
  rows <- table, copies <- saved, turns <- sessions

ImplementsPromise == Promise!Spec

\* The rows of a message are bounded by the assignments of the topic: a message
\* is saved again only after a restart or a rebalance took the position back,
\* never twice within one assignment.
RowsBoundedBySessions == \A n \in Offsets : saved[n] <= sessions

\* Offsets the group has committed whose message was never fully processed and
\* is not being processed either.
Forgotten(limit) ==
  {n \in DOMAIN requests : n < limit /\ n \notin handled /\ n # current}

\* Storing the offset before processing loses messages, but never more than the
\* one at hand when the process was killed: a restart, a rebalance or a stop in
\* order loses none.
LossBoundedByCrashes == Cardinality(Forgotten(committed)) <= crashes

\* A caller that was answered OK has its request in the queue, on the topic, or
\* among the deliveries that were given up (which only the log tells).
AcceptedAccounted ==
  \A r \in accepted :
    LET m == KafkaRequest(r)
    IN  m \in Published \/ ToRequestTopic(m) \in Queued \cup lost

\* A message that was processed to its end has both consequences of its verdict,
\* answer and row, or the one that is missing was given up: no path of
\* ProcessMessage and its callback skips one of them.
HandledAccounted ==
  \A n \in handled :
    LET m == requests[n]
    IN  Acceptable(m) =>
          /\ \/ Response(m) \in results
             \/ ToResultTopic(Response(m)) \in Queued \cup lost
          /\ IsFlagged(m) =>
               \/ ModerationRecord(m) \in table
               \/ ToTable(ModerationRecord(m)) \in lost

\* Stopping in order loses nothing that was accepted, answered or being
\* processed: the consumer is joined before the producer is flushed, and both
\* before the memory is given up.  (Only the flush's time-out may lose.)
OrderlyStopLosesNothing ==
  [][(mode = "stopping" /\ mode' = "down" /\ crashes' = crashes)
       => /\ "flush" \notin Faults => lost' = lost
          /\ current = 0
          /\ \A h \in Handlers : call[h] = None]_vars

PM == INSTANCE ProcessModes
        WITH Callers <- Handlers, calls <- {h \in Handlers : Calling(h)}

\* The process as the message path sees it keeps to ProcessModes, which
\* Lifecycle implements with the threads and locks in view: no RPC begins once
\* the signal has come, the consumer is stopped only when every RPC has ended,
\* and nothing is left half done when the process starts again.
ImplementsModes == PM!Spec

(***************************************************************************)
(* Liveness.                                                               *)
(***************************************************************************)

\* A message that is waiting on the topic while the service is up is processed,
\* unless the service goes down: neither a poisonous message nor a lost
\* assignment can stop the consumer.
ConsumerProgress ==
  \A n \in Offsets :
    (mode = "up" /\ position <= n /\ n <= Len(requests))
      ~> (n \in handled \/ mode # "up")

\* An accepted request reaches the topic or is given up.
AcceptedSettles ==
  \A r \in GrpcRequests :
    (r \in accepted) ~> (KafkaRequest(r) \in Published
                           \/ ToRequestTopic(KafkaRequest(r)) \in lost)

\* Once main() has begun to stop the consumer, the process ends: the thread
\* leaves its loop and the flush comes to an end.
StopCompletes == (mode = "stopping") ~> (mode = "down")

\* Every well-formed message of the topic is answered, although its offset is
\* stored before it is processed: across any number of orderly stops, restarts and
\* rebalances, and commits that are refused, provided the service is finally left
\* running.  Only a crash forgets a message, and only an answer that was given up
\* is missing.
AskedIsAnswered ==
  <>[](mode = "up") =>
    \A n \in Offsets :
      (n <= Len(requests) /\ Acceptable(requests[n]))
        ~> \/ /\ n <= Len(requests)
              /\ \/ Response(requests[n]) \in results
                 \/ ToResultTopic(Response(requests[n])) \in lost
           \/ crashes > 0

(***************************************************************************)
(* What the program's own text says of it, and the code does not do.       *)
(***************************************************************************)

\* A valid request that is answered OK is moderated while the service stays up:
\* its verdict appears on the result topic.  (handler_test.cpp: a valid request
\* returns OK and success.)
AcceptedIsModerated ==
  \A r \in GrpcRequests :
    (r \in accepted) ~> ((\E a \in results : a.key = r.id) \/ mode # "up")

\* A valid request is refused only while undelivered messages fill the queue.
\* (moderation_service_test.cpp: one valid request after another is accepted.)
RefusedOnlyWhenBusy ==
  [][\A h \in Handlers :
       (/\ Calling(h) /\ call[h].stage = "sending"
        /\ call'[h] # None /\ call'[h].stage = "error")
         => Queued # {}]_vars
=============================================================================
