----------------------------- MODULE AnswerOrder -----------------------------
(***************************************************************************)
(* Several instances of the service in one consumer group, and the order   *)
(* of their answers.  A consumer of the result topic keeps the last answer *)
(* it has seen of an object, so that answer should be about the newest     *)
(* request.  This module follows one partition of the request topic from   *)
(* owner to owner: each has one consumer thread and one producer queue,    *)
(* and what it hands on is the committed offset, nothing else.             *)
(*                                                                         *)
(* A request is its offset, and so is the answer to it; every message is   *)
(* taken to be acceptable (ModerationFlow has the others).                 *)
(***************************************************************************)
EXTENDS Integers, Sequences, FiniteSets

CONSTANTS
  Instances,   \* processes of the service
  Objects,     \* the objects the requests are about: the keys
  None,        \* nobody owns the partition
  MaxRequests, \* bound of the model on the request topic
  MaxResults,  \* bound of the model on the result topic
  MaxMoves     \* bound of the model on stops, crashes and lost assignments

ASSUME OrderAssumption ==
  /\ None \notin Instances
  /\ MaxRequests \in Nat /\ MaxResults \in Nat /\ MaxMoves \in Nat

VARIABLES
  requests,   \* the request topic: the object of each request
  results,    \* the result topic: the requests answered, in order
  owner,      \* the instance the partition is assigned to
  position,   \* the offset consume() returns next at the owner, or at the next
              \* one when there is none or it is gone
  stray,      \* the offset consume() returns next at an instance that has lost
              \* the partition and does not know it yet; 0 at the others
  committed,  \* the offset the group coordinator holds
  mode,       \* of an instance: "up", "stopping" (after the join) or "down"
  busy,       \* is an instance's consumer thread in ProcessMessage?
  due,        \* the answers an instance owes: its producer's queue, and at the
              \* end, while it is busy, the request in its hands
  moves,      \* stops, crashes and lost assignments so far
  past        \* history: what has happened that may spoil the order

vars ==
  <<requests, results, owner, position, stray, committed, mode, busy, due, moves, past>>

Spoilers ==
  {"loss",      \* an answer was given up, or died after its offset was committed
   "overtake",  \* a resent answer arrived after a younger one
   "overlap"}   \* the partition moved on while an earlier owner still owed answers,
                \* or an earlier owner read on after it had moved

TypeOK ==
  /\ requests \in Seq(Objects)
  /\ results \in Seq(DOMAIN requests)
  /\ owner \in Instances \cup {None}
  /\ committed \in 1..position
  /\ position \in 1..(Len(requests) + 1)
  /\ stray \in [Instances -> 0..Len(requests) + 1]
  /\ mode \in [Instances -> {"up", "stopping", "down"}]
  /\ busy \in [Instances -> BOOLEAN]
  /\ due \in [Instances -> Seq(DOMAIN requests)]
  /\ \A i \in Instances : busy[i] => due[i] # <<>> /\ mode[i] = "up"
  /\ moves \in Nat
  /\ past \subseteq Spoilers

Init ==
  /\ requests = <<>> /\ results = <<>>
  /\ owner = None
  /\ position = 1 /\ committed = 1
  /\ stray = [i \in Instances |-> 0]
  /\ mode = [i \in Instances |-> "up"]
  /\ busy = [i \in Instances |-> FALSE]
  /\ due = [i \in Instances |-> <<>>]
  /\ moves = 0
  /\ past = {}

-----------------------------------------------------------------------------
(* The topics and the group coordinator. *)

Ask(o) ==
  /\ Len(requests) < MaxRequests
  /\ requests' = Append(requests, o)
  /\ UNCHANGED <<results, owner, position, stray, committed, mode, busy, due,
                 moves, past>>

Move == moves < MaxMoves /\ moves' = moves + 1

\* Mutant: auto.offset.reset is "latest": where nothing is committed, the owner
\* starts behind what has been asked.
Assign_AtLatest(i) ==
  /\ owner = None
  /\ mode[i] = "up"
  /\ owner' = i
  /\ position' = IF committed = 1 THEN Len(requests) + 1 ELSE position
  /\ past' = IF \E j \in Instances \ {i} : due[j] # <<>>
             THEN past \cup {"overlap"} ELSE past
  /\ stray' = [stray EXCEPT ![i] = 0]
  /\ UNCHANGED <<requests, results, committed, mode, busy, due, moves>>
Assign(i) ==
  /\ owner = None
  /\ mode[i] = "up"
  /\ owner' = i
  /\ past' = IF \E j \in Instances \ {i} : due[j] # <<>>
             THEN past \cup {"overlap"} ELSE past
  /\ stray' = [stray EXCEPT ![i] = 0]
  /\ UNCHANGED <<requests, results, position, committed, mode, busy, due, moves>>

\* Another instance has joined.  No rebalance callback is registered: librdkafka
\* gives the partition up on a thread of its own, whatever the consumer thread is
\* doing, and commits what it stored.
Revoke(i) ==
  /\ Move
  /\ owner = i /\ mode[i] # "down"
  /\ owner' = None
  /\ committed' = position
  /\ UNCHANGED <<requests, results, position, stray, mode, busy, due, past>>

\* max.poll.interval.ms or session.timeout.ms is over while the owner works, or
\* the commit of a revoked owner is refused.  The next owner starts at the
\* committed offset.  After a session time-out the old one learns of it with its
\* next heartbeat only.
Expel(i) ==
  /\ Move
  /\ owner = i /\ mode[i] # "down"
  /\ owner' = None
  /\ position' = committed
  /\ \E next \in {0, position} : stray' = [stray EXCEPT ![i] = next]
  /\ UNCHANGED <<requests, results, committed, mode, busy, due, past>>

\* session.timeout.ms is over for an owner that is gone.
Bury(i) ==
  /\ owner = i /\ mode[i] = "down"
  /\ owner' = None
  /\ UNCHANGED <<requests, results, position, stray, committed, mode, busy,
                 due, moves, past>>

-----------------------------------------------------------------------------
(* The consumer thread and the producer of an instance. *)

Consume(i) ==
  /\ owner = i /\ mode[i] = "up" /\ ~busy[i]
  /\ position <= Len(requests)
  /\ busy' = [busy EXCEPT ![i] = TRUE]
  /\ due' = [due EXCEPT ![i] = Append(@, position)]
  /\ position' = position + 1
  /\ UNCHANGED <<requests, results, owner, stray, committed, mode, moves, past>>

\* An owner that was expelled unawares reads on, until it is told.  The coordinator
\* refuses what it would commit.
ConsumeUnaware(i) ==
  /\ mode[i] = "up" /\ ~busy[i]
  /\ stray[i] \in DOMAIN requests
  /\ busy' = [busy EXCEPT ![i] = TRUE]
  /\ due' = [due EXCEPT ![i] = Append(@, stray[i])]
  /\ stray' = [stray EXCEPT ![i] = @ + 1]
  /\ past' = IF \/ owner # None \/ stray[i] < position
               \/ \E j \in Instances \ {i} : due[j] # <<>>
             THEN past \cup {"overlap"} ELSE past
  /\ UNCHANGED <<requests, results, owner, position, committed, mode, moves>>

\* ProcessMessage: the answer goes to the producer's queue.
Respond(i) ==
  /\ busy[i]
  /\ busy' = [busy EXCEPT ![i] = FALSE]
  /\ UNCHANGED <<requests, results, owner, position, stray, committed, mode,
                 due, moves, past>>

\* The text throws, or the queue is full: there will be no answer.
RespondFails(i) ==
  /\ Move
  /\ busy[i]
  /\ busy' = [busy EXCEPT ![i] = FALSE]
  /\ due' = [due EXCEPT ![i] = SubSeq(@, 1, Len(@) - 1)]
  /\ past' = past \cup {"loss"}
  /\ UNCHANGED <<requests, results, owner, position, stray, committed, mode>>

\* Mutant: the offset after the next one is committed.
AutoCommit_OneTooFar(i) ==
  /\ owner = i /\ mode[i] # "down"
  /\ committed # position + 1
  /\ committed' = position + 1
  /\ UNCHANGED <<requests, results, owner, position, stray, mode, busy, due,
                 moves, past>>
\* Every auto.commit.interval.ms.  The coordinator refuses one who is no owner.
AutoCommit(i) ==
  /\ owner = i /\ mode[i] # "down"
  /\ committed # position
  /\ committed' = position
  /\ UNCHANGED <<requests, results, owner, position, stray, mode, busy, due,
                 moves, past>>

Queue(i) == IF busy[i] THEN SubSeq(due[i], 1, Len(due[i]) - 1) ELSE due[i]

\* The broker takes the oldest answer of the queue.
Deliver(i) ==
  /\ Queue(i) # <<>>
  /\ results' = Append(results, Head(due[i]))
  /\ due' = [due EXCEPT ![i] = Tail(@)]
  /\ UNCHANGED <<requests, owner, position, stray, committed, mode, busy,
                 moves, past>>

\* Its acknowledgement is lost, and it will be sent again.
AckLost(i) ==
  /\ Queue(i) # <<>>
  /\ Len(results) < MaxResults
  /\ results' = Append(results, Head(due[i]))
  /\ UNCHANGED <<requests, owner, position, stray, committed, mode, busy, due,
                 moves, past>>

\* Many requests to the broker are in flight: the second answer arrives while
\* the first is sent again.
Overtake(i) ==
  /\ Move
  /\ Len(Queue(i)) > 1
  /\ results' = Append(results, due[i][2])
  /\ due' = [due EXCEPT ![i] = <<@[1]>> \o SubSeq(@, 3, Len(@))]
  /\ past' = past \cup {"overtake"}
  /\ UNCHANGED <<requests, owner, position, stray, committed, mode, busy>>

\* The retries are used up or message.timeout.ms is over.
Expire(i) ==
  /\ Move
  /\ Queue(i) # <<>>
  /\ due' = [due EXCEPT ![i] = Tail(@)]
  /\ past' = past \cup {"loss"}
  /\ UNCHANGED <<requests, results, owner, position, stray, committed, mode, busy>>

-----------------------------------------------------------------------------
(* The life of an instance. *)

Crash(i) ==
  /\ Move
  /\ mode[i] # "down"
  /\ mode' = [mode EXCEPT ![i] = "down"]
  /\ busy' = [busy EXCEPT ![i] = FALSE]
  /\ due' = [due EXCEPT ![i] = <<>>]
  /\ past' = IF \E k \in DOMAIN due[i] : due[i][k] < committed
             THEN past \cup {"loss"} ELSE past
  /\ position' = IF owner = i THEN committed ELSE position
  /\ stray' = [stray EXCEPT ![i] = 0]
  /\ UNCHANGED <<requests, results, owner, committed>>

\* StopConsumer: running_ is cleared and the thread joined.
Stop(i) ==
  /\ Move
  /\ mode[i] = "up" /\ ~busy[i]
  /\ mode' = [mode EXCEPT ![i] = "stopping"]
  /\ UNCHANGED <<requests, results, owner, position, stray, committed, busy,
                 due, past>>

FlushTimesOut(i) ==
  /\ Move
  /\ mode[i] = "stopping" /\ due[i] # <<>>
  /\ due' = [due EXCEPT ![i] = <<>>]
  /\ past' = past \cup {"loss"}
  /\ UNCHANGED <<requests, results, owner, position, stray, committed, mode, busy>>

\* Mutant: nothing is flushed before the consumer is closed.
Close_Unflushed(i) ==
  /\ mode[i] = "stopping"
  /\ mode' = [mode EXCEPT ![i] = "down"]
  /\ due' = [due EXCEPT ![i] = <<>>]
  /\ IF owner = i THEN owner' = None /\ committed' = position
                  ELSE UNCHANGED <<owner, committed>>
  /\ stray' = [stray EXCEPT ![i] = 0]
  /\ UNCHANGED <<requests, results, position, busy, moves, past>>
\* After the flush consumer_.reset() closes the consumer: its offset is
\* committed, and it leaves the group.
Close(i) ==
  /\ mode[i] = "stopping" /\ due[i] = <<>>
  /\ mode' = [mode EXCEPT ![i] = "down"]
  /\ IF owner = i THEN owner' = None /\ committed' = position
                  ELSE UNCHANGED <<owner, committed>>
  /\ stray' = [stray EXCEPT ![i] = 0]
  /\ UNCHANGED <<requests, results, position, busy, due, moves, past>>

\* It comes back as a new member of the group, which has to wait for the old one
\* to be taken off.
Restart(i) ==
  /\ mode[i] = "down" /\ owner # i
  /\ mode' = [mode EXCEPT ![i] = "up"]
  /\ UNCHANGED <<requests, results, owner, position, stray, committed, busy,
                 due, moves, past>>

-----------------------------------------------------------------------------
\* What an instance, the broker and the coordinator go on doing.
Works(i) ==
  Assign(i) \/ Bury(i) \/ Consume(i) \/ Respond(i) \/ Deliver(i) \/ Close(i) \/ Restart(i)

\* What may happen to them.
Suffers(i) ==
  \/ Revoke(i) \/ Expel(i) \/ ConsumeUnaware(i) \/ AutoCommit(i) \/ RespondFails(i)
  \/ AckLost(i) \/ Overtake(i) \/ Expire(i)
  \/ Crash(i) \/ Stop(i) \/ FlushTimesOut(i)

Next ==
  \/ \E o \in Objects : Ask(o)
  \/ \E i \in Instances : Works(i) \/ Suffers(i)

\* An instance that is gone is started again, the threads and the broker run,
\* and a free partition is assigned in the end.
Fairness ==
  /\ \A i \in Instances :
       /\ WF_vars(Bury(i)) /\ WF_vars(Consume(i)) /\ WF_vars(Respond(i))
       /\ WF_vars(Deliver(i)) /\ WF_vars(Close(i)) /\ WF_vars(Restart(i))
  /\ WF_vars(\E i \in Instances : Assign(i))

Spec == Init /\ [][Next]_vars /\ Fairness

-----------------------------------------------------------------------------
(***************************************************************************)
(* Properties                                                              *)
(***************************************************************************)

\* The last answer on the result topic about the object of request n is about n
\* or a younger request.
Fresh(n) ==
  \E k \in DOMAIN results :
    /\ results[k] >= n /\ requests[results[k]] = requests[n]
    /\ \A l \in DOMAIN results :
         l > k => requests[results[l]] # requests[n] \/ results[l] >= n

\* Every request has been read by the owner and nobody owes an answer.
Settled ==
  /\ owner # None /\ mode[owner] = "up" /\ position = Len(requests) + 1
  /\ \A i \in Instances : due[i] = <<>>

\* Once everything is read and answered, the last answer about an object is the
\* one to its newest request, however often the partition changed hands, was
\* read again from an old offset, and instances crashed: unless an answer was
\* lost, overtaken by a resent one, still owed by an earlier owner when the next one
\* began, or read by an earlier owner that did not know it was none any more.
LastAnswerIsNewest ==
  Settled /\ past = {} => \A n \in DOMAIN requests : Fresh(n)

Answered(n) ==
  \E k \in DOMAIN results : results[k] >= n /\ requests[results[k]] = requests[n]

\* Once everything is read and nobody owes anything, each request has its answer,
\* or a younger one about the same object has: what one owner committed it also
\* answers, and what it did not commit another reads.  That holds when answers
\* overtook one another or two owners overlapped, too; only a loss spoils it.
NoneLeftOut ==
  Settled /\ "loss" \notin past => \A n \in DOMAIN requests : Answered(n)

\* No request is forgotten between two owners: it, or a younger one about the
\* same object, is answered in the end, unless an answer was lost.
NobodyForgotten ==
  \A n \in 1..MaxRequests :
    n \in DOMAIN requests ~> (n \in DOMAIN requests /\ Answered(n)) \/ "loss" \in past
=============================================================================
