-------------------------- MODULE AnswerOrder_proofs --------------------------
(***************************************************************************)
(* LastAnswerIsNewest for any number of instances, objects, requests and   *)
(* moves.  The argument is about the offsets below position: each has its  *)
(* last answer on the result topic already, or is still owed; and whoever  *)
(* owes an old one owes, further back in the queue, all that were read     *)
(* after it.  So an old answer that arrives, after a rereading too, is     *)
(* never the last one.                                                     *)
(***************************************************************************)
EXTENDS AnswerOrder, TLAPS

Owed(n) == \E i \in Instances : \E k \in DOMAIN due[i] : due[i][k] = n

\* Nobody who is alive has the partition: the next one starts at committed.
Unowned == owner = None \/ mode[owner] = "down" => position = committed

\* Only one instance owes answers, and no other owns the partition.
OneOwes ==
  past = {} =>
    /\ \A i, j \in Instances : due[i] # <<>> /\ due[j] # <<>> => i = j
    /\ \A i \in Instances : due[i] # <<>> => owner \in {None, i}

\* What was read after an answer that is owed is owed behind it.
ReadOn ==
  past = {} =>
    \A i \in Instances : \A k \in DOMAIN due[i] : \A n \in 1..(position - 1) :
      n > due[i][k] => \E l \in DOMAIN due[i] : l > k /\ due[i][l] = n

Kept == past = {} => \A n \in 1..(position - 1) : Fresh(n) \/ Owed(n)

IInv == TypeOK /\ Unowned /\ OneOwes /\ ReadOn /\ Kept

-----------------------------------------------------------------------------
(* Sequences *)

LEMMA TailFacts ==
  ASSUME NEW S, NEW s \in Seq(S), s # <<>>
  PROVE  /\ Tail(s) \in Seq(S) /\ Head(s) \in S /\ Head(s) = s[1]
         /\ 1 \in DOMAIN s
         /\ DOMAIN Tail(s) = 1..(Len(s) - 1) /\ DOMAIN s = 1..Len(s)
         /\ \A k \in DOMAIN Tail(s) : Tail(s)[k] = s[k + 1]
         /\ (Len(s) > 1 => Tail(s) # <<>>)
OBVIOUS

LEMMA AppendFacts ==
  ASSUME NEW S, NEW s \in Seq(S), NEW x \in S
  PROVE  /\ Append(s, x) \in Seq(S) /\ Append(s, x) # <<>>
         /\ DOMAIN Append(s, x) = 1..(Len(s) + 1) /\ DOMAIN s = 1..Len(s)
         /\ Len(Append(s, x)) = Len(s) + 1
         /\ \A k \in DOMAIN s : Append(s, x)[k] = s[k]
         /\ Append(s, x)[Len(s) + 1] = x
OBVIOUS

LEMMA SubSeqFacts ==
  ASSUME NEW S, NEW s \in Seq(S), NEW a \in 1..(Len(s) + 1), NEW b \in 0..Len(s)
  PROVE  SubSeq(s, a, b) \in Seq(S)
OBVIOUS

LEMMA WiderSeq ==
  ASSUME NEW S, NEW T, S \subseteq T, NEW s \in Seq(S)
  PROVE  s \in Seq(T)
OBVIOUS

\* A queue is what is owed, but for the request in hand.
LEMMA QueueFacts ==
  ASSUME TypeOK, NEW i \in Instances, Queue(i) # <<>>
  PROVE  due[i] # <<>> /\ due[i] \in Seq(DOMAIN requests)
         /\ (busy[i] => Len(due[i]) > 1)
<1>1. due[i] \in Seq(DOMAIN requests) /\ busy[i] \in BOOLEAN /\ (busy[i] => due[i] # <<>>)
  BY DEF TypeOK
<1>2. CASE busy[i]
  <2>1. Len(due[i]) \in Nat /\ Len(due[i]) # 0
    BY <1>1, <1>2
  <2>2. Len(due[i]) = 1 => SubSeq(due[i], 1, Len(due[i]) - 1) = <<>>
    BY <1>1
  <2> QED
    BY <1>1, <1>2, <2>1, <2>2 DEF Queue
<1>3. CASE ~busy[i]
  BY <1>1, <1>3 DEF Queue
<1> QED
  BY <1>2, <1>3

-----------------------------------------------------------------------------
(* Types *)

LEMMA InitIInv == Init => IInv
BY OrderAssumption DEF Init, IInv, TypeOK, Unowned, OneOwes, ReadOn, Kept, Spoilers

LEMMA NextTypes ==
  ASSUME TypeOK, [Next]_vars
  PROVE  TypeOK'
<1>1. CASE \E o \in Objects : Ask(o)
  <2>1. PICK o \in Objects : Ask(o)
    BY <1>1
  <2>2. requests' \in Seq(Objects) /\ Len(requests') = Len(requests) + 1
        /\ DOMAIN requests \subseteq DOMAIN requests'
    BY <2>1, AppendFacts DEF Ask, TypeOK
  <2>3. results' \in Seq(DOMAIN requests')
    BY <2>1, <2>2, WiderSeq DEF Ask, TypeOK
  <2>4. due' \in [Instances -> Seq(DOMAIN requests')]
    BY <2>1, <2>2, WiderSeq DEF Ask, TypeOK
  <2>5. stray' \in [Instances -> 0..Len(requests') + 1]
    BY <2>1, <2>2 DEF Ask, TypeOK
  <2> QED
    BY <2>1, <2>2, <2>3, <2>4, <2>5 DEF Ask, TypeOK
<1>2. ASSUME NEW i \in Instances, Works(i)
      PROVE  TypeOK'
  <2>1. CASE Assign(i)
    BY <2>1 DEF Assign, TypeOK, Spoilers
  <2>2. CASE Bury(i)
    BY <2>2 DEF Bury, TypeOK
  <2>3. CASE Consume(i)
    <3>1. position \in DOMAIN requests
      BY <2>3 DEF Consume, TypeOK
    <3>2. /\ Append(due[i], position) \in Seq(DOMAIN requests)
          /\ Append(due[i], position) # <<>>
      <4>1. due[i] \in Seq(DOMAIN requests)
        BY DEF TypeOK
      <4> QED
        BY <3>1, <4>1, AppendFacts
    <3> QED
      BY <2>3, <3>1, <3>2 DEF Consume, TypeOK
  <2>4. CASE Respond(i)
    BY <2>4 DEF Respond, TypeOK
  <2>5. CASE Deliver(i)
    <3>1. due[i] # <<>> /\ due[i] \in Seq(DOMAIN requests) /\ (busy[i] => Len(due[i]) > 1)
      BY <2>5, QueueFacts DEF Deliver
    <3>2. Tail(due[i]) \in Seq(DOMAIN requests) /\ Head(due[i]) \in DOMAIN requests
      BY <3>1, TailFacts
    <3>3. busy[i] => Tail(due[i]) # <<>>
      BY <3>1
    <3>4. Append(results, Head(due[i])) \in Seq(DOMAIN requests)
      BY <3>2, AppendFacts DEF TypeOK
    <3> QED
      BY <2>5, <3>2, <3>3, <3>4 DEF Deliver, TypeOK
  <2>6. CASE Close(i)
    BY <2>6 DEF Close, TypeOK
  <2>7. CASE Restart(i)
    BY <2>7 DEF Restart, TypeOK
  <2> QED
    BY <1>2, <2>1, <2>2, <2>3, <2>4, <2>5, <2>6, <2>7 DEF Works
<1>3. ASSUME NEW i \in Instances, Suffers(i)
      PROVE  TypeOK'
  <2>0. due[i] \in Seq(DOMAIN requests)
    BY DEF TypeOK
  <2>1. CASE Revoke(i)
    BY <2>1 DEF Revoke, Move, TypeOK
  <2>2. CASE Expel(i)
    BY <2>2 DEF Expel, Move, TypeOK
  <2>3. CASE AutoCommit(i)
    BY <2>3 DEF AutoCommit, TypeOK
  <2>4. CASE RespondFails(i)
    <3>1. SubSeq(due[i], 1, Len(due[i]) - 1) \in Seq(DOMAIN requests)
      <4>1. Len(due[i]) - 1 \in 0..Len(due[i]) /\ 1 \in 1..(Len(due[i]) + 1)
        BY <2>0, <2>4 DEF RespondFails, TypeOK
      <4> QED
        BY <4>1, <2>0, SubSeqFacts
    <3> QED
      BY <2>4, <3>1 DEF RespondFails, Move, TypeOK, Spoilers
  <2>5. CASE AckLost(i)
    <3>1. due[i] # <<>>
      BY <2>5, QueueFacts DEF AckLost
    <3>2. Append(results, Head(due[i])) \in Seq(DOMAIN requests)
      BY <2>0, <3>1, TailFacts, AppendFacts DEF TypeOK
    <3> QED
      BY <2>5, <3>2 DEF AckLost, TypeOK
  <2>6. CASE Overtake(i)
    <3>1. Len(due[i]) > 1 /\ (busy[i] => Len(due[i]) > 2)
      BY <2>0, <2>6 DEF Overtake, Queue, TypeOK
    <3>2. due[i][1] \in DOMAIN requests /\ due[i][2] \in DOMAIN requests
      BY <2>0, <3>1
    <3>3. SubSeq(due[i], 3, Len(due[i])) \in Seq(DOMAIN requests)
      BY <2>0, <3>1, SubSeqFacts
    <3>4. /\ <<due[i][1]>> \o SubSeq(due[i], 3, Len(due[i])) \in Seq(DOMAIN requests)
          /\ <<due[i][1]>> \o SubSeq(due[i], 3, Len(due[i])) # <<>>
      BY <3>2, <3>3
    <3>5. Append(results, due[i][2]) \in Seq(DOMAIN requests)
      BY <3>2, AppendFacts DEF TypeOK
    <3> QED
      BY <2>6, <3>4, <3>5 DEF Overtake, Move, TypeOK, Spoilers
  <2>7. CASE Expire(i)
    <3>1. due[i] # <<>> /\ (busy[i] => Len(due[i]) > 1)
      BY <2>7, QueueFacts DEF Expire
    <3>2. Tail(due[i]) \in Seq(DOMAIN requests) /\ (busy[i] => Tail(due[i]) # <<>>)
      <4>1. Tail(due[i]) \in Seq(DOMAIN requests)
        BY <2>0, <3>1, TailFacts
      <4>2. Len(due[i]) > 1 => Tail(due[i]) # <<>>
        BY <2>0, <3>1, TailFacts
      <4> QED
        BY <3>1, <4>1, <4>2
    <3>3. /\ due' \in [Instances -> Seq(DOMAIN requests)]
          /\ \A j \in Instances : busy[j] => due'[j] # <<>> /\ mode[j] = "up"
      BY <2>7, <3>2 DEF Expire, TypeOK
    <3>4. moves' \in Nat /\ past' \subseteq Spoilers
      BY <2>7 DEF Expire, Move, TypeOK, Spoilers
    <3> QED
      BY <2>7, <3>3, <3>4 DEF Expire, TypeOK
  <2>8. CASE Crash(i)
    BY <2>8 DEF Crash, Move, TypeOK, Spoilers
  <2>9. CASE Stop(i)
    BY <2>9 DEF Stop, Move, TypeOK
  <2>10. CASE FlushTimesOut(i)
    BY <2>10 DEF FlushTimesOut, Move, TypeOK, Spoilers
  <2>11. CASE ConsumeUnaware(i)
    <3>1. /\ stray[i] \in DOMAIN requests
          /\ Append(due[i], stray[i]) \in Seq(DOMAIN requests)
          /\ Append(due[i], stray[i]) # <<>>
      BY <2>0, <2>11, AppendFacts DEF ConsumeUnaware
    <3>2. stray[i] + 1 \in 0..Len(requests) + 1
      BY <3>1 DEF TypeOK
    <3> QED
      BY <2>11, <3>1, <3>2 DEF ConsumeUnaware, TypeOK, Spoilers
  <2> QED
    BY <1>3, <2>1, <2>2, <2>3, <2>4, <2>5, <2>6, <2>7, <2>8, <2>9, <2>10, <2>11 DEF Suffers
<1>4. CASE UNCHANGED vars
  BY <1>4 DEF vars, TypeOK
<1> QED
  BY <1>1, <1>2, <1>3, <1>4 DEF Next

-----------------------------------------------------------------------------
(* Who owes, and where the next owner starts *)

\* What spoils the order is never forgotten.
LEMMA PastGrows ==
  ASSUME TypeOK, [Next]_vars
  PROVE  past \subseteq past'
<1>1. CASE \E o \in Objects : Ask(o)
  BY <1>1 DEF Ask
<1>2. ASSUME NEW i \in Instances, Works(i)
      PROVE  past \subseteq past'
  BY <1>2 DEF Works, Assign, Bury, Consume, Respond, Deliver, Close, Restart
<1>3. ASSUME NEW i \in Instances, Suffers(i)
      PROVE  past \subseteq past'
  BY <1>3 DEF Suffers, Revoke, Expel, ConsumeUnaware, AutoCommit, RespondFails, AckLost,
     Overtake, Expire, Crash, Stop, FlushTimesOut
<1>4. CASE UNCHANGED vars
  BY <1>4 DEF vars
<1> QED
  BY <1>1, <1>2, <1>3, <1>4 DEF Next

LEMMA NextUnowned ==
  ASSUME TypeOK, Unowned, [Next]_vars
  PROVE  Unowned'
<1>1. CASE \E o \in Objects : Ask(o)
  BY <1>1 DEF Ask, Unowned
<1>2. ASSUME NEW i \in Instances, Works(i)
      PROVE  Unowned'
  <2>1. CASE Assign(i) \/ Bury(i) \/ Consume(i)
    BY <2>1, OrderAssumption DEF Assign, Bury, Consume, Unowned, TypeOK
  <2>2. CASE Respond(i) \/ Deliver(i)
    BY <2>2 DEF Respond, Deliver, Unowned
  <2>3. CASE Close(i) \/ Restart(i)
    BY <2>3 DEF Close, Restart, Unowned, TypeOK
  <2> QED
    BY <1>2, <2>1, <2>2, <2>3 DEF Works
<1>3. ASSUME NEW i \in Instances, Suffers(i)
      PROVE  Unowned'
  <2>1. CASE Revoke(i) \/ Expel(i) \/ AutoCommit(i)
    BY <2>1, OrderAssumption DEF Revoke, Expel, AutoCommit, Unowned
  <2>2. CASE \/ ConsumeUnaware(i) \/ RespondFails(i) \/ AckLost(i)
             \/ Overtake(i) \/ Expire(i) \/ FlushTimesOut(i)
    BY <2>2 DEF ConsumeUnaware, RespondFails, AckLost, Overtake, Expire, FlushTimesOut, Unowned
  <2>3. CASE Crash(i) \/ Stop(i)
    BY <2>3 DEF Crash, Stop, Unowned, TypeOK
  <2> QED
    BY <1>3, <2>1, <2>2, <2>3 DEF Suffers
<1>4. CASE UNCHANGED vars
  BY <1>4 DEF vars, Unowned
<1> QED
  BY <1>1, <1>2, <1>3, <1>4 DEF Next

\* An expelled owner that reads on spoils nothing only while it is still alone and
\* no offset is taken back.
LEMMA ReadAlone ==
  ASSUME past' = {}, NEW i \in Instances, ConsumeUnaware(i)
  PROVE  /\ owner = None /\ ~(stray[i] < position)
         /\ \A j \in Instances \ {i} : due[j] = <<>>
BY DEF ConsumeUnaware

LEMMA NextOneOwes ==
  ASSUME TypeOK, OneOwes, [Next]_vars
  PROVE  OneOwes'
<1> SUFFICES ASSUME past' = {}
             PROVE  OneOwes'
  BY DEF OneOwes
<1>0. past = {}
  BY PastGrows
<1>1. CASE \E o \in Objects : Ask(o)
  BY <1>0, <1>1 DEF Ask, OneOwes
<1>2. ASSUME NEW i \in Instances, Works(i)
      PROVE  OneOwes'
  <2>1. CASE Assign(i) \/ Bury(i)
    BY <1>0, <2>1, OrderAssumption DEF Assign, Bury, OneOwes
  <2>2. CASE Consume(i)
    BY <1>0, <2>2, OrderAssumption DEF Consume, OneOwes, TypeOK
  <2>3. CASE Respond(i) \/ Close(i) \/ Restart(i)
    BY <1>0, <2>3, OrderAssumption DEF Respond, Close, Restart, OneOwes, TypeOK
  <2>4. CASE Deliver(i)
    <3>1. due[i] # <<>>
      BY <2>4, QueueFacts DEF Deliver
    <3> QED
      BY <1>0, <2>4, <3>1 DEF Deliver, OneOwes, TypeOK
  <2> QED
    BY <1>2, <2>1, <2>2, <2>3, <2>4 DEF Works
<1>3. ASSUME NEW i \in Instances, Suffers(i)
      PROVE  OneOwes'
  <2>1. CASE Revoke(i) \/ Expel(i) \/ AutoCommit(i) \/ AckLost(i) \/ Stop(i)
    BY <1>0, <2>1 DEF Revoke, Expel, AutoCommit, AckLost, Stop, OneOwes
  <2>2. CASE RespondFails(i) \/ Overtake(i) \/ Expire(i) \/ FlushTimesOut(i)
    BY <2>2 DEF RespondFails, Overtake, Expire, FlushTimesOut
  <2>3. CASE Crash(i)
    BY <1>0, <2>3 DEF Crash, OneOwes, TypeOK
  <2>4. CASE ConsumeUnaware(i)
    <3>1. owner' = None /\ \A j \in Instances \ {i} : due'[j] = <<>>
      BY <2>4, ReadAlone DEF ConsumeUnaware, TypeOK
    <3> QED
      BY <3>1 DEF OneOwes
  <2> QED
    BY <1>3, <2>1, <2>2, <2>3, <2>4 DEF Suffers
<1>4. CASE UNCHANGED vars
  BY <1>0, <1>4 DEF vars, OneOwes
<1> QED
  BY <1>1, <1>2, <1>3, <1>4 DEF Next

-----------------------------------------------------------------------------
(* The offsets below position *)

LEMMA Below ==
  ASSUME NEW a \in Nat, NEW b \in 1..a
  PROVE  \A n \in 1..(b - 1) : n \in 1..(a - 1)
OBVIOUS

\* A step that moves no answer and reads nothing.
LEMMA Still ==
  ASSUME TypeOK, ReadOn, Kept, past = {},
         requests' = requests, results' = results, due' = due,
         position' \in 1..position
  PROVE  ReadOn' /\ Kept'
<1>1. \A n \in 1..(position' - 1) : n \in 1..(position - 1)
  <2>1. position \in Nat
    BY DEF TypeOK
  <2> QED
    BY <2>1, Below
<1>2. ReadOn'
  <2> SUFFICES ASSUME NEW i \in Instances, NEW k \in DOMAIN due'[i],
                      NEW n \in 1..(position' - 1), n > due'[i][k]
               PROVE  \E l \in DOMAIN due'[i] : l > k /\ due'[i][l] = n
    BY DEF ReadOn
  <2>1. n \in 1..(position - 1)
    BY <1>1
  <2>2. k \in DOMAIN due[i] /\ n > due[i][k]
    OBVIOUS
  <2>3. \E l \in DOMAIN due[i] : l > k /\ due[i][l] = n
    BY <2>1, <2>2 DEF ReadOn
  <2> QED
    BY <2>3
<1>3. \A n : Fresh(n) => Fresh(n)'
  BY DEF Fresh
<1>4. \A n : Owed(n) => Owed(n)'
  BY DEF Owed
<1> QED
  BY <1>1, <1>2, <1>3, <1>4 DEF Kept

\* A new request changes nothing about the older ones.
LEMMA AskStep ==
  ASSUME TypeOK, ReadOn, Kept, past = {}, NEW o \in Objects, Ask(o)
  PROVE  ReadOn' /\ Kept'
<1>1. ReadOn'
  BY DEF Ask, ReadOn
<1>2. \A n \in DOMAIN requests : n \in DOMAIN requests' /\ requests'[n] = requests[n]
  BY AppendFacts DEF Ask, TypeOK
<1>3. \A k \in DOMAIN results : results[k] \in DOMAIN requests
  BY DEF TypeOK
<1>4. \A n \in 1..(position - 1) : n \in DOMAIN requests
  BY DEF TypeOK
<1>5. \A n \in 1..(position - 1) : Fresh(n) => Fresh(n)'
  BY <1>2, <1>3, <1>4 DEF Ask, Fresh
<1>6. \A n : Owed(n) => Owed(n)'
  BY DEF Ask, Owed
<1> QED
  BY <1>1, <1>5, <1>6 DEF Ask, Kept

\* The request that is read is owed, at the very end of the one queue there is.
LEMMA ConsumeStep ==
  ASSUME TypeOK, OneOwes, ReadOn, Kept, past = {}, NEW i \in Instances, Consume(i)
  PROVE  ReadOn' /\ Kept'
<1>1. /\ due[i] \in Seq(DOMAIN requests) /\ position \in DOMAIN requests
      /\ position \in Nat /\ position' = position + 1 /\ past' = {}
      /\ due' = [due EXCEPT ![i] = Append(due[i], position)]
      /\ due \in [Instances -> Seq(DOMAIN requests)]
  BY DEF Consume, TypeOK
<1>2. /\ DOMAIN due'[i] = 1..(Len(due[i]) + 1) /\ DOMAIN due[i] = 1..Len(due[i])
      /\ Len(due[i]) \in Nat
      /\ \A k \in DOMAIN due[i] : due'[i][k] = due[i][k]
      /\ due'[i][Len(due[i]) + 1] = position
  BY <1>1, AppendFacts
<1>3. \A j \in Instances : j # i => due'[j] = due[j] /\ due[j] = <<>>
  BY <1>1, OrderAssumption DEF OneOwes, Consume
<1>4. ReadOn'
  <2> SUFFICES ASSUME NEW j \in Instances, NEW k \in DOMAIN due'[j],
                      NEW n \in 1..(position' - 1), n > due'[j][k]
               PROVE  \E l \in DOMAIN due'[j] : l > k /\ due'[j][l] = n
    BY DEF ReadOn
  <2>1. j = i
    BY <1>3
  <2>2. k \in DOMAIN due[i]
    BY <1>1, <1>2, <2>1
  <2>3. CASE n = position
    BY <1>2, <2>1, <2>2, <2>3
  <2>4. CASE n # position
    <3>1. n \in 1..(position - 1) /\ n > due[i][k]
      BY <1>1, <1>2, <2>1, <2>2, <2>4
    <3>2. PICK l \in DOMAIN due[i] : l > k /\ due[i][l] = n
      BY <2>2, <3>1 DEF ReadOn
    <3> QED
      BY <1>2, <2>1, <3>2
  <2> QED
    BY <2>3, <2>4
<1>5. ASSUME NEW n \in 1..(position' - 1)
      PROVE  Fresh(n)' \/ Owed(n)'
  <2>1. CASE n = position
    <3>1. Len(due[i]) + 1 \in DOMAIN due'[i]
      BY <1>2
    <3> QED
      BY <1>2, <2>1, <3>1 DEF Owed
  <2>2. CASE n # position
    <3>1. n \in 1..(position - 1)
      BY <1>1, <2>2
    <3>2. CASE Fresh(n)
      BY <3>2 DEF Fresh, Consume
    <3>3. CASE Owed(n)
      <4>1. PICK k \in DOMAIN due[i] : due[i][k] = n
        BY <1>3, <3>3 DEF Owed
      <4>2. k \in DOMAIN due'[i] /\ due'[i][k] = n
        BY <1>2, <4>1
      <4> QED
        BY <4>2 DEF Owed
    <3> QED
      BY <3>1, <3>2, <3>3 DEF Kept
  <2> QED
    BY <2>1, <2>2
<1> QED
  BY <1>4, <1>5 DEF Kept

\* What an expelled owner reads on is nothing that was read before.
LEMMA UnawareStep ==
  ASSUME TypeOK, ReadOn, Kept, past = {}, past' = {}, NEW i \in Instances, ConsumeUnaware(i)
  PROVE  ReadOn' /\ Kept'
<1>1. /\ due[i] \in Seq(DOMAIN requests) /\ stray[i] \in DOMAIN requests
      /\ position \in Nat /\ stray[i] \in Nat /\ position <= stray[i]
      /\ position' = position /\ requests' = requests /\ results' = results
      /\ due' = [due EXCEPT ![i] = Append(due[i], stray[i])]
      /\ due \in [Instances -> Seq(DOMAIN requests)]
  <2>1. ~(stray[i] < position)
    BY ReadAlone
  <2>2. /\ due[i] \in Seq(DOMAIN requests) /\ stray[i] \in DOMAIN requests
        /\ due \in [Instances -> Seq(DOMAIN requests)] /\ requests \in Seq(Objects)
        /\ position \in Nat
    BY DEF ConsumeUnaware, TypeOK
  <2>3. stray[i] \in Nat /\ position <= stray[i]
    BY <2>1, <2>2
  <2> QED
    BY <2>2, <2>3 DEF ConsumeUnaware
<1>2. /\ DOMAIN due'[i] = 1..(Len(due[i]) + 1) /\ DOMAIN due[i] = 1..Len(due[i])
      /\ Len(due[i]) \in Nat
      /\ \A k \in DOMAIN due[i] : due'[i][k] = due[i][k]
      /\ due'[i][Len(due[i]) + 1] = stray[i]
  BY <1>1, AppendFacts
<1>3. \A j \in Instances : \A k \in DOMAIN due[j] : k \in DOMAIN due'[j] /\ due'[j][k] = due[j][k]
  BY <1>1, <1>2
<1>4. ReadOn'
  <2> SUFFICES ASSUME NEW j \in Instances, NEW k \in DOMAIN due'[j],
                      NEW n \in 1..(position' - 1), n > due'[j][k]
               PROVE  \E l \in DOMAIN due'[j] : l > k /\ due'[j][l] = n
    BY DEF ReadOn
  <2>1. n \in 1..(position - 1)
    BY <1>1
  <2>2. k \in DOMAIN due[j] /\ n > due[j][k]
    BY <1>1, <1>2, <2>1
  <2>3. PICK l \in DOMAIN due[j] : l > k /\ due[j][l] = n
    BY <2>1, <2>2 DEF ReadOn
  <2> QED
    BY <1>3, <2>3
<1>5. \A n : Fresh(n) => Fresh(n)'
  BY <1>1 DEF Fresh
<1>6. \A n : Owed(n) => Owed(n)'
  <2> SUFFICES ASSUME NEW n, Owed(n)
               PROVE  Owed(n)'
    OBVIOUS
  <2>1. PICK j \in Instances : \E k \in DOMAIN due[j] : due[j][k] = n
    BY DEF Owed
  <2>2. PICK k \in DOMAIN due[j] : due[j][k] = n
    BY <2>1
  <2>3. k \in DOMAIN due'[j] /\ due'[j][k] = n
    BY <1>3, <2>2
  <2> QED
    BY <2>3 DEF Owed
<1> QED
  BY <1>1, <1>4, <1>5, <1>6 DEF Kept

\* One more answer on the result topic: what was fresh stays fresh, unless the
\* answer is an older one about the same object.
LEMMA OneMoreResult ==
  ASSUME TypeOK, NEW m \in DOMAIN requests, results' = Append(results, m),
         requests' = requests,
         NEW n \in DOMAIN requests, Fresh(n) \/ n = m, m >= n
  PROVE  Fresh(n)'
<1>1. /\ results \in Seq(DOMAIN requests) /\ m \in Nat /\ n \in Nat
      /\ Len(results) \in Nat
  BY DEF TypeOK
<1>2. /\ DOMAIN results' = 1..(Len(results) + 1) /\ DOMAIN results = 1..Len(results)
      /\ \A k \in DOMAIN results : results'[k] = results[k]
      /\ results'[Len(results) + 1] = m
  BY <1>1, AppendFacts
<1>3. CASE requests[m] = requests[n]
  <2>1. Len(results) + 1 \in DOMAIN results'
    BY <1>1, <1>2
  <2>2. \A l \in DOMAIN results' : ~(l > Len(results) + 1)
    BY <1>1, <1>2
  <2> QED
    BY <1>2, <1>3, <2>1, <2>2 DEF Fresh
<1>4. CASE requests[m] # requests[n]
  <2>1. PICK k \in DOMAIN results :
          /\ results[k] >= n /\ requests[results[k]] = requests[n]
          /\ \A l \in DOMAIN results :
               l > k => requests[results[l]] # requests[n] \/ results[l] >= n
    BY <1>4 DEF Fresh
  <2>2. k \in DOMAIN results' /\ results'[k] = results[k]
    BY <1>1, <1>2
  <2>3. ASSUME NEW l \in DOMAIN results', l > k
        PROVE  requests[results'[l]] # requests[n] \/ results'[l] >= n
    <3>1. CASE l = Len(results) + 1
      BY <1>2, <1>4, <3>1
    <3>2. CASE l # Len(results) + 1
      <4>1. l \in DOMAIN results
        BY <1>1, <1>2, <3>2
      <4> QED
        BY <1>2, <2>1, <2>3, <4>1
    <3> QED
      BY <3>1, <3>2
  <2> QED
    BY <2>1, <2>2, <2>3 DEF Fresh
<1> QED
  BY <1>3, <1>4

\* A younger answer, or one about another object, spoils nothing either way.
LEMMA FreshOrOwed ==
  ASSUME TypeOK, ReadOn, Kept, past = {}, NEW i \in Instances, due[i] # <<>>,
         results' = Append(results, Head(due[i])), requests' = requests,
         NEW n \in 1..(position - 1)
  PROVE  \/ Fresh(n)' /\ (n = due[i][1] \/ Fresh(n))
         \/ \E l \in DOMAIN due[i] : l > 1 /\ due[i][l] = n
         \/ \E j \in Instances \ {i} : \E l \in DOMAIN due[j] : due[j][l] = n
<1>1. /\ due[i] \in Seq(DOMAIN requests) /\ Head(due[i]) = due[i][1]
      /\ 1 \in DOMAIN due[i] /\ due[i][1] \in DOMAIN requests
      /\ DOMAIN due[i] = 1..Len(due[i])
  BY TailFacts DEF TypeOK
<1>2. n \in DOMAIN requests /\ DOMAIN requests \subseteq Nat
  BY DEF TypeOK
<1>3. due[i][1] \in Nat /\ n \in Nat
  BY <1>1, <1>2
<1>4. CASE n > due[i][1]
  BY <1>1, <1>4 DEF ReadOn
<1>5. CASE n = due[i][1]
  BY <1>1, <1>2, <1>3, <1>5, OneMoreResult
<1>6. CASE n < due[i][1]
  <2>1. CASE Fresh(n)
    BY <1>1, <1>2, <1>3, <1>6, <2>1, OneMoreResult
  <2>2. CASE Owed(n)
    <3>1. PICK j \in Instances : \E l \in DOMAIN due[j] : due[j][l] = n
      BY <2>2 DEF Owed
    <3>2. CASE j # i
      BY <3>1, <3>2
    <3>3. CASE j = i
      <4>1. PICK l \in DOMAIN due[i] : due[i][l] = n
        BY <3>1, <3>3
      <4>2. l # 1
        BY <1>3, <1>6, <4>1
      <4>3. l > 1
        BY <1>1, <4>2
      <4> QED
        BY <4>1, <4>3
    <3> QED
      BY <3>2, <3>3
  <2> QED
    BY <2>1, <2>2 DEF Kept
<1> QED
  BY <1>3, <1>4, <1>5, <1>6

LEMMA AckLostStep ==
  ASSUME TypeOK, ReadOn, Kept, past = {}, NEW i \in Instances, AckLost(i)
  PROVE  ReadOn' /\ Kept'
<1>1. due[i] # <<>>
  BY QueueFacts DEF AckLost
<1>2. results' = Append(results, Head(due[i])) /\ requests' = requests
      /\ due' = due /\ position' = position
  BY DEF AckLost
<1>3. ReadOn'
  BY <1>2 DEF ReadOn
<1>4. ASSUME NEW n \in 1..(position - 1)
      PROVE  Fresh(n)' \/ Owed(n)'
  BY <1>1, <1>2, FreshOrOwed DEF Owed
<1> QED
  BY <1>2, <1>3, <1>4 DEF Kept

LEMMA DeliverStep ==
  ASSUME TypeOK, ReadOn, Kept, past = {}, NEW i \in Instances, Deliver(i)
  PROVE  ReadOn' /\ Kept'
<1>1. due[i] # <<>> /\ due[i] \in Seq(DOMAIN requests)
  BY QueueFacts DEF Deliver
<1>2. /\ results' = Append(results, Head(due[i])) /\ requests' = requests
      /\ position' = position
      /\ due' = [due EXCEPT ![i] = Tail(due[i])]
      /\ due \in [Instances -> Seq(DOMAIN requests)]
  BY DEF Deliver, TypeOK
<1>3. /\ DOMAIN due'[i] = 1..(Len(due[i]) - 1) /\ DOMAIN due[i] = 1..Len(due[i])
      /\ Len(due[i]) \in Nat
      /\ \A k \in DOMAIN due'[i] : due'[i][k] = due[i][k + 1]
  BY <1>1, <1>2, TailFacts
<1>4. \A j \in Instances \ {i} : due'[j] = due[j]
  BY <1>2
<1>5. \A l \in DOMAIN due[i] : l > 1 => l - 1 \in DOMAIN due'[i] /\ due'[i][l - 1] = due[i][l]
  BY <1>3
<1>6. ReadOn'
  <2> SUFFICES ASSUME NEW j \in Instances, NEW k \in DOMAIN due'[j],
                      NEW n \in 1..(position - 1), n > due'[j][k]
               PROVE  \E l \in DOMAIN due'[j] : l > k /\ due'[j][l] = n
    BY <1>2 DEF ReadOn
  <2>1. CASE j # i
    BY <1>4, <2>1 DEF ReadOn
  <2>2. CASE j = i
    <3>1. k + 1 \in DOMAIN due[i] /\ due[i][k + 1] = due'[i][k] /\ k \in Nat /\ k >= 1
      BY <1>3, <2>2
    <3>2. PICK l \in DOMAIN due[i] : l > k + 1 /\ due[i][l] = n
      BY <2>2, <3>1 DEF ReadOn
    <3>3. l > 1 /\ l - 1 > k
      BY <1>3, <3>1, <3>2
    <3> QED
      BY <1>5, <2>2, <3>2, <3>3
  <2> QED
    BY <2>1, <2>2
<1>7. ASSUME NEW n \in 1..(position - 1)
      PROVE  Fresh(n)' \/ Owed(n)'
  <2>1. CASE \E l \in DOMAIN due[i] : l > 1 /\ due[i][l] = n
    BY <1>5, <2>1 DEF Owed
  <2>2. CASE \E j \in Instances \ {i} : \E l \in DOMAIN due[j] : due[j][l] = n
    BY <1>4, <2>2 DEF Owed
  <2> QED
    BY <1>1, <1>2, <2>1, <2>2, FreshOrOwed
<1> QED
  BY <1>2, <1>6, <1>7 DEF Kept

\* A crash takes with it only what will be read again.
LEMMA CrashStep ==
  ASSUME TypeOK, Unowned, OneOwes, ReadOn, Kept, past = {}, past' = {},
         NEW i \in Instances, Crash(i)
  PROVE  ReadOn' /\ Kept'
<1>a. /\ due \in [Instances -> Seq(DOMAIN requests)]
      /\ position \in Nat /\ committed \in 1..position
  BY DEF TypeOK
<1>b. \A k \in DOMAIN due[i] : due[i][k] \in DOMAIN requests
  <2>1. due[i] \in Seq(DOMAIN requests)
    BY <1>a
  <2> QED
    BY <2>1
<1>c. ~ \E k \in DOMAIN due[i] : due[i][k] < committed
  <2> SUFFICES ASSUME \E k \in DOMAIN due[i] : due[i][k] < committed
               PROVE  FALSE
    OBVIOUS
  <2>1. past' = past \cup {"loss"}
    BY DEF Crash
  <2> QED
    BY <2>1
<1>1. /\ results' = results /\ requests' = requests
      /\ due' = [due EXCEPT ![i] = <<>>] /\ due \in [Instances -> Seq(DOMAIN requests)]
      /\ position \in Nat /\ committed \in 1..position
      /\ \A k \in DOMAIN due[i] : due[i][k] \in DOMAIN requests /\ ~(due[i][k] < committed)
  BY <1>a, <1>b, <1>c DEF Crash
<1>2. CASE due[i] = <<>>
  <2>1. due' = due
    BY <1>1, <1>2
  <2>2. position' \in 1..position
    BY <1>1 DEF Crash, TypeOK
  <2> QED
    BY <1>1, <2>1, <2>2, Still
<1>3. CASE due[i] # <<>>
  <2>1. position' = committed
    BY <1>3, OrderAssumption DEF OneOwes, Crash, Unowned
  <2>2. \A j \in Instances : due'[j] = <<>>
    BY <1>1, <1>3 DEF OneOwes
  <2>3. ReadOn'
    BY <2>2 DEF ReadOn
  <2>4. ASSUME NEW n \in 1..(committed - 1)
        PROVE  Fresh(n)'
    <3>1. n \in 1..(position - 1) /\ n < committed
      BY <1>1
    <3>2. \A j \in Instances : j # i => due[j] = <<>>
      BY <1>3 DEF OneOwes
    <3>3. ~Owed(n)
      BY <1>1, <3>1, <3>2 DEF Owed
    <3>4. Fresh(n)
      BY <3>1, <3>3 DEF Kept
    <3> QED
      BY <1>1, <3>4 DEF Fresh
  <2> QED
    BY <2>1, <2>3, <2>4 DEF Kept
<1> QED
  BY <1>2, <1>3

LEMMA NextOrder ==
  ASSUME TypeOK, Unowned, OneOwes, ReadOn, Kept, [Next]_vars
  PROVE  ReadOn' /\ Kept'
<1> SUFFICES ASSUME past' = {}
             PROVE  ReadOn' /\ Kept'
  BY DEF ReadOn, Kept
<1>0. past = {} /\ position \in 1..position /\ committed \in 1..position
  BY PastGrows DEF TypeOK
<1>1. CASE \E o \in Objects : Ask(o)
  BY <1>0, <1>1, AskStep
<1>2. ASSUME NEW i \in Instances, Works(i)
      PROVE  ReadOn' /\ Kept'
  <2>1. CASE Assign(i) \/ Bury(i) \/ Respond(i) \/ Close(i) \/ Restart(i)
    BY <1>0, <2>1, Still DEF Assign, Bury, Respond, Close, Restart
  <2>2. CASE Consume(i)
    BY <1>0, <2>2, ConsumeStep
  <2>3. CASE Deliver(i)
    BY <1>0, <2>3, DeliverStep
  <2> QED
    BY <1>2, <2>1, <2>2, <2>3 DEF Works
<1>3. ASSUME NEW i \in Instances, Suffers(i)
      PROVE  ReadOn' /\ Kept'
  <2>1. CASE Revoke(i) \/ Expel(i) \/ AutoCommit(i) \/ Stop(i)
    BY <1>0, <2>1, Still DEF Revoke, Expel, AutoCommit, Stop
  <2>2. CASE RespondFails(i) \/ Overtake(i) \/ Expire(i) \/ FlushTimesOut(i)
    BY <2>2 DEF RespondFails, Overtake, Expire, FlushTimesOut
  <2>3. CASE AckLost(i)
    BY <1>0, <2>3, AckLostStep
  <2>4. CASE Crash(i)
    BY <1>0, <2>4, CrashStep
  <2>5. CASE ConsumeUnaware(i)
    BY <1>0, <2>5, UnawareStep
  <2> QED
    BY <1>3, <2>1, <2>2, <2>3, <2>4, <2>5 DEF Suffers
<1>4. CASE UNCHANGED vars
  BY <1>0, <1>4, Still DEF vars
<1> QED
  BY <1>1, <1>2, <1>3, <1>4 DEF Next

-----------------------------------------------------------------------------
(***************************************************************************)
(* Nobody is left out, whatever happens to the order.  What was committed  *)
(* is answered or owed by somebody.  What was read since is the owner's    *)
(* own: when the owner is gone it is read again, and when somebody else is *)
(* gone nothing of it is.                                                  *)
(***************************************************************************)

OwedBy(i, n) == \E k \in DOMAIN due[i] : due[i][k] = n

NoneDropped ==
  "loss" \notin past =>
    /\ \A n \in 1..(committed - 1) : Answered(n) \/ \E i \in Instances : OwedBy(i, n)
    /\ \A n \in committed..(position - 1) :
         Answered(n) \/ (owner \in Instances /\ OwedBy(owner, n))

LEMMA AnsweredStays ==
  ASSUME TypeOK,
         \A m \in DOMAIN requests : m \in DOMAIN requests' /\ requests'[m] = requests[m],
         \A k \in DOMAIN results : k \in DOMAIN results' /\ results'[k] = results[k],
         NEW n \in DOMAIN requests, Answered(n)
  PROVE  Answered(n)'
<1>1. \A k \in DOMAIN results : results[k] \in DOMAIN requests
  BY DEF TypeOK
<1> QED
  BY <1>1 DEF Answered

\* An answer more.
LEMMA NewAnswer ==
  ASSUME TypeOK, requests' = requests, NEW m \in DOMAIN requests,
         results' = Append(results, m)
  PROVE  /\ Answered(m)'
         /\ \A n \in DOMAIN requests : Answered(n) => Answered(n)'
<1>1. /\ results \in Seq(DOMAIN requests) /\ m \in Nat
      /\ \A k \in DOMAIN results : k \in DOMAIN results' /\ results'[k] = results[k]
      /\ Len(results) + 1 \in DOMAIN results' /\ results'[Len(results) + 1] = m
  BY AppendFacts DEF TypeOK
<1>2. Answered(m)'
  BY <1>1 DEF Answered
<1>3. \A n \in DOMAIN requests : Answered(n) => Answered(n)'
  BY <1>1, AnsweredStays
<1> QED
  BY <1>2, <1>3

\* The offsets that NoneDropped is about are requests.
LEMMA ReadOffsets ==
  ASSUME TypeOK
  PROVE  /\ \A n \in 1..(position - 1) : n \in DOMAIN requests
         /\ \A n \in 1..(committed - 1) : n \in 1..(position - 1)
         /\ \A n \in committed..(position - 1) : n \in 1..(position - 1)
         /\ committed \in Nat /\ position \in Nat /\ committed <= position
         /\ \A n \in 1..(position - 1) : n \in 1..(committed - 1) \/ n \in committed..(position - 1)
BY DEF TypeOK

\* Who has the partition, and from where it is read: nothing is answered or
\* dropped.
LEMMA HandedOn ==
  ASSUME TypeOK, NoneDropped, "loss" \notin past,
         requests' = requests, results' = results, due' = due,
         committed' \in {committed, position},
         position' = position \/ position' = committed',
         position' = committed' \/ owner' = owner
  PROVE  NoneDropped'
<1>1. \A n : (Answered(n) <=> Answered(n)') /\ \A i : OwedBy(i, n) <=> OwedBy(i, n)'
  BY DEF Answered, OwedBy
<1>2. \A n \in 1..(committed' - 1) : Answered(n) \/ \E i \in Instances : OwedBy(i, n)
  <2>1. CASE committed' = committed
    BY <2>1 DEF NoneDropped
  <2>2. CASE committed' = position
    BY <2>2, ReadOffsets DEF NoneDropped
  <2> QED
    BY <2>1, <2>2
<1>3. \A n \in committed'..(position' - 1) :
        Answered(n) \/ (owner' \in Instances /\ OwedBy(owner', n))
  <2> SUFFICES ASSUME NEW n \in committed'..(position' - 1)
               PROVE  Answered(n) \/ (owner' \in Instances /\ OwedBy(owner', n))
    OBVIOUS
  <2>1. committed' # position'
    BY ReadOffsets
  <2>2. owner' = owner /\ position' = position /\ committed' = committed
    BY <2>1
  <2> QED
    BY <2>2 DEF NoneDropped
<1> QED
  BY <1>1, <1>2, <1>3 DEF NoneDropped

\* What is owed stays owed, or is answered.
LEMMA PaidOff ==
  ASSUME TypeOK, NoneDropped, "loss" \notin past, requests' = requests,
         owner' = owner, committed' = committed, position' = position,
         \A n \in DOMAIN requests : Answered(n) => Answered(n)',
         \A i \in Instances : \A n \in DOMAIN requests :
           OwedBy(i, n) => OwedBy(i, n)' \/ Answered(n)'
  PROVE  NoneDropped'
<1>1. \A n \in 1..(committed - 1) : Answered(n)' \/ \E i \in Instances : OwedBy(i, n)'
  BY ReadOffsets DEF NoneDropped
<1>2. \A n \in committed..(position - 1) :
        Answered(n)' \/ (owner \in Instances /\ OwedBy(owner, n)')
  BY ReadOffsets DEF NoneDropped
<1> QED
  BY <1>1, <1>2 DEF NoneDropped

LEMMA AskedLater ==
  ASSUME TypeOK, NoneDropped, "loss" \notin past, NEW o \in Objects, Ask(o)
  PROVE  NoneDropped'
<1>1. /\ \A m \in DOMAIN requests : m \in DOMAIN requests' /\ requests'[m] = requests[m]
      /\ results' = results /\ due' = due /\ owner' = owner
      /\ committed' = committed /\ position' = position
  BY AppendFacts DEF Ask, TypeOK
<1>2. \A n \in DOMAIN requests : Answered(n) => Answered(n)'
  BY <1>1, AnsweredStays
<1>3. \A i : \A n : OwedBy(i, n) => OwedBy(i, n)'
  BY <1>1 DEF OwedBy
<1> QED
  BY <1>1, <1>2, <1>3, ReadOffsets DEF NoneDropped

\* What is read is owed by the owner.
LEMMA ReadOwed ==
  ASSUME TypeOK, NoneDropped, "loss" \notin past, NEW i \in Instances, Consume(i)
  PROVE  NoneDropped'
<1>1. /\ owner = i /\ owner' = i /\ committed' = committed /\ position' = position + 1
      /\ requests' = requests /\ results' = results /\ position \in DOMAIN requests
      /\ due[i] \in Seq(DOMAIN requests)
      /\ due' = [due EXCEPT ![i] = Append(due[i], position)]
      /\ due \in [Instances -> Seq(DOMAIN requests)]
  BY DEF Consume, TypeOK
<1>2. \A n : Answered(n) => Answered(n)'
  BY <1>1 DEF Answered
<1>3. /\ \A k \in DOMAIN due[i] : k \in DOMAIN due'[i] /\ due'[i][k] = due[i][k]
      /\ Len(due[i]) + 1 \in DOMAIN due'[i] /\ due'[i][Len(due[i]) + 1] = position
  BY <1>1, AppendFacts
<1>4. \A j \in Instances : \A n : OwedBy(j, n) => OwedBy(j, n)'
  BY <1>1, <1>3 DEF OwedBy
<1>5. \A n : n = position => OwedBy(i, n)'
  BY <1>1, <1>3 DEF OwedBy
<1>6. \A n \in committed'..(position' - 1) : n \in committed..(position - 1) \/ n = position
  BY <1>1, ReadOffsets
<1> QED
  BY <1>1, <1>2, <1>4, <1>5, <1>6 DEF NoneDropped

LEMMA ReadOwedUnaware ==
  ASSUME TypeOK, NoneDropped, "loss" \notin past, NEW i \in Instances, ConsumeUnaware(i)
  PROVE  NoneDropped'
<1>1. /\ owner' = owner /\ committed' = committed /\ position' = position
      /\ requests' = requests /\ results' = results /\ stray[i] \in DOMAIN requests
      /\ due[i] \in Seq(DOMAIN requests)
      /\ due' = [due EXCEPT ![i] = Append(due[i], stray[i])]
      /\ due \in [Instances -> Seq(DOMAIN requests)]
  BY DEF ConsumeUnaware, TypeOK
<1>2. \A n : Answered(n) => Answered(n)'
  BY <1>1 DEF Answered
<1>3. \A k \in DOMAIN due[i] : k \in DOMAIN due'[i] /\ due'[i][k] = due[i][k]
  BY <1>1, AppendFacts
<1>4. \A j \in Instances : \A n : OwedBy(j, n) => OwedBy(j, n)'
  BY <1>1, <1>3 DEF OwedBy
<1> QED
  BY <1>1, <1>2, <1>4, PaidOff

LEMMA PaidOne ==
  ASSUME TypeOK, NoneDropped, "loss" \notin past, NEW i \in Instances,
         Deliver(i) \/ AckLost(i)
  PROVE  NoneDropped'
<1>1. due[i] # <<>> /\ due[i] \in Seq(DOMAIN requests)
  BY QueueFacts DEF Deliver, AckLost
<1>2. /\ Head(due[i]) = due[i][1] /\ Head(due[i]) \in DOMAIN requests
      /\ DOMAIN Tail(due[i]) = 1..(Len(due[i]) - 1) /\ DOMAIN due[i] = 1..Len(due[i])
      /\ \A k \in DOMAIN Tail(due[i]) : Tail(due[i])[k] = due[i][k + 1]
  BY <1>1, TailFacts
<1>3. /\ requests' = requests /\ results' = Append(results, Head(due[i]))
      /\ owner' = owner /\ committed' = committed /\ position' = position
      /\ due' \in {due, [due EXCEPT ![i] = Tail(due[i])]}
      /\ due \in [Instances -> Seq(DOMAIN requests)]
  BY DEF Deliver, AckLost, TypeOK
<1>4. /\ \A n \in DOMAIN requests : Answered(n) => Answered(n)'
      /\ \A n : n = due[i][1] => Answered(n)'
  BY <1>2, <1>3, NewAnswer
<1>5. ASSUME NEW j \in Instances, NEW n \in DOMAIN requests, OwedBy(j, n)
      PROVE  OwedBy(j, n)' \/ Answered(n)'
  <2>1. CASE due' = due \/ j # i
    BY <1>3, <1>5, <2>1 DEF OwedBy
  <2>2. CASE due'[i] = Tail(due[i]) /\ j = i
    <3>1. PICK k \in DOMAIN due[i] : due[i][k] = n
      BY <1>5, <2>2 DEF OwedBy
    <3>2. CASE k = 1
      BY <1>4, <3>1, <3>2
    <3>3. CASE k # 1
      <4>1. k - 1 \in DOMAIN Tail(due[i]) /\ Tail(due[i])[k - 1] = n
        BY <1>1, <1>2, <3>1, <3>3
      <4> QED
        BY <2>2, <4>1 DEF OwedBy
    <3> QED
      BY <3>2, <3>3
  <2> QED
    BY <1>3, <2>1, <2>2
<1> QED
  BY <1>3, <1>4, <1>5, PaidOff

LEMMA PaidOutOfTurn ==
  ASSUME TypeOK, NoneDropped, "loss" \notin past, NEW i \in Instances, Overtake(i)
  PROVE  NoneDropped'
<1>1. due[i] \in Seq(DOMAIN requests) /\ due \in [Instances -> Seq(DOMAIN requests)]
      /\ busy[i] \in BOOLEAN
  BY DEF TypeOK
<1>2. Len(due[i]) \in Nat /\ Len(due[i]) > 1 /\ due[i][2] \in DOMAIN requests
      /\ due[i][1] \in DOMAIN requests
  BY <1>1 DEF Overtake, Queue
<1> DEFINE rest == <<due[i][1]>> \o SubSeq(due[i], 3, Len(due[i]))
<1>3. /\ 1 \in DOMAIN rest /\ rest[1] = due[i][1]
      /\ \A k \in 3..Len(due[i]) : k - 1 \in DOMAIN rest /\ rest[k - 1] = due[i][k]
  BY <1>1, <1>2
<1>4. /\ requests' = requests /\ results' = Append(results, due[i][2])
      /\ owner' = owner /\ committed' = committed /\ position' = position
      /\ due' = [due EXCEPT ![i] = rest]
  BY DEF Overtake
<1> HIDE DEF rest
<1>5. /\ \A n \in DOMAIN requests : Answered(n) => Answered(n)'
      /\ \A n : n = due[i][2] => Answered(n)'
  BY <1>2, <1>4, NewAnswer
<1>6. ASSUME NEW j \in Instances, NEW n \in DOMAIN requests, OwedBy(j, n)
      PROVE  OwedBy(j, n)' \/ Answered(n)'
  <2>1. CASE j # i
    BY <1>1, <1>4, <1>6, <2>1 DEF OwedBy
  <2>2. CASE j = i
    <3>1. PICK k \in DOMAIN due[i] : due[i][k] = n
      BY <1>6, <2>2 DEF OwedBy
    <3>2. due'[i] = rest
      BY <1>1, <1>4
    <3>3. k = 1 \/ k = 2 \/ k \in 3..Len(due[i])
      BY <1>1, <3>1
    <3> QED
      BY <1>3, <1>5, <2>2, <3>1, <3>2, <3>3 DEF OwedBy
  <2> QED
    BY <2>1, <2>2
<1> QED
  BY <1>4, <1>5, <1>6, PaidOff

\* A crash that loses nothing: what the instance owed is not committed.
LEMMA CrashDropsNone ==
  ASSUME TypeOK, Unowned, NoneDropped, "loss" \notin past', NEW i \in Instances, Crash(i)
  PROVE  NoneDropped'
<1>1. /\ "loss" \notin past /\ \A k \in DOMAIN due[i] : ~(due[i][k] < committed)
      /\ requests' = requests /\ results' = results /\ owner' = owner
      /\ committed' = committed
      /\ position' = IF owner = i THEN committed ELSE position
      /\ due' = [due EXCEPT ![i] = <<>>] /\ due \in [Instances -> Seq(DOMAIN requests)]
  <2>1. ~ \E k \in DOMAIN due[i] : due[i][k] < committed
    BY DEF Crash
  <2> QED
    BY <2>1 DEF Crash, TypeOK
<1>2. \A n : Answered(n) => Answered(n)'
  BY <1>1 DEF Answered
<1>3. \A j \in Instances : j # i => \A n : OwedBy(j, n) => OwedBy(j, n)'
  BY <1>1 DEF OwedBy
<1>4. \A n \in 1..(committed - 1) : Answered(n)' \/ \E j \in Instances : OwedBy(j, n)'
  <2> SUFFICES ASSUME NEW n \in 1..(committed - 1)
               PROVE  Answered(n)' \/ \E j \in Instances : OwedBy(j, n)'
    OBVIOUS
  <2>1. n < committed
    BY ReadOffsets
  <2>2. ~OwedBy(i, n)
    BY <1>1, <2>1 DEF OwedBy
  <2> QED
    BY <1>1, <1>2, <1>3, <2>2 DEF NoneDropped
<1>5. \A n \in committed..(position' - 1) :
        Answered(n)' \/ (owner \in Instances /\ OwedBy(owner, n)')
  <2>1. CASE owner = i
    <3>1. \A n \in committed..(position' - 1) : FALSE
      BY <1>1, <2>1, ReadOffsets
    <3> QED
      BY <3>1
  <2>2. CASE owner # i
    BY <1>1, <1>2, <1>3, <2>2 DEF NoneDropped
  <2> QED
    BY <2>1, <2>2
<1> QED
  BY <1>1, <1>4, <1>5 DEF NoneDropped

LEMMA NextNoneDropped ==
  ASSUME TypeOK, Unowned, NoneDropped, [Next]_vars
  PROVE  NoneDropped'
<1> SUFFICES ASSUME "loss" \notin past'
             PROVE  NoneDropped'
  BY DEF NoneDropped
<1>0. "loss" \notin past
  BY PastGrows
<1>1. CASE \E o \in Objects : Ask(o)
  BY <1>0, <1>1, AskedLater
<1>2. ASSUME NEW i \in Instances, Works(i)
      PROVE  NoneDropped'
  <2>1. CASE Assign(i) \/ Bury(i)
    <3>1. position = committed
      BY <2>1 DEF Assign, Bury, Unowned
    <3> QED
      BY <1>0, <2>1, <3>1, HandedOn DEF Assign, Bury
  <2>2. CASE Consume(i)
    BY <1>0, <2>2, ReadOwed
  <2>3. CASE Respond(i) \/ Restart(i)
    BY <1>0, <2>3, HandedOn DEF Respond, Restart
  <2>4. CASE Deliver(i)
    BY <1>0, <2>4, PaidOne
  <2>5. CASE Close(i)
    BY <1>0, <2>5, HandedOn DEF Close
  <2> QED
    BY <1>2, <2>1, <2>2, <2>3, <2>4, <2>5 DEF Works
<1>3. ASSUME NEW i \in Instances, Suffers(i)
      PROVE  NoneDropped'
  <2>1. CASE Revoke(i) \/ Expel(i) \/ AutoCommit(i) \/ Stop(i)
    BY <1>0, <2>1, HandedOn DEF Revoke, Expel, AutoCommit, Stop
  <2>2. CASE RespondFails(i) \/ Expire(i) \/ FlushTimesOut(i)
    BY <2>2 DEF RespondFails, Expire, FlushTimesOut
  <2>3. CASE AckLost(i)
    BY <1>0, <2>3, PaidOne
  <2>4. CASE Overtake(i)
    BY <1>0, <2>4, PaidOutOfTurn
  <2>5. CASE Crash(i)
    BY <2>5, CrashDropsNone
  <2>6. CASE ConsumeUnaware(i)
    BY <1>0, <2>6, ReadOwedUnaware
  <2> QED
    BY <1>3, <2>1, <2>2, <2>3, <2>4, <2>5, <2>6 DEF Suffers
<1>4. CASE UNCHANGED vars
  BY <1>0, <1>4, HandedOn DEF vars
<1> QED
  BY <1>1, <1>2, <1>3, <1>4 DEF Next

-----------------------------------------------------------------------------

LEMMA NextIInv == IInv /\ [Next]_vars => IInv'
BY NextTypes, NextUnowned, NextOneOwes, NextOrder DEF IInv

\* Offsets, queues and modes stay in range for any number of instances.
THEOREM OrderTypes == Spec => []TypeOK
<1>1. IInv => TypeOK
  BY DEF IInv
<1> QED
  BY <1>1, InitIInv, NextIInv, PTL DEF Spec

\* However often the partition moves and is read again, the last answer about an
\* object ends up being the one to its newest request, unless an answer was
\* lost, overtaken, or owed or read on by an earlier owner.
THEOREM NewestAnswerLast == Spec => []LastAnswerIsNewest
<1>1. IInv => LastAnswerIsNewest
  <2> SUFFICES ASSUME IInv, Settled, past = {}, NEW n \in DOMAIN requests
               PROVE  Fresh(n)
    BY DEF LastAnswerIsNewest
  <2>1. n \in 1..(position - 1)
    BY DEF Settled, IInv, TypeOK
  <2>2. ~Owed(n)
    BY DEF Owed, Settled
  <2> QED
    BY <2>1, <2>2 DEF IInv, Kept
<1> QED
  BY <1>1, InitIInv, NextIInv, PTL DEF Spec

\* Once everything is read and nobody owes anything, no request is without its
\* answer or a younger one about its object, unless an answer was lost: two
\* owners may overlap and answers overtake one another.
THEOREM NobodyLeftOut == Spec => []NoneLeftOut
<1>1. Init => NoneDropped
  BY DEF Init, NoneDropped
<1>2. IInv /\ NoneDropped /\ [Next]_vars => NoneDropped'
  BY NextNoneDropped DEF IInv
<1>3. IInv /\ NoneDropped => NoneLeftOut
  <2> SUFFICES ASSUME IInv, NoneDropped, Settled, "loss" \notin past,
                      NEW n \in DOMAIN requests
               PROVE  Answered(n)
    BY DEF NoneLeftOut
  <2>1. n \in 1..(position - 1) /\ TypeOK
    BY DEF Settled, IInv, TypeOK
  <2>2. \A i \in Instances : ~OwedBy(i, n)
    BY DEF OwedBy, Settled
  <2> QED
    BY <2>1, <2>2, ReadOffsets DEF NoneDropped
<1> QED
  BY <1>1, <1>2, <1>3, InitIInv, NextIInv, PTL DEF Spec
=============================================================================
