------------------------ MODULE ProcessMessage_proofs ------------------------
(***************************************************************************)
(* Proofs about ProcessMessage: the call runs the stages of TextPipeline   *)
(* as they are, and its early returns are the ones ModerationMessages has. *)
(***************************************************************************)
EXTENDS ProcessMessage, TextVerdict_proofs

-----------------------------------------------------------------------------
(* The composition: a step of the call is a step of the pipeline or leaves  *)
(* it alone.                                                                *)

LEMMA CallStep == [CallNext]_allVars => [Next]_vars
<1> SUFFICES ASSUME [CallNext]_allVars
             PROVE  [Next]_vars
  OBVIOUS
<1>1. CASE TextStep \/ TextThrows
  BY <1>1 DEF TextStep, TextThrows, Next
<1>2. CASE ReadKey \/ RefuseKey \/ ParsePayload \/ CheckType
  BY <1>2 DEF ReadKey, RefuseKey, ParsePayload, CheckType
<1>3. CASE TextReturns \/ Respond \/ Callback
  BY <1>3 DEF TextReturns, Respond, Callback
<1>4. CASE UNCHANGED allVars
  BY <1>4 DEF allVars
<1> QED
  BY <1>1, <1>2, <1>3, <1>4 DEF CallNext, CallForward

\* ProcessMessage calls TextProcessing and does nothing else to it.
THEOREM CallRunsTheStages == CallSpec => Spec
<1>1. CallInit => Init
  BY DEF CallInit
<1> QED
  BY <1>1, CallStep, PTL DEF CallSpec, Spec

\* So what the stages owe one another they give it within the call as well.
THEOREM StagesWithinTheCall == CallSpec => []NothingUndone
BY CallRunsTheStages, StagesRelyOnOneAnother, PTL

-----------------------------------------------------------------------------
(* The early returns. *)

\* What the statements before this one have established.
Passed ==
  /\ at \in {"payload", "type", "text", "respond", "callback", "done"}
       => Readable(message.key)
  /\ at \in {"type", "text", "respond", "callback", "done"} => message.parses
  /\ at \in {"text", "respond", "callback", "done"} => Moderated(message.type)

\* There is a verdict only once TextProcessing has been called, and after it
\* returned the verdict is not that it threw.
VerdictInTime ==
  /\ at \in {"key", "payload", "type"} => verdict = "none"
  /\ at \in {"respond", "callback", "done"} => verdict # "threw"

CInv ==
  /\ at \in Statements
  /\ message \in Incoming
  /\ Passed
  /\ VerdictInTime
  /\ at = "dropped" => (Promise!Acceptable(Taken) <=> verdict = "threw")

\* The one-step account takes a message exactly when none of the early returns
\* does.
LEMMA AcceptableMeans ==
  ASSUME message \in Incoming
  PROVE  Promise!Acceptable(Taken) <=>
           Readable(message.key) /\ message.parses /\ Moderated(message.type)
<1>1. message.type \in WireTypes
  BY MessageAssumption
<1>2. Promise!KeyAccepted(Taken) <=> Readable(message.key)
  <2>1. ASSUME Readable(message.key), message.key # <<>>
        PROVE  ObjectOf(message.key) \in Ids
    BY <2>1 DEF Readable, ObjectOf, Parses
  <2>2. Readable(<<>>)
    BY DEF Readable
  <2> QED
    BY <2>1, <2>2, MessageAssumption DEF Promise!KeyAccepted, Taken
<1>3. Promise!TypeAccepted(Taken) <=> Moderated(message.type)
  BY <1>1 DEF Promise!TypeAccepted, Promise!ObjectTypes, Promise!Unspecified, Taken,
     Moderated, Enumeration, WireTypes
<1>4. Taken.parses = message.parses
  BY DEF Taken
<1> QED
  BY <1>2, <1>3, <1>4 DEF Promise!Acceptable

LEMMA InitCInv == CallInit => CInv
BY DEF CallInit, Init, CInv, Statements, Passed, VerdictInTime

LEMMA NextCInv ==
  ASSUME CInv, [CallNext]_allVars
  PROVE  CInv'
<1>1. message \in Incoming /\ message' = message
  BY DEF CInv, CallNext, CallForward, allVars, callVars, ReadKey, RefuseKey,
     ParsePayload, CheckType, TextStep, TextThrows, TextReturns, Respond, Callback,
     Return, GoOn
<1>2. Taken' = Taken
  BY <1>1 DEF Taken
<1>3. Promise!Acceptable(Taken)' <=> Promise!Acceptable(Taken)
  BY <1>1, AcceptableMeans, <1>2 DEF Promise!Acceptable, Promise!KeyAccepted, Promise!TypeAccepted
<1>4. CASE ReadKey
  BY <1>1, <1>4 DEF ReadKey, CInv, Statements, Passed, VerdictInTime, vars
<1>5. CASE RefuseKey
  BY <1>1, <1>3, <1>5, AcceptableMeans
     DEF RefuseKey, Return, CInv, Statements, Passed, VerdictInTime, vars
<1>6. CASE ParsePayload
  BY <1>1, <1>3, <1>6, AcceptableMeans
     DEF ParsePayload, Return, GoOn, CInv, Statements, Passed, VerdictInTime, vars
<1>7. CASE CheckType
  BY <1>1, <1>3, <1>7, AcceptableMeans
     DEF CheckType, Return, GoOn, CInv, Statements, Passed, VerdictInTime, vars
<1>8. CASE TextStep \/ TextThrows
  BY <1>1, <1>8
     DEF TextStep, TextThrows, callVars, CInv, Statements, Passed, VerdictInTime
<1>9. CASE TextReturns
  BY <1>1, <1>3, <1>9, AcceptableMeans
     DEF TextReturns, Return, GoOn, CInv, Statements, Passed, VerdictInTime, vars
<1>10. CASE Respond
  BY <1>1, <1>10 DEF Respond, CInv, Statements, Passed, VerdictInTime, vars
<1>11. CASE Callback
  BY <1>1, <1>11 DEF Callback, CInv, Statements, Passed, VerdictInTime, vars
<1>12. CASE UNCHANGED allVars
  BY <1>1, <1>3, <1>12
     DEF allVars, vars, callVars, CInv, Statements, Passed, VerdictInTime
<1> QED
  BY <1>4, <1>5, <1>6, <1>7, <1>8, <1>9, <1>10, <1>11, <1>12 DEF CallNext, CallForward

-----------------------------------------------------------------------------
(***************************************************************************)
(* The key of an object.  Decimal and Value are defined by recursion, the  *)
(* one on the number and the other on its digits; Value takes back what    *)
(* Decimal wrote, for every number.                                        *)
(***************************************************************************)

LEMMA DigitLaw ==
  /\ \A d \in 0..9 : DigitSeq[d + 1] \in Digits /\ DigitValue(DigitSeq[d + 1]) = d
  /\ \A c \in Digits : DigitValue(c) \in Nat /\ c \notin Signs
  /\ Digits \subseteq KeyChars /\ Signs \subseteq KeyChars
<1>1. \A d \in 0..9 : d + 1 \in 1..10 /\ DigitSeq[d + 1] \in Digits
  BY DEF Digits
<1>2. \A d, e \in 0..9 : DigitSeq[d + 1] = DigitSeq[e + 1] => d = e
  <2>1. \A d, e \in 1..10 : DigitSeq[d] = DigitSeq[e] => d = e
    <3>1. /\ DigitSeq[1] = "0" /\ DigitSeq[2] = "1" /\ DigitSeq[3] = "2" /\ DigitSeq[4] = "3"
          /\ DigitSeq[5] = "4" /\ DigitSeq[6] = "5" /\ DigitSeq[7] = "6" /\ DigitSeq[8] = "7"
          /\ DigitSeq[9] = "8" /\ DigitSeq[10] = "9"
      BY DEF DigitSeq
    <3>2. \A d \in 1..10 : \/ d = 1 \/ d = 2 \/ d = 3 \/ d = 4 \/ d = 5
                           \/ d = 6 \/ d = 7 \/ d = 8 \/ d = 9 \/ d = 10
      OBVIOUS
    <3> QED
      BY <3>1, <3>2
  <2> QED
    BY <2>1
<1>3. \A c \in Digits : \E d \in 0..9 : c = DigitSeq[d + 1]
  <2> SUFFICES ASSUME NEW d \in 1..10
               PROVE  \E e \in 0..9 : DigitSeq[d] = DigitSeq[e + 1]
    BY DEF Digits
  <2>1. d - 1 \in 0..9 /\ d - 1 + 1 = d
    OBVIOUS
  <2> QED
    BY <2>1
<1>4. ASSUME NEW d \in 0..9
      PROVE  DigitValue(DigitSeq[d + 1]) = d
  <2> DEFINE P(v) == v \in 0..9 /\ DigitSeq[v + 1] = DigitSeq[d + 1]
  <2>1. P(d) /\ \A v : P(v) => v = d
    BY <1>2
  <2>2. DigitValue(DigitSeq[d + 1]) = CHOOSE v \in 0..9 : DigitSeq[v + 1] = DigitSeq[d + 1]
    BY DEF DigitValue
  <2> QED
    BY <2>1, <2>2
<1>5. \A d \in 1..10 : DigitSeq[d] \notin Signs
  BY DEF DigitSeq, Signs
<1> QED
  BY <1>1, <1>3, <1>4, <1>5 DEF Digits, KeyChars

LEMMA DecimalLaw ==
  ASSUME NEW n \in Nat
  PROVE  /\ Decimal[n] \in Seq(Digits) \ {<<>>}
         /\ n < 10 => Decimal[n] = Append(<<>>, DigitSeq[n + 1])
         /\ n >= 10 => Decimal[n] = Append(Decimal[n \div 10], DigitSeq[(n % 10) + 1])
<1> DEFINE S == Seq(Digits) \ {<<>>}
           B == 0..9
           rank == [m \in Nat |-> m]
           base == [m \in B |-> <<DigitSeq[m + 1]>>]
           pred == [m \in Nat \ B |-> m \div 10]
           next == [p \in (Nat \ B) \X S |-> Append(p[2], DigitSeq[(p[1] % 10) + 1])]
<1>1. \A m \in Nat : m \div 10 \in Nat /\ m % 10 \in 0..9 /\ (m \notin B => m \div 10 < m)
  OBVIOUS
<1>2. base \in [B -> S]
  BY DigitLaw
<1>3. next \in [(Nat \ B) \X S -> S]
  <2> SUFFICES ASSUME NEW m \in Nat \ B, NEW s \in S
               PROVE  Append(s, DigitSeq[(m % 10) + 1]) \in S
    OBVIOUS
  <2>1. DigitSeq[(m % 10) + 1] \in Digits
    BY <1>1, DigitLaw
  <2> QED
    BY <2>1, Extended
<1>4. PICK f \in [Nat -> S] :
        f = [m \in Nat |-> IF m \in B THEN base[m] ELSE next[<<m, f[pred[m]]>>]]
  <2>1. rank \in [Nat -> Nat] /\ B \subseteq Nat /\ pred \in [Nat \ B -> Nat]
        /\ \A m \in Nat \ B : rank[pred[m]] < rank[m]
    BY <1>1
  <2> HIDE DEF S, B, rank, base, pred, next
  <2>2. Recursive(Nat, S, rank, B, base, pred, next)
    BY <1>2, <1>3, <2>1 DEF Recursive
  <2> QED
    BY <2>2, Recursion
<1>5. ASSUME NEW m \in Nat
      PROVE  f[m] = IF m < 10 THEN <<DigitSeq[m + 1]>>
                    ELSE Append(f[m \div 10], DigitSeq[(m % 10) + 1])
  <2>1. m \in B <=> m < 10
    OBVIOUS
  <2>2. f[m] = IF m \in B THEN base[m] ELSE next[<<m, f[pred[m]]>>]
    <3> HIDE DEF S, B, base, pred, next
    <3> QED
      BY <1>4
  <2>3. m \in B => base[m] = <<DigitSeq[m + 1]>>
    OBVIOUS
  <2>4. m \notin B => next[<<m, f[pred[m]]>>] = Append(f[m \div 10], DigitSeq[(m % 10) + 1])
    <3> SUFFICES ASSUME m \notin B
                 PROVE  next[<<m, f[pred[m]]>>] = Append(f[m \div 10], DigitSeq[(m % 10) + 1])
      OBVIOUS
    <3>1. pred[m] = m \div 10 /\ f[m \div 10] \in S
      BY <1>1
    <3> HIDE DEF pred, B, S
    <3> QED
      BY <3>1
  <2> HIDE DEF B, base, pred, next
  <2> QED
    BY <2>1, <2>2, <2>3, <2>4
<1>6. f = [m \in Nat |-> IF m < 10 THEN <<DigitSeq[m + 1]>>
                         ELSE Append(f[m \div 10], DigitSeq[(m % 10) + 1])]
  <2>1. f = [m \in Nat |-> f[m]]
    OBVIOUS
  <2> HIDE DEF B, base, pred, next
  <2> QED
    BY <1>5, <2>1
<1> DEFINE d == Decimal
<1>7. d = [m \in Nat |-> IF m < 10 THEN <<DigitSeq[m + 1]>>
                         ELSE Append(d[m \div 10], DigitSeq[(m % 10) + 1])]
  BY <1>6, Zenon DEF Decimal
<1> HIDE DEF d
<1>8. \A m \in Nat : d[m] = IF m < 10 THEN Append(<<>>, DigitSeq[m + 1])
                            ELSE Append(d[m \div 10], DigitSeq[(m % 10) + 1])
  <2>1. \A m \in Nat : <<DigitSeq[m + 1]>> = Append(<<>>, DigitSeq[m + 1])
    OBVIOUS
  <2> QED
    BY <1>7, <2>1
<1> DEFINE T == {m \in Nat : d[m] \in S}
<1>9. T = Nat
  <2>1. ASSUME NEW m \in Nat, \A k \in Nat : k < m => k \in T
        PROVE  m \in T
    <3>1. CASE m < 10
      <4>1. m \in 0..9
        BY <3>1
      <4>2. DigitSeq[m + 1] \in Digits
        BY <4>1, DigitLaw
      <4>3. <<>> \in Seq(Digits)
        OBVIOUS
      <4>4. Append(<<>>, DigitSeq[m + 1]) \in S
        BY <4>2, <4>3, Extended
      <4>5. d[m] = Append(<<>>, DigitSeq[m + 1])
        BY <1>8, <3>1
      <4> HIDE DEF S
      <4> QED
        BY <4>4, <4>5
    <3>2. CASE ~(m < 10)
      <4> DEFINE q == m \div 10
                 e == DigitSeq[(m % 10) + 1]
      <4>1. q \in Nat /\ m % 10 \in 0..9 /\ q < m
        BY <1>1, <3>2
      <4>2. d[q] \in Seq(Digits) /\ e \in Digits
        BY <2>1, <4>1, DigitLaw
      <4>3. d[m] = Append(d[q], e)
        BY <1>8, <3>2
      <4>4. Append(d[q], e) \in S
        <5> DEFINE u == d[q]
        <5> HIDE DEF u, e
        <5>1. Append(u, e) \in Seq(Digits) /\ Append(u, e) # <<>>
          <6>1. u \in Seq(Digits) /\ e \in Digits
            BY <4>2 DEF u
          <6> QED
            BY <6>1, Ended
        <5> QED
          BY <5>1 DEF u
      <4> HIDE DEF q, e
      <4> HIDE DEF S
      <4> QED
        BY <4>3, <4>4
    <3> QED
      BY <3>1, <3>2
  <2>2. T \in SUBSET Nat
    OBVIOUS
  <2> HIDE DEF T
  <2> QED
    BY <2>1, <2>2, CompleteInduction
<1>10. d[n] \in S
  BY <1>9
<1>11. /\ n < 10 => d[n] = Append(<<>>, DigitSeq[n + 1])
       /\ n >= 10 => d[n] = Append(d[n \div 10], DigitSeq[(n % 10) + 1])
  <2>1. n >= 10 => ~(n < 10)
    OBVIOUS
  <2> QED
    BY <1>8, <2>1
<1> QED
  BY <1>10, <1>11 DEF d

LEMMA ValueLaw ==
  /\ Value[<<>>] = 0
  /\ \A s \in Seq(Digits) : Value[s] \in Nat
  /\ \A s \in Seq(Digits), c \in Digits : Value[Append(s, c)] = 10 * Value[s] + DigitValue(c)
<1> DEFINE step == [p \in (Seq(Digits) \ {<<>>}) \X Nat |->
                      10 * p[2] + DigitValue(p[1][Len(p[1])])]
<1>1. step \in [(Seq(Digits) \ {<<>>}) \X Nat -> Nat]
  <2> SUFFICES ASSUME NEW s \in Seq(Digits) \ {<<>>}, NEW r \in Nat
               PROVE  10 * r + DigitValue(s[Len(s)]) \in Nat
    OBVIOUS
  <2>1. s[Len(s)] \in Digits
    BY Ends
  <2>2. DigitValue(s[Len(s)]) \in Nat
    BY <2>1, DigitLaw
  <2> QED
    BY <2>2
<1>2. PICK f \in [Seq(Digits) -> Nat] : OnSequences(f, Digits, 0, step)
  <2> HIDE DEF step
  <2> QED
    BY <1>1, SeqRecursion
<1>3. ASSUME NEW s \in Seq(Digits)
      PROVE  f[s] = IF s = <<>> THEN 0 ELSE 10 * f[Front(s)] + DigitValue(Last(s))
  <2>1. CASE s = <<>>
    <3> HIDE DEF step
    <3> QED
      BY <1>2, <2>1 DEF OnSequences
  <2>2. CASE s # <<>>
    <3>1. f[s] = step[<<s, f[SubSeq(s, 1, Len(s) - 1)]>>]
      <4> HIDE DEF step
      <4> QED
        BY <1>2, <2>2 DEF OnSequences
    <3>2. f[SubSeq(s, 1, Len(s) - 1)] \in Nat
      BY <2>2, Ends
    <3> QED
      BY <2>2, <3>1, <3>2 DEF Front, Last
  <2> QED
    BY <2>1, <2>2
<1>4. f = [s \in Seq(Digits) |->
             IF s = <<>> THEN 0 ELSE 10 * f[Front(s)] + DigitValue(Last(s))]
  <2>1. f = [s \in Seq(Digits) |-> f[s]]
    OBVIOUS
  <2> HIDE DEF step
  <2> QED
    BY <1>3, <2>1
<1> DEFINE V == Value
<1>5. V = [s \in Seq(Digits) |->
             IF s = <<>> THEN 0 ELSE 10 * V[Front(s)] + DigitValue(Last(s))]
  BY <1>4, Zenon DEF Value
<1> HIDE DEF V
<1>6. V[<<>>] = 0
  BY <1>5
<1>7. ASSUME NEW s \in Seq(Digits), NEW c \in Digits
      PROVE  V[Append(s, c)] = 10 * V[s] + DigitValue(c)
  <2> DEFINE t == Append(s, c)
  <2>1. t \in Seq(Digits) /\ t # <<>> /\ Len(t) - 1 = Len(s)
        /\ SubSeq(t, 1, Len(s)) = s /\ t[Len(t)] = c
    BY Extended
  <2> HIDE DEF t
  <2>2. Last(t) = c /\ Front(t) = s
    BY <2>1 DEF Last, Front
  <2>3. V[t] = 10 * V[Front(t)] + DigitValue(Last(t))
    BY <1>5, <2>1
  <2> QED
    BY <2>2, <2>3 DEF t
<1>8. \A s \in Seq(Digits) : V[s] \in Nat
  <2>1. V[<<>>] \in Nat
    BY <1>6
  <2>2. ASSUME NEW s \in Seq(Digits), NEW c \in Digits, V[s] \in Nat
        PROVE  V[Append(s, c)] \in Nat
    <3>1. DigitValue(c) \in Nat
      BY DigitLaw
    <3> QED
      BY <1>7, <2>2, <3>1
  <2> QED
    BY <2>1, <2>2, Values
<1> QED
  BY <1>6, <1>7, <1>8 DEF V

LEMMA ValueOfDecimal ==
  \A n \in Nat : Value[Decimal[n]] = n
<1> DEFINE T == {n \in Nat : Value[Decimal[n]] = n}
<1>1. ASSUME NEW n \in Nat, \A m \in Nat : m < n => m \in T
      PROVE  n \in T
  <2>1. CASE n < 10
    <3>1. n \in 0..9
      BY <2>1
    <3>2. DigitSeq[n + 1] \in Digits /\ DigitValue(DigitSeq[n + 1]) = n
      BY <3>1, DigitLaw
    <3>3. <<>> \in Seq(Digits)
      OBVIOUS
    <3>4. Value[Append(<<>>, DigitSeq[n + 1])] = 10 * Value[<<>>] + DigitValue(DigitSeq[n + 1])
      BY <3>2, <3>3, ValueLaw
    <3>5. Value[Decimal[n]] = 10 * 0 + n
      BY <2>1, <3>2, <3>4, DecimalLaw, ValueLaw
    <3> QED
      BY <3>5
  <2>2. CASE ~(n < 10)
    <3> DEFINE q == n \div 10
               r == n % 10
               u == Decimal[q]
               e == DigitSeq[r + 1]
    <3>1. q \in Nat /\ r \in 0..9 /\ q < n /\ n = 10 * q + r /\ n >= 10
      BY <2>2
    <3>2. Decimal[n] = Append(u, e)
      BY <3>1, DecimalLaw
    <3> HIDE DEF q, r
    <3>3. u \in Seq(Digits) /\ e \in Digits /\ DigitValue(e) = r
      BY <3>1, DecimalLaw, DigitLaw
    <3>4. Value[u] = q
      BY <1>1, <3>1
    <3> HIDE DEF u, e
    <3>5. Value[Append(u, e)] = 10 * Value[u] + DigitValue(e)
      BY <3>3, ValueLaw
    <3> QED
      BY <3>1, <3>2, <3>3, <3>4, <3>5
  <2> QED
    BY <2>1, <2>2
<1>2. T = Nat
  <2>1. T \in SUBSET Nat
    OBVIOUS
  <2> HIDE DEF T
  <2> QED
    BY <1>1, <2>1, CompleteInduction
<1> QED
  BY <1>2

\* A key that is all digits after its sign is read to its end.
LEMMA LeadingLaw ==
  ASSUME NEW s \in Seq(KeyChars), NEW m \in Sign(s)..Len(s),
         \A k \in (Sign(s) + 1)..m : s[k] \in Digits,
         m < Len(s) => s[m + 1] \notin Digits
  PROVE  Leading(s) = SubSeq(s, Sign(s) + 1, m)
<1> DEFINE Fits(e) == /\ \A k \in (Sign(s) + 1)..e : s[k] \in Digits
                      /\ e < Len(s) => s[e + 1] \notin Digits
<1>1. Sign(s) \in 0..Len(s) /\ Len(s) \in Nat
  BY EmptySeq DEF Sign
<1>2. ASSUME NEW e \in Sign(s)..Len(s), Fits(e)
      PROVE  e = m
  <2>1. e < m => e + 1 \in (Sign(s) + 1)..m /\ e < Len(s)
    BY <1>1
  <2>2. m < e => m + 1 \in (Sign(s) + 1)..e /\ m < Len(s)
    BY <1>1
  <2> QED
    BY <1>1, <1>2, <2>1, <2>2
<1>3. (CHOOSE e \in Sign(s)..Len(s) : Fits(e)) = m
  <2>1. Fits(m)
    OBVIOUS
  <2> HIDE DEF Fits
  <2> QED
    BY <1>2, <2>1
<1> QED
  BY <1>3 DEF Leading

\* The digits behind the sign end somewhere.
LEMMA DigitsEnd ==
  ASSUME NEW s \in Seq(KeyChars)
  PROVE  \E m \in Sign(s)..Len(s) :
           /\ \A k \in (Sign(s) + 1)..m : s[k] \in Digits
           /\ m < Len(s) => s[m + 1] \notin Digits
<1> DEFINE others == {k \in 1..Len(s) : k > Sign(s) /\ s[k] \notin Digits}
<1>1. Sign(s) \in 0..Len(s) /\ Len(s) \in Nat
  BY EmptySeq DEF Sign
<1>2. CASE others = {}
  <2>1. \A k \in (Sign(s) + 1)..Len(s) : s[k] \in Digits
    BY <1>1, <1>2
  <2> QED
    BY <1>1, <2>1
<1>3. CASE others # {}
  <2> DEFINE m == Min(others) - 1
  <2>1. Min(others) \in others /\ \A l \in others : Min(others) <= l
    <3>1. others \in SUBSET (1..Len(s))
      OBVIOUS
    <3> HIDE DEF others
    <3> QED
      BY <1>1, <1>3, <3>1, MinIn
  <2>2. m \in Sign(s)..Len(s) /\ m + 1 = Min(others) /\ s[m + 1] \notin Digits
    BY <1>1, <2>1
  <2>3. \A k \in (Sign(s) + 1)..m : k \in 1..Len(s) /\ k > Sign(s) /\ ~(Min(others) <= k)
    BY <1>1, <2>1, <2>2
  <2>4. \A k \in (Sign(s) + 1)..m : s[k] \in Digits
    BY <2>1, <2>3
  <2> QED
    BY <2>2, <2>4
<1> QED
  BY <1>2, <1>3

\* What ProcessMessage makes of a proper key, and of a key that is none.
LEMMA ProperIsReadable ==
  ASSUME NEW key \in Seq(KeyChars), key # <<>>, Proper(key)
  PROVE  Readable(key) /\ Number(key) \in Ids
<1>1. Len(key) > Sign(key) /\ \A k \in (Sign(key) + 1)..Len(key) : key[k] \in Digits
  BY DEF Proper, OnlyDigits
<1>2. Sign(key) \in 0..1 /\ Len(key) \in Nat /\ Len(key) # 0
  BY EmptySeq DEF Sign
<1>3. MayStart(key[1])
  <2>1. CASE key[1] \in Signs
    BY <2>1 DEF MayStart
  <2>2. CASE key[1] \notin Signs
    <3>1. Sign(key) = 0 /\ 1 \in (Sign(key) + 1)..Len(key)
      BY <1>1, <1>2, <2>2 DEF Sign
    <3> QED
      BY <1>1, <3>1 DEF MayStart
  <2> QED
    BY <2>1, <2>2
<1>4. Leading(key) # <<>>
  <2>1. Leading(key) = SubSeq(key, Sign(key) + 1, Len(key))
    BY <1>1, <1>2, LeadingLaw
  <2>2. Len(SubSeq(key, Sign(key) + 1, Len(key))) = Len(key) - Sign(key)
    BY <1>1, <1>2
  <2>3. Len(Leading(key)) # 0
    BY <1>1, <1>2, <2>1, <2>2
  <2> QED
    BY <2>3
<1> QED
  BY <1>3, <1>4 DEF Readable, Parses, Proper

LEMMA ReadableIsNumber ==
  ASSUME NEW key \in Seq(KeyChars), key # <<>>, Readable(key)
  PROVE  Proper(key) \/ Ragged(key)
<1>1. Leading(key) # <<>> /\ Number(key) \in Ids
  BY DEF Readable, Parses
<1>2. PICK m \in Sign(key)..Len(key) :
        /\ \A k \in (Sign(key) + 1)..m : key[k] \in Digits
        /\ m < Len(key) => key[m + 1] \notin Digits
  BY DigitsEnd
<1>3. Sign(key) \in 0..1 /\ Len(key) \in Nat /\ Len(key) # 0 /\ m \in Nat
  BY EmptySeq DEF Sign
<1>4. Leading(key) = SubSeq(key, Sign(key) + 1, m)
  BY <1>2, LeadingLaw
<1>5. m > Sign(key)
  <2>1. m = Sign(key) => SubSeq(key, Sign(key) + 1, m) = <<>>
    BY <1>3
  <2> QED
    BY <1>1, <1>3, <1>4, <2>1
<1>6. CASE m = Len(key)
  BY <1>1, <1>2, <1>5, <1>6 DEF Proper, OnlyDigits
<1>7. CASE m < Len(key)
  <2> DEFINE u == SubSeq(key, 1, m)
  <2>1. u \in Seq(KeyChars) /\ Len(u) = m /\ \A k \in 1..m : u[k] = key[k]
    BY <1>2, <1>3, Prefix
  <2> HIDE DEF u
  <2>2. u # <<>> /\ u[1] = key[1] /\ Sign(u) = Sign(key)
    BY <1>3, <1>5, <2>1, EmptySeq DEF Sign
  <2>3. \A k \in (Sign(u) + 1)..m : u[k] \in Digits
    BY <1>2, <1>3, <2>1, <2>2
  <2>4. Leading(u) = Leading(key)
    <3>1. Leading(u) = SubSeq(u, Sign(key) + 1, m)
      BY <1>3, <1>5, <2>1, <2>2, <2>3, LeadingLaw
    <3>2. SubSeq(u, Sign(key) + 1, m) = SubSeq(key, Sign(key) + 1, m)
      BY <1>3, <1>5, <2>1
    <3> QED
      BY <1>4, <3>1, <3>2
  <2>5. Number(u) = Number(key)
    BY <2>2, <2>4 DEF Number
  <2>6. Proper(u)
    BY <1>1, <1>5, <2>1, <2>2, <2>3, <2>5 DEF Proper, OnlyDigits
  <2>7. m \in 1..(Len(key) - 1) /\ key[m + 1] \notin Digits
    BY <1>2, <1>3, <1>5, <1>7
  <2> QED
    BY <2>6, <2>7 DEF Ragged, u
<1> QED
  BY <1>3, <1>6, <1>7

\* A message is dropped for the reasons there are to drop one, or because its text
\* threw, and for no other; and no key but a number, or one with something behind
\* it, gets past the first return; whatever the keys, the texts and the tables.
THEOREM DropsForAReason == CallSpec => []DropsAsPromised
<1>1. ASSUME CInv
      PROVE  DropsAsPromised
  <2>1. message \in Incoming /\ message.key \in Seq(KeyChars) /\ message.type \in WireTypes
    BY <1>1, MessageAssumption DEF CInv
  <2>2. Stated.parses = Taken.parses /\ Stated.type = Taken.type
    BY DEF Stated, Taken
  <2>3. Promise!KeyAccepted(Stated) <=> Proper(message.key)
    <3>1. Stated.key = IF message.key = <<>> THEN None
                       ELSE IF Proper(message.key) THEN Number(message.key) ELSE BadKey
      BY DEF Stated, Taken
    <3>2. Proper(<<>>)
      BY DEF Proper
    <3> QED
      BY <2>1, <3>1, <3>2, ProperIsReadable, MessageAssumption DEF Promise!KeyAccepted
  <2>4. Promise!Acceptable(Stated) => Promise!Acceptable(Taken)
    <3>1. Readable(<<>>)
      BY DEF Readable
    <3>2. Promise!KeyAccepted(Stated) => Readable(message.key)
      BY <2>1, <2>3, <3>1, ProperIsReadable
    <3>3. Promise!TypeAccepted(Stated) <=> Promise!TypeAccepted(Taken)
      BY <2>2 DEF Promise!TypeAccepted
    <3>4. Promise!TypeAccepted(Taken) <=> Moderated(message.type)
      BY <2>1 DEF Promise!TypeAccepted, Promise!ObjectTypes, Promise!Unspecified, Taken,
         Moderated, Enumeration, WireTypes
    <3>5. Taken.parses = message.parses
      BY DEF Taken
    <3> QED
      BY <2>1, <2>2, <3>2, <3>3, <3>4, <3>5, AcceptableMeans DEF Promise!Acceptable
  <2>5. ASSUME at \in {"text", "respond", "callback", "done"}, ~Ragged(message.key)
        PROVE  Promise!Acceptable(Stated)
    <3>1. Readable(message.key) /\ message.parses /\ Moderated(message.type)
      BY <1>1, <2>5 DEF CInv, Passed
    <3>2. Proper(message.key)
      BY <2>1, <2>5, <3>1, ReadableIsNumber DEF Proper
    <3>3. Promise!Acceptable(Taken)
      BY <2>1, <3>1, AcceptableMeans
    <3>4. Promise!TypeAccepted(Stated) <=> Promise!TypeAccepted(Taken)
      BY <2>2 DEF Promise!TypeAccepted
    <3> QED
      BY <2>2, <2>3, <3>2, <3>3, <3>4 DEF Promise!Acceptable
  <2>6. at = "dropped" /\ Promise!Acceptable(Taken) => verdict = "threw"
    BY <1>1 DEF CInv
  <2>7. at = "done" => verdict # "threw"
    BY <1>1 DEF CInv, VerdictInTime
  <2> QED
    BY <2>4, <2>5, <2>6, <2>7 DEF DropsAsPromised
<1> QED
  BY <1>1, InitCInv, NextCInv, PTL DEF CallSpec

\* to_string writes an integer, and stoll reads back the one it wrote.
LEMMA SpellLaw ==
  ASSUME NEW n \in Ids
  PROVE  /\ Spell(n) \in Seq(KeyChars)
         /\ Readable(Spell(n))
         /\ ObjectOf(Spell(n)) = n
<1>1. n \in Int /\ MaxId \in Nat
  BY KeyAssumption DEF Ids, MinId
<1>2. Digits \subseteq KeyChars /\ Signs \subseteq KeyChars /\ "-" \in Signs
      /\ \A c \in Digits : c \notin Signs /\ c # "-"
  BY DigitLaw DEF Signs
<1>3. CASE ~(n < 0)
  <2> DEFINE d == Decimal[n]
  <2>1. n \in Nat /\ d \in Seq(Digits) /\ d # <<>> /\ Value[d] = n
    BY <1>1, <1>3, DecimalLaw, ValueOfDecimal
  <2>2. Spell(n) = d
    BY <1>3 DEF Spell
  <2> HIDE DEF d
  <2>3. Len(d) \in Nat /\ Len(d) # 0 /\ d \in Seq(KeyChars) /\ \A k \in 1..Len(d) : d[k] \in Digits
    BY <1>2, <2>1, EmptySeq
  <2>4. d[1] \in Digits
    BY <2>3
  <2>5. Sign(d) = 0
    BY <1>2, <2>4 DEF Sign
  <2>6. SubSeq(d, 1, Len(d)) = d
    BY <2>1, SubSeqFull
  <2>7. Leading(d) = d
    <3>1. Sign(d) + 1 = 1
      BY <2>5
    <3>2. Len(d) \in Sign(d)..Len(d) /\ ~(Len(d) < Len(d))
      BY <2>3, <2>5
    <3>3. \A k \in (Sign(d) + 1)..Len(d) : d[k] \in Digits
      BY <2>3, <3>1
    <3>4. Leading(d) = SubSeq(d, Sign(d) + 1, Len(d))
      BY <2>3, <3>2, <3>3, LeadingLaw
    <3> QED
      BY <2>6, <3>1, <3>4
  <2>8. Number(d) = n
    BY <1>2, <2>1, <2>4, <2>7 DEF Number
  <2>9. Readable(d) /\ ObjectOf(d) = n
    BY <2>1, <2>4, <2>7, <2>8 DEF Readable, MayStart, Parses, ObjectOf
  <2> QED
    BY <2>2, <2>3, <2>9
<1>4. CASE n < 0
  <2> DEFINE m == -n
             d == Decimal[m]
             s == <<"-">> \o d
  <2>1. m \in Nat /\ -m = n
    BY <1>1, <1>4
  <2>2. Spell(n) = s
    BY <1>4 DEF Spell
  <2> HIDE DEF m
  <2>3. d \in Seq(Digits) /\ d # <<>> /\ Value[d] = m
    BY <2>1, DecimalLaw, ValueOfDecimal
  <2> HIDE DEF d
  <2>4. /\ d \in Seq(KeyChars) /\ Len(d) \in Nat /\ Len(d) > 0
        /\ <<"-">> \in Seq(KeyChars) /\ Len(<<"-">>) = 1 /\ <<"-">>[1] = "-"
    BY <1>2, <2>3, EmptySeq
  <2>5. /\ s \in Seq(KeyChars) /\ Len(s) = 1 + Len(d)
        /\ \A k \in 1..(1 + Len(d)) : s[k] = IF k <= 1 THEN <<"-">>[k] ELSE d[k - 1]
    BY <2>4, ConcatProperties
  <2> HIDE DEF s
  <2>6. s[1] = "-" /\ s # <<>>
    BY <2>4, <2>5, EmptySeq
  <2>7. Sign(s) = 1
    BY <1>2, <2>6 DEF Sign
  <2>8. ASSUME NEW k \in 2..Len(s)
        PROVE  s[k] \in Digits /\ s[k] = d[k - 1]
    <3>1. k \in 1..(1 + Len(d)) /\ ~(k <= 1) /\ k - 1 \in 1..Len(d)
      BY <2>4, <2>5
    <3>2. d[k - 1] \in Digits
      BY <2>3, <3>1
    <3> QED
      BY <2>5, <3>1, <3>2
  <2>9. Leading(s) = SubSeq(s, 2, Len(s))
    <3>1. 1 + 1 = 2
      OBVIOUS
    <3>2. Len(s) \in Sign(s)..Len(s) /\ ~(Len(s) < Len(s))
      BY <2>4, <2>5, <2>7
    <3>3. \A k \in (Sign(s) + 1)..Len(s) : s[k] \in Digits
      BY <2>7, <2>8, <3>1
    <3>4. Leading(s) = SubSeq(s, Sign(s) + 1, Len(s))
      BY <2>5, <3>2, <3>3, LeadingLaw
    <3> QED
      BY <2>7, <3>1, <3>4
  <2>10. SubSeq(s, 2, Len(s)) = d
    <3> DEFINE v == SubSeq(s, 2, Len(s))
    <3>1. 2 \in Int /\ Len(s) \in Int /\ \A k \in 2..Len(s) : s[k] \in Digits
      BY <2>4, <2>5, <2>8
    <3>2. /\ v \in Seq(Digits) /\ Len(v) = IF 2 <= Len(s) THEN Len(s) - 2 + 1 ELSE 0
          /\ \A k \in 1..(Len(s) - 2 + 1) : v[k] = s[2 + k - 1]
      BY <3>1, SubSeqProperties
    <3> HIDE DEF v
    <3>3. Len(s) - 2 + 1 = Len(d) /\ 2 <= Len(s)
      BY <2>4, <2>5
    <3>4. ASSUME NEW k \in 1..Len(d)
          PROVE  v[k] = d[k]
      <4>1. 2 + k - 1 = k + 1 /\ k + 1 \in 2..Len(s) /\ k + 1 - 1 = k
        BY <2>4, <2>5
      <4>2. v[k] = s[k + 1]
        BY <3>2, <3>3, <4>1
      <4>3. s[k + 1] = d[k + 1 - 1]
        BY <2>8, <4>1
      <4> QED
        BY <4>1, <4>2, <4>3
    <3>5. v = d
      BY <2>3, <3>2, <3>3, <3>4, SeqEqual
    <3> QED
      BY <3>5 DEF v
  <2>11. Number(s) = n
    BY <2>1, <2>3, <2>6, <2>9, <2>10 DEF Number
  <2>12. Readable(s) /\ ObjectOf(s) = n
    BY <1>2, <2>3, <2>6, <2>9, <2>10, <2>11 DEF Readable, MayStart, Parses, ObjectOf
  <2> QED
    BY <2>2, <2>5, <2>12
<1> QED
  BY <1>3, <1>4

\* A key that is not refused is about an integer of the width.
LEMMA ReadableMeans ==
  ASSUME NEW key, Readable(key)
  PROVE  ObjectOf(key) \in Ids
<1>1. 0 \in Ids
  BY KeyAssumption DEF Ids, MinId
<1> QED
  BY <1>1 DEF Readable, ObjectOf, Parses

-----------------------------------------------------------------------------
(***************************************************************************)
(* The answer and the record.  The identifier stays what the key said, and *)
(* what is sent and written is a function of it and of the verdict.        *)
(***************************************************************************)

AnswerFor(id) == [key |-> Spell(id), success |-> verdict = "flagged"]
RowFor(id) ==
  [object_id |-> id, object_type |-> message.type, text |-> message.text,
   is_flagged |-> verdict = "flagged"]

Sent ==
  /\ message.text = input
  /\ request_id \in Ids
  /\ at \notin {"key", "dropped"} => request_id = ObjectOf(message.key)
  /\ at \in {"callback", "done"} => answer \in {None, AnswerFor(request_id)}
  /\ at \notin {"callback", "done"} => answer = None
  /\ at = "done" => row = RowFor(request_id)
  /\ at # "done" => row = None
  /\ at \in {"respond", "callback", "done"} => stage = "done"

PInv == VInv /\ CInv /\ Sent

LEMMA InitPInv == CallInit => PInv
<1> SUFFICES ASSUME CallInit PROVE PInv
  OBVIOUS
<1>1. VInv /\ CInv
  BY InitVInv, InitCInv DEF CallInit
<1>2. 0 \in Ids
  BY KeyAssumption DEF Ids, MinId
<1>3. Sent
  BY <1>2 DEF CallInit, Sent
<1> QED
  BY <1>1, <1>3 DEF PInv

LEMMA NextPInv ==
  ASSUME PInv, [CallNext]_allVars
  PROVE  PInv'
<1>1. VInv' /\ CInv'
  BY CallStep, NextVInv, NextCInv DEF PInv
<1>2. message' = message /\ (input' = input)
  <2>1. message' = message
    BY DEF CallNext, CallForward, allVars, callVars, ReadKey, RefuseKey,
       ParsePayload, CheckType, TextStep, TextThrows, TextReturns, Respond, Callback,
       Return, GoOn
  <2>2. input' = input
    <3>1. CASE UNCHANGED vars
      BY <3>1 DEF vars
    <3>2. CASE Next
      BY <3>2 DEF Next, Forward, Normalize, NormalizerFails, SkipInvisible, JoinWhite,
         SkipRepeated, NextText, HandOver, Write, CountAlphabet, Orient, Unleet, Tokenize,
         LastWord, WordChecking, Throws
    <3> QED
      BY <3>1, <3>2, CallStep
  <2> QED
    BY <2>1, <2>2
<1>3. /\ message.text = input /\ request_id \in Ids /\ Sent /\ CInv
  BY DEF PInv, Sent
<1>4. Sent'
  <2>1. CASE ReadKey
    BY <1>2, <1>3, <2>1, ReadableMeans DEF ReadKey, Sent, vars
  <2>2. CASE RefuseKey \/ ParsePayload \/ CheckType
    BY <1>2, <1>3, <2>2 DEF RefuseKey, ParsePayload, CheckType, Return, GoOn, Sent, vars
  <2>3. CASE TextStep \/ TextThrows
    BY <1>2, <1>3, <2>3 DEF TextStep, TextThrows, callVars, Sent
  <2>4. CASE TextReturns
    BY <1>2, <1>3, <2>4 DEF TextReturns, Return, GoOn, Sent, vars
  <2>5. CASE Respond
    BY <1>2, <1>3, <2>5 DEF Respond, Sent, AnswerFor, vars
  <2>6. CASE Callback
    BY <1>2, <1>3, <2>6 DEF Callback, Sent, AnswerFor, RowFor, vars
  <2>7. CASE UNCHANGED allVars
    BY <1>2, <1>3, <2>7 DEF allVars, callVars, vars, Sent, AnswerFor, RowFor
  <2> QED
    BY <2>1, <2>2, <2>3, <2>4, <2>5, <2>6, <2>7 DEF CallNext, CallForward
<1> QED
  BY <1>1, <1>4 DEF PInv

LEMMA PInvHolds == CallSpec => []PInv
BY InitPInv, NextPInv, PTL DEF CallSpec

\* The call's variables keep their types: what is answered has a key that is
\* written in the characters of a key, and what is recorded an identifier of
\* the width and a type that can come off the wire.
THEOREM CallTypes == CallSpec => []CallTypeOK
<1>1. ASSUME PInv
      PROVE  CallTypeOK
  <2>1. /\ TypeOK /\ at \in Statements /\ message.text = input /\ request_id \in Ids
        /\ message \in Incoming
    BY <1>1 DEF PInv, VInv, IInv, CInv, Sent
  <2>2. answer # None => answer.key \in Seq(KeyChars) /\ answer.success \in BOOLEAN
    <3>1. answer # None => answer = AnswerFor(request_id)
      BY <1>1 DEF PInv, Sent
    <3>2. Spell(request_id) \in Seq(KeyChars)
      BY <2>1, SpellLaw
    <3>3. AnswerFor(request_id).key \in Seq(KeyChars)
      BY <3>2 DEF AnswerFor
    <3>4. AnswerFor(request_id).success \in BOOLEAN
      BY DEF AnswerFor
    <3> QED
      BY <3>1, <3>3, <3>4
  <2>3. row # None => row.object_id \in Ids /\ row.object_type \in WireTypes
    <3>1. message.type \in WireTypes
      BY <2>1, MessageAssumption
    <3> QED
      BY <1>1, <2>1, <3>1 DEF PInv, Sent, RowFor
  <2> QED
    BY <2>1, <2>2, <2>3 DEF CallTypeOK
<1> QED
  BY <1>1, PInvHolds, PTL

\* No identifier of the width is refused, and all of them are read back as
\* themselves: the messages and the answers about an object keep one key.
THEOREM OneKeyPerObject == CallSpec => []RoundTrip
<1>1. ASSUME PInv
      PROVE  RoundTrip
  <2> SUFFICES ASSUME NEW n \in Ids, message.key = Spell(n)
               PROVE  /\ ~(at = "dropped" /\ message.parses /\ Moderated(message.type)
                           /\ stage # "done")
                      /\ at \notin {"key", "dropped"} => request_id = n
                      /\ answer # None => answer.key = message.key
    BY DEF RoundTrip
  <2>1. Readable(message.key) /\ ObjectOf(message.key) = n
    BY SpellLaw
  <2>2. at = "dropped" /\ message.parses /\ Moderated(message.type) => verdict = "threw"
    BY <1>1, <2>1, AcceptableMeans DEF PInv, CInv
  <2>3. stage # "done" => verdict # "threw"
    BY <1>1 DEF PInv, VInv, Decided
  <2>4. at \notin {"key", "dropped"} => request_id = n
    BY <1>1, <2>1 DEF PInv, Sent
  <2>5. answer # None => answer.key = Spell(n)
    BY <1>1, <2>4 DEF PInv, Sent, AnswerFor
  <2> QED
    BY <2>2, <2>3, <2>4, <2>5
<1> QED
  BY <1>1, PInvHolds, PTL

\* The call answers and records what ModerationMessages says in one step, under
\* a key that reads back as the object that was moderated.
THEOREM AnswersFollowTheMessage == CallSpec => []AnswersAsPromised
<1>1. ASSUME PInv
      PROVE  AnswersAsPromised
  <2> SUFFICES ASSUME at = "done"
               PROVE  /\ row = Promise!ModerationRecord(Taken)
                      /\ answer # None =>
                           /\ Readable(answer.key)
                           /\ ObjectOf(answer.key) = Promise!Response(Taken).key
                           /\ answer.success = Promise!Response(Taken).success
    BY DEF AnswersAsPromised
  <2>1. /\ Readable(message.key) /\ verdict # "threw" /\ stage = "done"
        /\ message.text = input /\ input \in Texts
        /\ request_id = ObjectOf(message.key) /\ request_id \in Ids
        /\ row = RowFor(request_id) /\ answer \in {None, AnswerFor(request_id)}
        /\ Decided
    BY <1>1 DEF PInv, CInv, Passed, VerdictInTime, Sent, VInv, IInv
  <2>2. Promise!RequestId(Taken) = request_id
    <3>1. message.key = <<>> => Taken.key = None /\ request_id = 0
      BY <2>1 DEF Taken, ObjectOf
    <3>2. message.key # <<>> => Taken.key = request_id /\ request_id # None
      BY <2>1, MessageAssumption DEF Taken
    <3> QED
      BY <3>1, <3>2 DEF Promise!RequestId
  <2>3. Promise!IsFlagged(Taken) = (verdict = "flagged")
    <3>1. Taken.text = input
      BY <2>1 DEF Taken
    <3>2. verdict = "flagged" <=> Closed(Scanned[Unleeted(input)]) > Threshold
      BY <2>1 DEF Decided
    <3>3. input \in Flagged <=> Closed(Scanned[Unleeted(input)]) > Threshold
      BY <2>1, VerdictMeans, NothingRead DEF Flagged
    <3> QED
      BY <3>1, <3>2, <3>3 DEF Promise!IsFlagged
  <2>4. row = Promise!ModerationRecord(Taken)
    BY <2>1, <2>2, <2>3 DEF Promise!ModerationRecord, RowFor, Taken
  <2>5. answer # None =>
          /\ Readable(answer.key)
          /\ ObjectOf(answer.key) = Promise!Response(Taken).key
          /\ answer.success = Promise!Response(Taken).success
    BY <2>1, <2>2, <2>3, SpellLaw DEF Promise!Response, AnswerFor
  <2> QED
    BY <2>4, <2>5
<1> QED
  BY <1>1, PInvHolds, PTL

\* Within the call, too, the stages give the verdict TextVerdict gives in one
\* step, whatever the message is.
THEOREM CallImplementsTheVerdict == CallSpec => ImplementsVerdict
BY CallRunsTheStages, StagesImplementTheVerdict, PTL

-----------------------------------------------------------------------------
(* The steps of a call. *)

LEMMA StatementsLeftIs ==
  /\ StatementsLeft["key"] = 6 /\ StatementsLeft["payload"] = 5
  /\ StatementsLeft["type"] = 4 /\ StatementsLeft["text"] = 3
  /\ StatementsLeft["respond"] = 2 /\ StatementsLeft["callback"] = 1
  /\ StatementsLeft["done"] = 0 /\ StatementsLeft["dropped"] = 0
BY DEF StatementsLeft

LEMMA TurnsLeftType ==
  ASSUME IInv
  PROVE  TurnsLeft \in Nat
<1>1. CASE stage = "done"
  BY <1>1 DEF TurnsLeft
<1> QED
  BY <1>1, TurnsRemain

LEMMA StepCounts ==
  ASSUME PInv, CallNext
  PROVE  StepsLeft' \in 0..(StepsLeft - 1)
<1>1. IInv /\ at \in Statements
  BY DEF PInv, VInv, CInv
<1>2. TurnsLeft \in Nat
  BY <1>1, TurnsLeftType
<1>3. StatementsLeft[at] \in Nat
  BY <1>1, StatementsLeftIs DEF Statements
<1>4. CASE TextStep \/ TextThrows
  <2>1. at' = at /\ Next
    BY <1>4 DEF TextStep, TextThrows, callVars, Next
  <2>2. TurnsLeft' \in 0..(TurnsLeft - 1)
    BY <1>1, <2>1, TurnCounts DEF CountedDown
  <2> QED
    BY <1>2, <1>3, <2>1, <2>2 DEF StepsLeft
<1>5. ASSUME UNCHANGED vars, StatementsLeft[at'] \in 0..(StatementsLeft[at] - 1)
      PROVE  StepsLeft' \in 0..(StepsLeft - 1)
  <2>1. TurnsLeft' = TurnsLeft
    BY <1>5 DEF vars, TurnsLeft, LongestNext, Ahead
  <2> QED
    BY <1>2, <1>3, <1>5, <2>1 DEF StepsLeft
<1>6. CASE ReadKey \/ RefuseKey \/ ParsePayload \/ CheckType
  BY <1>5, <1>6, StatementsLeftIs DEF ReadKey, RefuseKey, ParsePayload, CheckType, Return, GoOn
<1>7. CASE TextReturns \/ Respond \/ Callback
  BY <1>5, <1>7, StatementsLeftIs DEF TextReturns, Respond, Callback, Return, GoOn
<1> QED
  BY <1>4, <1>6, <1>7 DEF CallNext, CallForward

\* Whatever the key, the payload and the text, a call runs out of steps.  Returns
\* adds that the thread runs, and that it is never without a next statement.
THEOREM CallIsBounded == CallSpec => CountsDown
<1>1. PInv /\ [CallNext]_allVars => [StepsLeft' \in 0..(StepsLeft - 1)]_allVars
  BY StepCounts
<1> QED
  BY <1>1, InitPInv, NextPInv, PTL DEF CallSpec, CountsDown
=============================================================================
