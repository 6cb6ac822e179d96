------------------------- MODULE TextVerdict_proofs -------------------------
(***************************************************************************)
(* TextPipeline implements TextVerdict, for every alphabet, every tables,  *)
(* every vocabulary and every text.                                        *)
(*                                                                         *)
(* The loop of a stage has at each turn computed a recursive function of   *)
(* the part of the text it has read, and the functions of the stages make  *)
(* the one-step definitions of TextVerdict up to blanks at the two ends,   *)
(* which are in no alphabet and in no word.                                *)
(***************************************************************************)
EXTENDS TextPipeline_proofs

-----------------------------------------------------------------------------
(***************************************************************************)
(* Induction.  A set of numbers, or of sequences, that is closed under the *)
(* steps that build them has them all: the least one missing would not be  *)
(* missing.  A recursive definition defines a function: the approximations *)
(* of it on the arguments of bounded rank exist and agree.                 *)
(***************************************************************************)

LEMMA Induction ==
  ASSUME NEW T \in SUBSET Nat, 0 \in T, \A n \in T : n + 1 \in T
  PROVE  T = Nat
<1> SUFFICES ASSUME NEW m \in Nat, m \notin T
             PROVE  FALSE
  OBVIOUS
<1> DEFINE missing == {k \in 1..m : k \notin T}
<1>1. missing \in SUBSET (1..m) /\ missing # {}
  <2>1. m # 0 /\ m \in missing
    OBVIOUS
  <2> QED
    BY <2>1
<1>2. Min(missing) \in missing /\ \A l \in missing : Min(missing) <= l
  <2> HIDE DEF missing
  <2> QED
    BY <1>1, MinIn
<1>3. PICK k \in missing : \A l \in missing : k <= l
  BY <1>2
<1>4. k \in 1..m /\ k \notin T /\ k - 1 \in Nat
  OBVIOUS
<1>5. k - 1 \in T
  <2>1. CASE k = 1
    BY <2>1
  <2>2. CASE k # 1
    <3>1. k - 1 \in 1..m /\ ~(k <= k - 1)
      BY <1>4, <2>2
    <3> QED
      BY <1>3, <3>1
  <2> QED
    BY <2>1, <2>2
<1> QED
  BY <1>4, <1>5

LEMMA CompleteInduction ==
  ASSUME NEW T \in SUBSET Nat,
         \A n \in Nat : (\A m \in Nat : m < n => m \in T) => n \in T
  PROVE  T = Nat
<1> DEFINE U == {k \in Nat : \A m \in Nat : m < k => m \in T}
<1>1. U \in SUBSET Nat /\ 0 \in U
  OBVIOUS
<1>2. ASSUME NEW k \in U
      PROVE  k + 1 \in U
  <2>1. k \in Nat /\ k + 1 \in Nat /\ \A m \in Nat : m < k => m \in T
    OBVIOUS
  <2>2. k \in T
    BY <2>1
  <2>3. \A m \in Nat : m < k + 1 => m < k \/ m = k
    BY <2>1
  <2> QED
    BY <2>1, <2>2, <2>3
<1>3. U = Nat
  <2> HIDE DEF U
  <2> QED
    BY <1>1, <1>2, Induction
<1> SUFFICES ASSUME NEW n \in Nat
             PROVE  n \in T
  OBVIOUS
<1>4. n + 1 \in U /\ n < n + 1
  <2> HIDE DEF U
  <2> QED
    BY <1>3
<1> QED
  BY <1>4

\* The parts of a recursive definition over D with values in S: base on B, and
\* elsewhere next, of the value at an argument of lesser rank.
Recursive(D, S, rank, B, base, pred, next) ==
  /\ rank \in [D -> Nat]
  /\ B \subseteq D /\ base \in [B -> S]
  /\ pred \in [D \ B -> D] /\ next \in [(D \ B) \X S -> S]
  /\ \A x \in D \ B : rank[pred[x]] < rank[x]

LEMMA Recursion ==
  ASSUME NEW D, NEW S, NEW rank, NEW B, NEW base, NEW pred, NEW next,
         Recursive(D, S, rank, B, base, pred, next)
  PROVE  \E f \in [D -> S] :
           f = [x \in D |-> IF x \in B THEN base[x] ELSE next[<<x, f[pred[x]]>>]]
<1> USE DEF Recursive
<1> DEFINE Below(n) == {x \in D : rank[x] < n}
           Obeys(g, x) == g[x] = IF x \in B THEN base[x] ELSE next[<<x, g[pred[x]]>>]
           Approx(n) == {g \in [Below(n) -> S] : \A x \in Below(n) : Obeys(g, x)}
<1>1. ASSUME NEW n \in Nat, NEW m \in Nat, NEW g \in Approx(n), NEW h \in Approx(m)
      PROVE  \A x \in Below(n) \cap Below(m) : g[x] = h[x]
  <2> DEFINE T == {k \in Nat : \A x \in Below(n) \cap Below(m) : rank[x] < k => g[x] = h[x]}
  <2>1. T \in SUBSET Nat /\ 0 \in T
    OBVIOUS
  <2>2. ASSUME NEW k \in T
        PROVE  k + 1 \in T
    <3> SUFFICES ASSUME NEW x \in Below(n) \cap Below(m), rank[x] < k + 1
                 PROVE  g[x] = h[x]
      OBVIOUS
    <3>1. Obeys(g, x) /\ Obeys(h, x)
      OBVIOUS
    <3>2. CASE x \in B
      BY <3>1, <3>2
    <3>3. CASE x \notin B
      <4>1. x \in D \ B /\ pred[x] \in D /\ rank[pred[x]] < rank[x]
        BY <3>3
      <4>2. rank[pred[x]] \in Nat /\ rank[x] \in Nat /\ k \in Nat
        BY <4>1
      <4>3. pred[x] \in Below(n) \cap Below(m) /\ rank[pred[x]] < k
        BY <4>1, <4>2
      <4>4. g[pred[x]] = h[pred[x]]
        BY <4>3
      <4> QED
        BY <3>1, <3>3, <4>4
    <3> QED
      BY <3>2, <3>3
  <2>3. T = Nat
    <3> HIDE DEF T
    <3> QED
      BY <2>1, <2>2, Induction
  <2> SUFFICES ASSUME NEW x \in Below(n) \cap Below(m)
               PROVE  g[x] = h[x]
    OBVIOUS
  <2>4. rank[x] + 1 \in T /\ rank[x] < rank[x] + 1
    <3>1. rank[x] \in Nat
      OBVIOUS
    <3> HIDE DEF T
    <3> QED
      BY <2>3, <3>1
  <2> QED
    BY <2>4
<1>2. \A n \in Nat : Approx(n) # {}
  <2> DEFINE T == {n \in Nat : Approx(n) # {}}
  <2>1. 0 \in T
    <3>1. Below(0) = {}
      OBVIOUS
    <3>2. [x \in {} |-> base[x]] \in Approx(0)
      BY <3>1
    <3> QED
      BY <3>2
  <2>2. ASSUME NEW n \in T
        PROVE  n + 1 \in T
    <3>1. PICK g : g \in Approx(n)
      OBVIOUS
    <3> DEFINE h == [x \in Below(n + 1) |->
                       IF x \in B THEN base[x] ELSE next[<<x, g[pred[x]]>>]]
    <3>2. ASSUME NEW x \in Below(n + 1), x \notin B
          PROVE  pred[x] \in Below(n) /\ pred[x] \in Below(n + 1)
      <4>1. x \in D \ B /\ pred[x] \in D /\ rank[pred[x]] < rank[x]
        BY <3>2
      <4>2. rank[pred[x]] \in Nat /\ rank[x] \in Nat /\ n \in Nat /\ rank[x] < n + 1
        BY <4>1
      <4>3. rank[pred[x]] < n /\ rank[pred[x]] < n + 1
        BY <4>1, <4>2
      <4> QED
        BY <4>1, <4>3
    <3>3. \A x \in Below(n) : g[x] \in S /\ Obeys(g, x)
      BY <3>1
    <3>4. h \in [Below(n + 1) -> S]
      <4> SUFFICES ASSUME NEW x \in Below(n + 1)
                   PROVE  (IF x \in B THEN base[x] ELSE next[<<x, g[pred[x]]>>]) \in S
        BY Zenon
      <4>1. CASE x \in B
        BY <4>1
      <4>2. CASE x \notin B
        <5>1. pred[x] \in Below(n) /\ x \in D \ B
          BY <3>2, <4>2
        <5>2. g[pred[x]] \in S
          BY <3>3, <5>1
        <5>3. <<x, g[pred[x]]>> \in (D \ B) \X S
          BY <5>1, <5>2
        <5> QED
          BY <4>2, <5>3
      <4> QED
        BY <4>1, <4>2
    <3>5. ASSUME NEW x \in Below(n + 1)
          PROVE  Obeys(h, x)
      <4>1. CASE x \in B
        BY <4>1
      <4>2. CASE x \notin B
        <5>1. pred[x] \in Below(n) /\ pred[x] \in Below(n + 1)
          BY <3>2, <4>2
        <5>2. h[pred[x]] = IF pred[x] \in B THEN base[pred[x]]
                           ELSE next[<<pred[x], g[pred[pred[x]]]>>]
          BY <5>1, Zenon
        <5>3. Obeys(g, pred[x])
          BY <3>3, <5>1
        <5>4. h[pred[x]] = g[pred[x]]
          BY <5>2, <5>3
        <5>5. h[x] = next[<<x, g[pred[x]]>>]
          BY <4>2
        <5> QED
          BY <4>2, <5>4, <5>5
      <4> QED
        BY <4>1, <4>2
    <3>6. h \in Approx(n + 1)
      <4> HIDE DEF h, Below, Obeys
      <4> QED
        BY <3>4, <3>5
    <3>7. n + 1 \in Nat
      OBVIOUS
    <3> QED
      BY <3>6, <3>7
  <2> HIDE DEF Approx
  <2>3. T = Nat
    <3>1. T \in SUBSET Nat
      OBVIOUS
    <3> HIDE DEF T
    <3> QED
      BY <2>1, <2>2, <3>1, Induction
  <2> QED
    BY <2>3
<1> DEFINE App(x) == CHOOSE g : g \in Approx(rank[x] + 1)
           f == [x \in D |-> App(x)[x]]
<1>3. ASSUME NEW x \in D
      PROVE  /\ App(x) \in Approx(rank[x] + 1) /\ x \in Below(rank[x] + 1)
             /\ rank[x] + 1 \in Nat
  <2>1. rank[x] \in Nat
    OBVIOUS
  <2>2. rank[x] + 1 \in Nat /\ rank[x] < rank[x] + 1
    BY <2>1
  <2>3. Approx(rank[x] + 1) # {}
    BY <1>2, <2>2
  <2> HIDE DEF Approx
  <2> QED
    BY <2>2, <2>3
<1>4. ASSUME NEW x \in D
      PROVE  f[x] \in S
  <2>1. App(x) \in [Below(rank[x] + 1) -> S]
    <3> HIDE DEF App
    <3> QED
      BY <1>3
  <2>2. f[x] = App(x)[x]
    OBVIOUS
  <2> HIDE DEF App, f, Below
  <2> QED
    BY <1>3, <2>1, <2>2
<1>5. ASSUME NEW x \in D
      PROVE  f[x] = IF x \in B THEN base[x] ELSE next[<<x, f[pred[x]]>>]
  <2>1. f[x] = App(x)[x]
    OBVIOUS
  <2>2. Obeys(App(x), x)
    <3> HIDE DEF App, Obeys
    <3> QED
      BY <1>3
  <2>3. CASE x \in B
    <3> HIDE DEF App, f
    <3> QED
      BY <2>1, <2>2, <2>3
  <2>4. CASE x \notin B
    <3>1. x \in D \ B /\ pred[x] \in D /\ rank[pred[x]] < rank[x]
      BY <2>4
    <3>2. f[pred[x]] = App(pred[x])[pred[x]]
      BY <3>1
    <3>3. pred[x] \in Below(rank[pred[x]] + 1) \cap Below(rank[x] + 1)
      <4>1. rank[pred[x]] \in Nat /\ rank[x] \in Nat
        BY <3>1
      <4> QED
        BY <3>1, <4>1
    <3>4. App(pred[x])[pred[x]] = App(x)[pred[x]]
      <4> HIDE DEF App, Approx, Below
      <4> QED
        BY <1>1, <1>3, <3>1, <3>3
    <3> HIDE DEF App, f
    <3> QED
      BY <2>1, <2>2, <2>4, <3>2, <3>4
  <2> QED
    BY <2>3, <2>4
<1>6. /\ f \in [D -> S]
      /\ f = [x \in D |-> IF x \in B THEN base[x] ELSE next[<<x, f[pred[x]]>>]]
  <2>1. f \in [D -> S]
    BY <1>4, Zenon
  <2> HIDE DEF f
  <2>2. f = [x \in D |-> f[x]]
    BY <2>1
  <2> QED
    BY <1>5, <2>1, <2>2
<1> QED
  <2> HIDE DEF f
  <2> QED
    BY <1>6

-----------------------------------------------------------------------------
(***************************************************************************)
(* Sequences, built one element at a time.                                 *)
(***************************************************************************)

\* What a loop that is at position n + 1 has read.
LEMMA Prefix ==
  ASSUME NEW C, NEW s \in Seq(C), NEW n \in 0..Len(s)
  PROVE  /\ SubSeq(s, 1, n) \in Seq(C) /\ Len(SubSeq(s, 1, n)) = n
         /\ \A k \in 1..n : SubSeq(s, 1, n)[k] = s[k]
<1>1. Len(s) \in Nat /\ n \in Nat /\ n <= Len(s)
  OBVIOUS
<1>2. \A k \in 1..n : s[k] \in C
  BY <1>1
<1>3. /\ SubSeq(s, 1, n) \in Seq(C)
      /\ Len(SubSeq(s, 1, n)) = IF 1 <= n THEN n - 1 + 1 ELSE 0
      /\ \A k \in 1..(n - 1 + 1) : SubSeq(s, 1, n)[k] = s[1 + k - 1]
  BY <1>1, <1>2, SubSeqProperties
<1>4. n - 1 + 1 = n /\ (~(1 <= n) => n = 0) /\ \A k \in 1..n : 1 + k - 1 = k
  BY <1>1
<1> QED
  BY <1>3, <1>4

LEMMA Ends ==
  ASSUME NEW C, NEW s \in Seq(C), s # <<>>
  PROVE  /\ SubSeq(s, 1, Len(s) - 1) \in Seq(C) /\ s[Len(s)] \in C
         /\ Len(SubSeq(s, 1, Len(s) - 1)) = Len(s) - 1
         /\ s = Append(SubSeq(s, 1, Len(s) - 1), s[Len(s)])
<1>1. Len(s) \in Nat /\ Len(s) # 0
  BY EmptySeq
<1>2. Len(s) - 1 \in Nat /\ Len(s) - 1 \in 0..Len(s) /\ Len(s) \in 1..Len(s)
  BY <1>1
<1>3. SubSeq(s, 1, Len(s) - 1) \in Seq(C) /\ Len(SubSeq(s, 1, Len(s) - 1)) = Len(s) - 1
  BY <1>2, Prefix
<1>4. \A k \in 1..(Len(s) - 1) : SubSeq(s, 1, Len(s) - 1)[k] = s[k]
  BY <1>2, Prefix
<1> DEFINE t == Append(SubSeq(s, 1, Len(s) - 1), s[Len(s)])
<1>5. s[Len(s)] \in C
  BY <1>2
<1>6. /\ t \in Seq(C) /\ Len(t) = Len(s) /\ t[Len(s)] = s[Len(s)]
      /\ \A k \in 1..(Len(s) - 1) : t[k] = s[k]
  BY <1>1, <1>3, <1>4, <1>5, AppendProperties
<1>7. s = t
  <2> HIDE DEF t
  <2>1. \A k \in 1..Len(s) : s[k] = t[k]
    BY <1>1, <1>6
  <2> QED
    BY <1>6, <2>1, SeqEqual
<1> QED
  BY <1>3, <1>5, <1>7

LEMMA Extended ==
  ASSUME NEW C, NEW s \in Seq(C), NEW c \in C
  PROVE  /\ Append(s, c) \in Seq(C) /\ Append(s, c) # <<>>
         /\ Len(Append(s, c)) = Len(s) + 1
         /\ DOMAIN Append(s, c) = 1..(Len(s) + 1)
         /\ Append(s, c)[Len(s) + 1] = c
         /\ \A k \in 1..Len(s) : Append(s, c)[k] = s[k]
         /\ SubSeq(Append(s, c), 1, Len(s)) = s
<1>1. /\ Append(s, c) \in Seq(C) /\ Len(Append(s, c)) = Len(s) + 1 /\ Len(s) \in Nat
      /\ Append(s, c)[Len(s) + 1] = c
      /\ \A k \in 1..Len(s) : Append(s, c)[k] = s[k]
  BY AppendProperties
<1>2. Append(s, c) # <<>> /\ DOMAIN Append(s, c) = 1..(Len(s) + 1)
  BY <1>1, EmptySeq
<1> DEFINE t == SubSeq(Append(s, c), 1, Len(s))
<1>3. /\ t \in Seq(C) /\ Len(t) = Len(s)
      /\ \A k \in 1..Len(s) : t[k] = Append(s, c)[k]
  <2>1. Len(s) \in 0..Len(Append(s, c))
    BY <1>1
  <2> QED
    BY <1>1, <2>1, Prefix
<1>4. t = s
  <2> HIDE DEF t
  <2>1. \A k \in 1..Len(s) : t[k] = s[k]
    BY <1>1, <1>3
  <2> QED
    BY <1>3, <2>1, SeqEqual
<1> QED
  BY <1>1, <1>2, <1>4

LEMMA SeqInduction ==
  ASSUME NEW C, NEW T \in SUBSET Seq(C), <<>> \in T,
         \A s \in T, c \in C : Append(s, c) \in T
  PROVE  T = Seq(C)
<1> DEFINE N == {n \in Nat : \A s \in Seq(C) : Len(s) = n => s \in T}
<1>1. 0 \in N
  BY EmptySeq
<1>2. ASSUME NEW n \in N
      PROVE  n + 1 \in N
  <2> SUFFICES ASSUME NEW s \in Seq(C), Len(s) = n + 1
               PROVE  s \in T
    OBVIOUS
  <2>1. s # <<>> /\ n \in Nat /\ Len(s) - 1 = n
    BY EmptySeq
  <2>2. SubSeq(s, 1, Len(s) - 1) \in T /\ s[Len(s)] \in C
    BY <2>1, Ends
  <2> QED
    BY <2>1, <2>2, Ends
<1>3. N = Nat
  <2>1. N \in SUBSET Nat
    OBVIOUS
  <2> HIDE DEF N
  <2> QED
    BY <1>1, <1>2, <2>1, Induction
<1> SUFFICES ASSUME NEW s \in Seq(C)
             PROVE  s \in T
  OBVIOUS
<1>4. Len(s) \in N
  BY <1>3
<1> QED
  BY <1>4

\* What the first value has and every further element keeps.
LEMMA Values ==
  ASSUME NEW C, NEW S, NEW f, f[<<>>] \in S,
         \A s \in Seq(C), c \in C : f[s] \in S => f[Append(s, c)] \in S
  PROVE  \A s \in Seq(C) : f[s] \in S
<1> DEFINE T == {s \in Seq(C) : f[s] \in S}
<1>1. <<>> \in T /\ T \in SUBSET Seq(C)
  OBVIOUS
<1>2. ASSUME NEW s \in T, NEW c \in C
      PROVE  Append(s, c) \in T
  <2>1. s \in Seq(C) /\ f[s] \in S
    OBVIOUS
  <2>2. Append(s, c) \in Seq(C) /\ f[Append(s, c)] \in S
    BY <2>1, Extended
  <2> QED
    BY <2>2
<1>3. T = Seq(C)
  <2> HIDE DEF T
  <2> QED
    BY <1>1, <1>2, SeqInduction
<1> QED
  BY <1>3

\* f is defined by recursion on all but the last element.
OnSequences(f, C, first, next) ==
  f = [s \in Seq(C) |->
         IF s = <<>> THEN first ELSE next[<<s, f[SubSeq(s, 1, Len(s) - 1)]>>]]

LEMMA SeqRecursion ==
  ASSUME NEW C, NEW S, NEW first \in S, NEW next \in [(Seq(C) \ {<<>>}) \X S -> S]
  PROVE  \E f \in [Seq(C) -> S] : OnSequences(f, C, first, next)
<1> DEFINE D == Seq(C)
           B == {<<>>}
           rank == [s \in D |-> Len(s)]
           base == [s \in B |-> first]
           pred == [s \in D \ B |-> SubSeq(s, 1, Len(s) - 1)]
<1>1. /\ rank \in [D -> Nat] /\ B \in SUBSET D /\ base \in [B -> S]
      /\ next \in [(D \ B) \X S -> S]
  OBVIOUS
<1>2. \A s \in D \ B : /\ SubSeq(s, 1, Len(s) - 1) \in D
                       /\ Len(SubSeq(s, 1, Len(s) - 1)) < Len(s)
  <2> SUFFICES ASSUME NEW s \in Seq(C), s # <<>>
               PROVE  /\ SubSeq(s, 1, Len(s) - 1) \in Seq(C)
                      /\ Len(SubSeq(s, 1, Len(s) - 1)) < Len(s)
    OBVIOUS
  <2>1. SubSeq(s, 1, Len(s) - 1) \in Seq(C) /\ Len(SubSeq(s, 1, Len(s) - 1)) = Len(s) - 1
    BY Ends
  <2>2. Len(s) \in Nat
    OBVIOUS
  <2> QED
    BY <2>1, <2>2
<1>3. pred \in [D \ B -> D] /\ \A s \in D \ B : rank[pred[s]] < rank[s]
  <2> HIDE DEF D, B
  <2> QED
    BY <1>2
<1>4. PICK f \in [D -> S] :
        f = [s \in D |-> IF s \in B THEN base[s] ELSE next[<<s, f[pred[s]]>>]]
  <2> HIDE DEF D, B, rank, base, pred
  <2>1. Recursive(D, S, rank, B, base, pred, next)
    BY <1>1, <1>3 DEF Recursive
  <2> QED
    BY <2>1, Recursion
<1>5. \A s \in D : f[s] = IF s = <<>> THEN first
                          ELSE next[<<s, f[SubSeq(s, 1, Len(s) - 1)]>>]
  <2> HIDE DEF D
  <2> QED
    BY <1>4
<1>6. f = [s \in D |-> IF s = <<>> THEN first ELSE next[<<s, f[SubSeq(s, 1, Len(s) - 1)]>>]]
  <2> HIDE DEF D
  <2>1. f = [s \in D |-> f[s]]
    BY <1>4
  <2> QED
    BY <1>5, <2>1
<1> QED
  BY <1>6 DEF OnSequences

\* The function that next computes, one element after the other, from first.
Fold(C, first, next) ==
  CHOOSE f : f = [s \in Seq(C) |->
                    IF s = <<>> THEN first
                    ELSE next[<<f[SubSeq(s, 1, Len(s) - 1)], s[Len(s)]>>]]

\* Such a function, with its values in S.
Folds(f, C, S, first, next) ==
  /\ f[<<>>] = first
  /\ \A s \in Seq(C) : f[s] \in S
  /\ \A s \in Seq(C), c \in C : f[Append(s, c)] = next[<<f[s], c>>]

LEMMA FoldLaw ==
  ASSUME NEW C, NEW S, NEW first \in S, NEW next \in [S \X C -> S]
  PROVE  Folds(Fold(C, first, next), C, S, first, next)
<1> DEFINE step == [p \in (Seq(C) \ {<<>>}) \X S |-> next[<<p[2], p[1][Len(p[1])]>>]]
<1>1. step \in [(Seq(C) \ {<<>>}) \X S -> S]
  <2> SUFFICES ASSUME NEW s \in Seq(C) \ {<<>>}, NEW r \in S
               PROVE  next[<<r, s[Len(s)]>>] \in S
    OBVIOUS
  <2>1. s[Len(s)] \in C
    BY Ends
  <2> QED
    BY <2>1
<1>2. PICK f \in [Seq(C) -> S] : OnSequences(f, C, first, step)
  <2> HIDE DEF step
  <2> QED
    BY <1>1, SeqRecursion
<1>3. ASSUME NEW s \in Seq(C), s # <<>>
      PROVE  f[s] = next[<<f[SubSeq(s, 1, Len(s) - 1)], s[Len(s)]>>]
  <2>1. f[s] = step[<<s, f[SubSeq(s, 1, Len(s) - 1)]>>]
    <3> HIDE DEF step
    <3> QED
      BY <1>2, <1>3 DEF OnSequences
  <2>2. f[SubSeq(s, 1, Len(s) - 1)] \in S
    BY <1>3, Ends
  <2> QED
    BY <1>3, <2>1, <2>2
<1>4. f = [s \in Seq(C) |->
             IF s = <<>> THEN first
             ELSE next[<<f[SubSeq(s, 1, Len(s) - 1)], s[Len(s)]>>]]
  <2>1. f = [s \in Seq(C) |-> f[s]]
    OBVIOUS
  <2>2. f[<<>>] = first
    <3> HIDE DEF step
    <3> QED
      BY <1>2 DEF OnSequences
  <2> QED
    BY <1>3, <2>1, <2>2
<1> DEFINE F == Fold(C, first, next)
<1>5. F = [s \in Seq(C) |->
             IF s = <<>> THEN first
             ELSE next[<<F[SubSeq(s, 1, Len(s) - 1)], s[Len(s)]>>]]
  BY <1>4, Zenon DEF Fold
<1> HIDE DEF F
<1>6. F[<<>>] = first
  BY <1>5
<1>7. ASSUME NEW s \in Seq(C), NEW c \in C
      PROVE  F[Append(s, c)] = next[<<F[s], c>>]
  <2>1. Append(s, c) \in Seq(C) /\ Append(s, c) # <<>> /\ Len(Append(s, c)) = Len(s) + 1
        /\ Append(s, c)[Len(s) + 1] = c /\ SubSeq(Append(s, c), 1, Len(s)) = s
    BY Extended
  <2>2. Len(s) + 1 - 1 = Len(s)
    OBVIOUS
  <2> DEFINE t == Append(s, c)
  <2>3. t \in Seq(C) /\ t # <<>>
    BY <2>1
  <2>4. SubSeq(t, 1, Len(t) - 1) = s /\ t[Len(t)] = c
    BY <2>1, <2>2
  <2> HIDE DEF t
  <2>5. F[t] = next[<<F[SubSeq(t, 1, Len(t) - 1)], t[Len(t)]>>]
    BY <1>5, <2>3
  <2> QED
    BY <2>4, <2>5 DEF t
<1>8. \A s \in Seq(C) : F[s] \in S
  <2>1. F[<<>>] \in S /\ \A s \in Seq(C), c \in C : F[s] \in S => F[Append(s, c)] \in S
    BY <1>6, <1>7
  <2> QED
    BY <2>1, Values
<1> QED
  BY <1>6, <1>7, <1>8 DEF F, Folds

-----------------------------------------------------------------------------
(***************************************************************************)
(* The functions of TextVerdict, by their last character.                  *)
(***************************************************************************)

LEMMA VerdictEnds ==
  ASSUME NEW s \in Seq(Chars)
  PROVE  Verdict!Last(s) = s[Len(s)] /\ Verdict!Front(s) = SubSeq(s, 1, Len(s) - 1)
BY DEF Verdict!Last, Verdict!Front

LEMMA VisibleLaw ==
  /\ Verdict!Visible[<<>>] = <<>>
  /\ \A s \in Seq(Chars) : Verdict!Visible[s] \in Seq(Chars)
  /\ \A s \in Seq(Chars), c \in Chars :
       Verdict!Visible[Append(s, c)] =
         IF c \in Invisible THEN Verdict!Visible[s] ELSE Append(Verdict!Visible[s], c)
<1> DEFINE step == [p \in (Seq(Chars) \ {<<>>}) \X Seq(Chars) |->
                      IF p[1][Len(p[1])] \in Invisible THEN p[2]
                      ELSE Append(p[2], p[1][Len(p[1])])]
<1>1. step \in [(Seq(Chars) \ {<<>>}) \X Seq(Chars) -> Seq(Chars)]
  <2> SUFFICES ASSUME NEW s \in Seq(Chars) \ {<<>>}, NEW r \in Seq(Chars)
               PROVE  (IF s[Len(s)] \in Invisible THEN r ELSE Append(r, s[Len(s)]))
                        \in Seq(Chars)
    OBVIOUS
  <2> QED
    BY Ends, AppendProperties
<1>2. PICK f \in [Seq(Chars) -> Seq(Chars)] : OnSequences(f, Chars, <<>>, step)
  <2>1. <<>> \in Seq(Chars)
    OBVIOUS
  <2> HIDE DEF step
  <2> QED
    BY <1>1, <2>1, SeqRecursion
<1>3. ASSUME NEW s \in Seq(Chars)
      PROVE  f[s] = IF s = <<>> THEN <<>>
                    ELSE IF Verdict!Last(s) \in Invisible THEN f[Verdict!Front(s)]
                    ELSE Append(f[Verdict!Front(s)], Verdict!Last(s))
  <2>1. CASE s = <<>>
    <3> HIDE DEF step
    <3> QED
      BY <1>2, <2>1 DEF OnSequences
  <2>2. CASE s # <<>>
    <3>1. f[s] = step[<<s, f[SubSeq(s, 1, Len(s) - 1)]>>]
      <4> HIDE DEF step
      <4> QED
        BY <1>2, <2>2 DEF OnSequences
    <3>2. f[SubSeq(s, 1, Len(s) - 1)] \in Seq(Chars)
      BY <2>2, Ends
    <3> QED
      BY <2>2, <3>1, <3>2, VerdictEnds
  <2> QED
    BY <2>1, <2>2
<1>4. f = [s \in Seq(Chars) |->
             IF s = <<>> THEN <<>>
             ELSE IF Verdict!Last(s) \in Invisible THEN f[Verdict!Front(s)]
             ELSE Append(f[Verdict!Front(s)], Verdict!Last(s))]
  <2>1. f = [s \in Seq(Chars) |-> f[s]]
    OBVIOUS
  <2> QED
    BY <1>3, <2>1
<1> DEFINE V == Verdict!Visible
<1>5. V = [s \in Seq(Chars) |->
             IF s = <<>> THEN <<>>
             ELSE IF Verdict!Last(s) \in Invisible THEN V[Verdict!Front(s)]
             ELSE Append(V[Verdict!Front(s)], Verdict!Last(s))]
  BY <1>4, Zenon DEF Verdict!Visible
<1> HIDE DEF V
<1>6. V[<<>>] = <<>>
  BY <1>5
<1>7. ASSUME NEW s \in Seq(Chars), NEW c \in Chars
      PROVE  V[Append(s, c)] = IF c \in Invisible THEN V[s] ELSE Append(V[s], c)
  <2> DEFINE t == Append(s, c)
  <2>1. t \in Seq(Chars) /\ t # <<>> /\ Len(t) - 1 = Len(s)
        /\ SubSeq(t, 1, Len(s)) = s /\ t[Len(t)] = c
    BY Extended
  <2> HIDE DEF t
  <2>2. Verdict!Last(t) = c /\ Verdict!Front(t) = s
    BY <2>1, VerdictEnds
  <2>3. V[t] = IF Verdict!Last(t) \in Invisible THEN V[Verdict!Front(t)]
               ELSE Append(V[Verdict!Front(t)], Verdict!Last(t))
    BY <1>5, <2>1
  <2> QED
    BY <2>2, <2>3 DEF t
<1>8. \A s \in Seq(Chars) : V[s] \in Seq(Chars)
  <2>1. V[<<>>] \in Seq(Chars)
    BY <1>6
  <2>2. ASSUME NEW s \in Seq(Chars), NEW c \in Chars, V[s] \in Seq(Chars)
        PROVE  V[Append(s, c)] \in Seq(Chars)
    <3>1. Append(V[s], c) \in Seq(Chars)
      BY <2>2, Extended
    <3> QED
      BY <1>7, <2>2, <3>1
  <2> QED
    BY <2>1, <2>2, Values
<1> QED
  BY <1>6, <1>7, <1>8 DEF V

LEMMA SqueezedLaw ==
  /\ Verdict!Squeezed[<<>>] = <<>>
  /\ \A s \in Seq(Chars) : Verdict!Squeezed[s] \in Seq(Chars)
  /\ \A s \in Seq(Chars), c \in Chars :
       Verdict!Squeezed[Append(s, c)] =
         IF s # <<>> /\ c = s[Len(s)] THEN Verdict!Squeezed[s]
         ELSE Append(Verdict!Squeezed[s], c)
<1> DEFINE step == [p \in (Seq(Chars) \ {<<>>}) \X Seq(Chars) |->
                      IF Len(p[1]) > 1 /\ p[1][Len(p[1])] = p[1][Len(p[1]) - 1]
                      THEN p[2] ELSE Append(p[2], p[1][Len(p[1])])]
<1>1. step \in [(Seq(Chars) \ {<<>>}) \X Seq(Chars) -> Seq(Chars)]
  <2> SUFFICES ASSUME NEW s \in Seq(Chars) \ {<<>>}, NEW r \in Seq(Chars)
               PROVE  (IF Len(s) > 1 /\ s[Len(s)] = s[Len(s) - 1] THEN r
                       ELSE Append(r, s[Len(s)])) \in Seq(Chars)
    OBVIOUS
  <2> QED
    BY Ends, AppendProperties
<1>2. PICK f \in [Seq(Chars) -> Seq(Chars)] : OnSequences(f, Chars, <<>>, step)
  <2>1. <<>> \in Seq(Chars)
    OBVIOUS
  <2> HIDE DEF step
  <2> QED
    BY <1>1, <2>1, SeqRecursion
<1> DEFINE Repeats(s) == Len(s) > 1 /\ Verdict!Last(s) = Verdict!Last(Verdict!Front(s))
<1>3. ASSUME NEW s \in Seq(Chars), s # <<>>
      PROVE  Repeats(s) <=> Len(s) > 1 /\ s[Len(s)] = s[Len(s) - 1]
  <2>1. CASE Len(s) > 1
    <3>1. /\ Len(s) - 1 \in 0..Len(s) /\ Len(s) - 1 \in 1..(Len(s) - 1)
          /\ Verdict!Last(s) = s[Len(s)] /\ Verdict!Front(s) = SubSeq(s, 1, Len(s) - 1)
      BY <2>1, VerdictEnds
    <3>2. /\ SubSeq(s, 1, Len(s) - 1) \in Seq(Chars)
          /\ Len(SubSeq(s, 1, Len(s) - 1)) = Len(s) - 1
          /\ SubSeq(s, 1, Len(s) - 1)[Len(s) - 1] = s[Len(s) - 1]
      BY <3>1, Prefix
    <3>3. Verdict!Last(Verdict!Front(s)) = s[Len(s) - 1]
      BY <3>1, <3>2, VerdictEnds
    <3> QED
      BY <3>1, <3>3
  <2> QED
    BY <2>1
<1>4. ASSUME NEW s \in Seq(Chars)
      PROVE  f[s] = IF s = <<>> THEN <<>>
                    ELSE IF Repeats(s) THEN f[Verdict!Front(s)]
                    ELSE Append(f[Verdict!Front(s)], Verdict!Last(s))
  <2>1. CASE s = <<>>
    <3> HIDE DEF step
    <3> QED
      BY <1>2, <2>1 DEF OnSequences
  <2>2. CASE s # <<>>
    <3>1. f[s] = step[<<s, f[SubSeq(s, 1, Len(s) - 1)]>>]
      <4> HIDE DEF step
      <4> QED
        BY <1>2, <2>2 DEF OnSequences
    <3>2. f[SubSeq(s, 1, Len(s) - 1)] \in Seq(Chars)
      BY <2>2, Ends
    <3>3. f[s] = IF Len(s) > 1 /\ s[Len(s)] = s[Len(s) - 1]
                 THEN f[SubSeq(s, 1, Len(s) - 1)]
                 ELSE Append(f[SubSeq(s, 1, Len(s) - 1)], s[Len(s)])
      BY <2>2, <3>1, <3>2
    <3> HIDE DEF Repeats, step
    <3> QED
      BY <1>3, <2>2, <3>3, VerdictEnds
  <2> QED
    BY <2>1, <2>2
<1>5. f = [s \in Seq(Chars) |->
             IF s = <<>> THEN <<>>
             ELSE IF Repeats(s) THEN f[Verdict!Front(s)]
             ELSE Append(f[Verdict!Front(s)], Verdict!Last(s))]
  <2>1. f = [s \in Seq(Chars) |-> f[s]]
    OBVIOUS
  <2> HIDE DEF Repeats, step
  <2> QED
    BY <1>4, <2>1
<1> DEFINE V == Verdict!Squeezed
<1>6. V = [s \in Seq(Chars) |->
             IF s = <<>> THEN <<>>
             ELSE IF Repeats(s) THEN V[Verdict!Front(s)]
             ELSE Append(V[Verdict!Front(s)], Verdict!Last(s))]
  BY <1>5, Zenon DEF Verdict!Squeezed
<1> HIDE DEF V
<1>7. V[<<>>] = <<>>
  BY <1>6
<1>8. ASSUME NEW s \in Seq(Chars), NEW c \in Chars
      PROVE  V[Append(s, c)] = IF s # <<>> /\ c = s[Len(s)] THEN V[s] ELSE Append(V[s], c)
  <2> DEFINE t == Append(s, c)
  <2>1. t \in Seq(Chars) /\ t # <<>> /\ Len(t) - 1 = Len(s) /\ Len(t) = Len(s) + 1
        /\ SubSeq(t, 1, Len(s)) = s /\ t[Len(t)] = c
        /\ \A k \in 1..Len(s) : t[k] = s[k]
    BY Extended
  <2>2. Len(s) \in Nat /\ (s # <<>> <=> Len(s) > 0)
    BY EmptySeq
  <2> HIDE DEF t
  <2>3. Verdict!Last(t) = c /\ Verdict!Front(t) = s
    BY <2>1, VerdictEnds
  <2>4. Repeats(t) <=> s # <<>> /\ c = s[Len(s)]
    <3>1. Repeats(t) <=> Len(t) > 1 /\ t[Len(t)] = t[Len(t) - 1]
      <4> HIDE DEF Repeats
      <4> QED
        BY <1>3, <2>1
    <3> HIDE DEF Repeats
    <3>2. s # <<>> => t[Len(t) - 1] = s[Len(s)]
      BY <2>1, <2>2
    <3>3. Len(t) > 1 <=> s # <<>>
      BY <2>1, <2>2
    <3> QED
      BY <2>1, <3>1, <3>2, <3>3
  <2>5. V[t] = IF Repeats(t) THEN V[Verdict!Front(t)]
               ELSE Append(V[Verdict!Front(t)], Verdict!Last(t))
    <3> HIDE DEF Repeats
    <3> QED
      BY <1>6, <2>1
  <2> HIDE DEF Repeats
  <2> QED
    BY <2>3, <2>4, <2>5 DEF t
<1>9. \A s \in Seq(Chars) : V[s] \in Seq(Chars)
  <2>1. V[<<>>] \in Seq(Chars)
    BY <1>7
  <2>2. ASSUME NEW s \in Seq(Chars), NEW c \in Chars, V[s] \in Seq(Chars)
        PROVE  V[Append(s, c)] \in Seq(Chars)
    <3>1. Append(V[s], c) \in Seq(Chars)
      BY <2>2, Extended
    <3> QED
      BY <1>8, <2>2, <3>1
  <2> QED
    BY <2>1, <2>2, Values
<1> QED
  BY <1>7, <1>8, <1>9 DEF V

-----------------------------------------------------------------------------
(***************************************************************************)
(* What the loops of JoinWhite and SkipRepeated have written, as functions *)
(* of what they have read.                                                 *)
(***************************************************************************)

End(s) == s[Len(s)]
Shown(c) == IF c \in White THEN Space ELSE c

\* JoinWhite writes nothing for c after what it has written, r.
Dropped(r, c) == c \in White /\ (r = <<>> \/ End(r) = Space)
Joins(r, c) == IF Dropped(r, c) THEN r ELSE Append(r, Shown(c))
Joined == Fold(Chars, <<>>, [p \in Seq(Chars) \X Chars |-> Joins(p[1], p[2])])

\* SkipRepeated after what it has written.
Skips(r, c) == IF c = (IF r = <<>> THEN Nul ELSE End(r)) THEN r ELSE Append(r, c)
Single == Fold(Chars, <<>>, [p \in Seq(Chars) \X Chars |-> Skips(p[1], p[2])])

LEMMA ShownType ==
  ASSUME NEW c \in Chars
  PROVE  /\ Shown(c) \in Chars
         /\ c \in White => Shown(c) = Space
         /\ c \notin White => Shown(c) = c /\ Shown(c) # Space
BY TextAssumption DEF Shown

LEMMA JoinedLaw ==
  /\ Joined[<<>>] = <<>>
  /\ \A s \in Seq(Chars) : Joined[s] \in Seq(Chars)
  /\ \A s \in Seq(Chars), c \in Chars : Joined[Append(s, c)] = Joins(Joined[s], c)
<1> DEFINE next == [p \in Seq(Chars) \X Chars |-> Joins(p[1], p[2])]
<1>1. next \in [Seq(Chars) \X Chars -> Seq(Chars)] /\ <<>> \in Seq(Chars)
  <2>1. ASSUME NEW r \in Seq(Chars), NEW c \in Chars
        PROVE  Joins(r, c) \in Seq(Chars)
    BY ShownType, Extended DEF Joins
  <2> QED
    BY <2>1
<1>2. \A r \in Seq(Chars), c \in Chars : next[<<r, c>>] = Joins(r, c)
  OBVIOUS
<1>3. Joined = Fold(Chars, <<>>, next)
  BY DEF Joined
<1> HIDE DEF next
<1>4. Folds(Joined, Chars, Seq(Chars), <<>>, next)
  BY <1>1, <1>3, FoldLaw
<1> QED
  BY <1>2, <1>4 DEF Folds

LEMMA SingleLaw ==
  /\ Single[<<>>] = <<>>
  /\ \A s \in Seq(Chars) : Single[s] \in Seq(Chars)
  /\ \A s \in Seq(Chars), c \in Chars : Single[Append(s, c)] = Skips(Single[s], c)
<1> DEFINE next == [p \in Seq(Chars) \X Chars |-> Skips(p[1], p[2])]
<1>1. next \in [Seq(Chars) \X Chars -> Seq(Chars)] /\ <<>> \in Seq(Chars)
  <2>1. ASSUME NEW r \in Seq(Chars), NEW c \in Chars
        PROVE  Skips(r, c) \in Seq(Chars)
    BY Extended DEF Skips
  <2> QED
    BY <2>1
<1>2. \A r \in Seq(Chars), c \in Chars : next[<<r, c>>] = Skips(r, c)
  OBVIOUS
<1>3. Single = Fold(Chars, <<>>, next)
  BY DEF Single
<1> HIDE DEF next
<1>4. Folds(Single, Chars, Seq(Chars), <<>>, next)
  BY <1>1, <1>3, FoldLaw
<1> QED
  BY <1>2, <1>4 DEF Folds

-----------------------------------------------------------------------------
(***************************************************************************)
(* What TextVerdict makes of the same text.                                *)
(***************************************************************************)

Whitened(s) == [k \in DOMAIN s |-> Shown(s[k])]
Plain(s) == Verdict!Squeezed[Whitened(Verdict!Visible[s])]

\* Without a repetition a text ends as it did.
LEMMA SqueezedEnd ==
  \A s \in Seq(Chars) :
    s # <<>> => Verdict!Squeezed[s] # <<>> /\ End(Verdict!Squeezed[s]) = End(s)
<1> DEFINE T == {s \in Seq(Chars) :
                   s # <<>> => Verdict!Squeezed[s] # <<>> /\ End(Verdict!Squeezed[s]) = End(s)}
<1>1. <<>> \in T /\ T \in SUBSET Seq(Chars)
  OBVIOUS
<1>2. ASSUME NEW s \in T, NEW c \in Chars
      PROVE  Append(s, c) \in T
  <2>1. /\ s \in Seq(Chars) /\ Verdict!Squeezed[s] \in Seq(Chars)
        /\ s # <<>> => Verdict!Squeezed[s] # <<>> /\ End(Verdict!Squeezed[s]) = End(s)
    BY SqueezedLaw
  <2>2. Append(s, c) \in Seq(Chars) /\ End(Append(s, c)) = c
    BY <2>1, Extended DEF End
  <2>3. CASE s # <<>> /\ c = s[Len(s)]
    <3>1. Verdict!Squeezed[Append(s, c)] = Verdict!Squeezed[s]
      BY <2>1, <2>3, SqueezedLaw
    <3> QED
      BY <2>1, <2>2, <2>3, <3>1 DEF End
  <2>4. CASE ~(s # <<>> /\ c = s[Len(s)])
    <3>1. Verdict!Squeezed[Append(s, c)] = Append(Verdict!Squeezed[s], c)
      BY <2>1, <2>4, SqueezedLaw
    <3>2. /\ Append(Verdict!Squeezed[s], c) # <<>>
          /\ End(Append(Verdict!Squeezed[s], c)) = c
      BY <2>1, Extended DEF End
    <3> QED
      BY <2>2, <3>1, <3>2
  <2> QED
    BY <2>3, <2>4
<1>3. T = Seq(Chars)
  <2> HIDE DEF T
  <2> QED
    BY <1>1, <1>2, SeqInduction
<1> QED
  BY <1>3

LEMMA WhitenedLaw ==
  /\ Whitened(<<>>) = <<>>
  /\ \A s \in Seq(Chars) : Whitened(s) \in Seq(Chars) /\ Len(Whitened(s)) = Len(s)
  /\ \A s \in Seq(Chars), c \in Chars :
       Whitened(Append(s, c)) = Append(Whitened(s), Shown(c))
<1>1. \A s \in Seq(Chars) : Whitened(s) \in Seq(Chars) /\ Len(Whitened(s)) = Len(s)
  <2> SUFFICES ASSUME NEW s \in Seq(Chars)
               PROVE  Whitened(s) \in Seq(Chars) /\ Len(Whitened(s)) = Len(s)
    OBVIOUS
  <2>1. \A k \in DOMAIN s : Shown(s[k]) \in Chars
    BY ShownType
  <2> QED
    BY <2>1 DEF Whitened
<1>2. Whitened(<<>>) = <<>>
  <2>1. <<>> \in Seq(Chars) /\ Len(<<>>) = 0
    OBVIOUS
  <2> QED
    BY <1>1, <2>1, EmptySeq
<1>3. ASSUME NEW s \in Seq(Chars), NEW c \in Chars
      PROVE  Whitened(Append(s, c)) = Append(Whitened(s), Shown(c))
  <2> DEFINE t == Append(s, c)
             w == Append(Whitened(s), Shown(c))
  <2>1. /\ t \in Seq(Chars) /\ Len(t) = Len(s) + 1 /\ DOMAIN t = 1..(Len(s) + 1)
        /\ t[Len(s) + 1] = c /\ \A k \in 1..Len(s) : t[k] = s[k]
    BY Extended
  <2>2. Shown(c) \in Chars /\ Len(s) \in Nat
    BY ShownType
  <2>3. /\ w \in Seq(Chars) /\ Len(w) = Len(s) + 1
        /\ w[Len(s) + 1] = Shown(c) /\ \A k \in 1..Len(s) : w[k] = Whitened(s)[k]
    BY <1>1, <2>2, Extended
  <2> HIDE DEF t, w
  <2>4. Whitened(t) \in Seq(Chars) /\ Len(Whitened(t)) = Len(s) + 1
    BY <1>1, <2>1
  <2>5. \A k \in 1..(Len(s) + 1) : Whitened(t)[k] = Shown(t[k])
    BY <2>1 DEF Whitened
  <2>6. \A k \in 1..Len(s) : Whitened(s)[k] = Shown(s[k])
    BY DEF Whitened
  <2>7. \A k \in 1..(Len(s) + 1) : Whitened(t)[k] = w[k]
    BY <2>1, <2>2, <2>3, <2>5, <2>6
  <2>8. Whitened(t) = w
    BY <2>3, <2>4, <2>7, SeqEqual
  <2> QED
    BY <2>8 DEF t, w
<1> QED
  BY <1>1, <1>2, <1>3

\* A visible character after what has been made plain.
Adds(r, c) == IF r # <<>> /\ End(r) = Shown(c) THEN r ELSE Append(r, Shown(c))

LEMMA PlainLaw ==
  /\ Plain(<<>>) = <<>>
  /\ \A s \in Seq(Chars) : Plain(s) \in Seq(Chars)
  /\ \A s \in Seq(Chars), c \in Chars :
       Plain(Append(s, c)) = IF c \in Invisible THEN Plain(s) ELSE Adds(Plain(s), c)
<1>1. Plain(<<>>) = <<>>
  BY VisibleLaw, WhitenedLaw, SqueezedLaw DEF Plain
<1>2. \A s \in Seq(Chars) : Plain(s) \in Seq(Chars)
  BY VisibleLaw, WhitenedLaw, SqueezedLaw DEF Plain
<1>3. ASSUME NEW s \in Seq(Chars), NEW c \in Chars
      PROVE  Plain(Append(s, c)) = IF c \in Invisible THEN Plain(s) ELSE Adds(Plain(s), c)
  <2> DEFINE w == Whitened(Verdict!Visible[s])
  <2>1. Verdict!Visible[s] \in Seq(Chars) /\ w \in Seq(Chars) /\ Shown(c) \in Chars
    BY VisibleLaw, WhitenedLaw, ShownType
  <2>2. CASE c \in Invisible
    BY <2>2, VisibleLaw DEF Plain
  <2>3. CASE c \notin Invisible
    <3>1. Verdict!Visible[Append(s, c)] = Append(Verdict!Visible[s], c)
      BY <2>3, VisibleLaw
    <3>2. Whitened(Append(Verdict!Visible[s], c)) = Append(w, Shown(c))
      BY <2>1, WhitenedLaw
    <3>3. Verdict!Squeezed[Append(w, Shown(c))] =
            IF w # <<>> /\ Shown(c) = End(w) THEN Verdict!Squeezed[w]
            ELSE Append(Verdict!Squeezed[w], Shown(c))
      <4> HIDE DEF w
      <4> QED
        BY <2>1, SqueezedLaw DEF End
    <3>4. /\ w = <<>> <=> Verdict!Squeezed[w] = <<>>
          /\ w # <<>> => End(Verdict!Squeezed[w]) = End(w)
      <4> HIDE DEF w
      <4> QED
        BY <2>1, SqueezedLaw, SqueezedEnd
    <3>5. Plain(s) = Verdict!Squeezed[w]
      BY DEF Plain
    <3>6. Plain(Append(s, c)) = Verdict!Squeezed[Append(w, Shown(c))]
      BY <3>1, <3>2 DEF Plain
    <3> HIDE DEF w
    <3> QED
      BY <2>3, <3>3, <3>4, <3>5, <3>6 DEF Adds
  <2> QED
    BY <2>2, <2>3
<1> QED
  BY <1>1, <1>2, <1>3

-----------------------------------------------------------------------------
(***************************************************************************)
(* The two agree up to blanks: what TextVerdict makes of a text is, but    *)
(* for blanks at its ends, what the loops make of the trimmed text.        *)
(***************************************************************************)

Blank == {Space, Nul}
Looped(s) == Single[Joined[Verdict!Visible[s]]]

\* A name of its own keeps the provers from taking concatenations apart.
Joint(s, t) == s \o t

\* What is plain, p, has nothing but blanks before what SkipRepeated has
\* written, f, of what JoinWhite had written, j.
Matches(p, f, j) ==
  \E pre \in Seq(Blank) :
    /\ p = Joint(pre, f)
    /\ f # <<>> => j # <<>> /\ End(j) = End(f)
    /\ f = <<>> /\ j = <<>> => pre \in Seq({Space})
    /\ f = <<>> /\ j # <<>> => End(j) = Nul /\ pre # <<>> /\ End(pre) = Nul

LEMMA Ended ==
  ASSUME NEW C, NEW s \in Seq(C), NEW c \in C
  PROVE  End(Append(s, c)) = c /\ Append(s, c) # <<>> /\ Append(s, c) \in Seq(C)
BY Extended DEF End

LEMMA JointAppend ==
  ASSUME NEW C, NEW s \in Seq(C), NEW t \in Seq(C), NEW c \in C
  PROVE  Append(Joint(s, t), c) = Joint(s, Append(t, c))
<1>1. Append(s \o t, c) = s \o Append(t, c)
  OBVIOUS
<1> QED
  BY <1>1 DEF Joint

LEMMA JointLaw ==
  ASSUME NEW C, NEW s \in Seq(C), NEW t \in Seq(C)
  PROVE  /\ Joint(s, t) \in Seq(C)
         /\ t # <<>> => Joint(s, t) # <<>> /\ End(Joint(s, t)) = End(t)
         /\ Joint(s, <<>>) = s
<1>1. /\ s \o t \in Seq(C) /\ Len(s \o t) = Len(s) + Len(t)
      /\ \A k \in 1..(Len(s) + Len(t)) :
           (s \o t)[k] = IF k <= Len(s) THEN s[k] ELSE t[k - Len(s)]
      /\ Len(s) \in Nat /\ Len(t) \in Nat
  BY ConcatProperties
<1>3. s \o <<>> = s
  BY ConcatEmptySeq
<1>4. ASSUME t # <<>>
      PROVE  s \o t # <<>> /\ End(s \o t) = End(t)
  <2>1. Len(t) > 0
    BY <1>1, <1>4, EmptySeq
  <2>2. Len(s) + Len(t) \in 1..(Len(s) + Len(t)) /\ ~(Len(s) + Len(t) <= Len(s))
    BY <1>1, <2>1
  <2>3. (s \o t)[Len(s) + Len(t)] = t[Len(s) + Len(t) - Len(s)]
    BY <1>1, <2>2
  <2>4. Len(s) + Len(t) - Len(s) = Len(t)
    BY <1>1
  <2>5. Len(s \o t) # 0
    BY <1>1, <2>1
  <2>6. s \o t # <<>>
    BY <2>5, EmptySeq
  <2> QED
    BY <1>1, <2>3, <2>4, <2>6 DEF End
<1> QED
  BY <1>1, <1>3, <1>4 DEF Joint

LEMMA BlankText ==
  /\ Space \in Chars /\ Nul \in Chars /\ Space \in Blank /\ Nul \in Blank
  /\ Space # Nul /\ Space \in White /\ Nul \notin White
  /\ Seq(Blank) \subseteq Seq(Chars) /\ Seq({Space}) \subseteq Seq(Blank)
BY TextAssumption DEF Blank

LEMMA BlankJoint ==
  ASSUME NEW pre \in Seq(Blank), NEW f \in Seq(Chars), NEW c \in Chars
  PROVE  Append(Joint(pre, f), c) = Joint(pre, Append(f, c))
<1>1. pre \in Seq(Chars)
  BY BlankText
<1> QED
  BY <1>1, JointAppend

LEMMA BlankAlone ==
  ASSUME NEW pre \in Seq(Blank), NEW c \in Chars
  PROVE  Append(pre, c) = Joint(pre, Append(<<>>, c))
<1>1. Joint(pre, <<>>) = pre
  BY EmptyText, BlankText, JointLaw
<1>2. Append(Joint(pre, <<>>), c) = Joint(pre, Append(<<>>, c))
  <2>1. <<>> \in Seq(Chars)
    BY EmptyText
  <2> QED
    BY <2>1, BlankJoint
<1> QED
  BY <1>1, <1>2

\* One visible character more.
LEMMA MatchesStep ==
  ASSUME NEW p \in Seq(Chars), NEW f \in Seq(Chars), NEW j \in Seq(Chars),
         NEW c \in Chars, Matches(p, f, j)
  PROVE  Matches(Adds(p, c), IF Dropped(j, c) THEN f ELSE Skips(f, Shown(c)), Joins(j, c))
<1> DEFINE h == Shown(c)
           f1 == IF Dropped(j, c) THEN f ELSE Skips(f, h)
<1>1. PICK pre \in Seq(Blank) :
        /\ p = Joint(pre, f)
        /\ f # <<>> => j # <<>> /\ End(j) = End(f)
        /\ f = <<>> /\ j = <<>> => pre \in Seq({Space})
        /\ f = <<>> /\ j # <<>> => End(j) = Nul /\ pre # <<>> /\ End(pre) = Nul
  BY DEF Matches
<1>a. Space \in Chars /\ Nul \in Chars /\ Space \in Blank /\ Nul \in Blank
  BY BlankText
<1>b. Seq({Space}) \subseteq Seq(Blank) /\ pre \in Seq(Chars)
  BY BlankText
<1>c. pre \in Seq(Chars)
  BY <1>b
<1>2. Space # Nul /\ Space \in White /\ Nul \notin White
  BY BlankText
<1>3. /\ h \in Chars
      /\ c \in White => h = Space
      /\ c \notin White => h = c /\ h # Space
  BY ShownType
<1>4. ASSUME f # <<>>
      PROVE  Matches(Adds(p, c), f1, Joins(j, c))
  <2>1. p # <<>> /\ End(p) = End(f) /\ j # <<>> /\ End(j) = End(f)
    BY <1>1, <1>c, <1>4, JointLaw
  <2>2. CASE h = End(f)
    <3>1. Adds(p, c) = p
      BY <2>1, <2>2 DEF Adds
    <3>2. f1 = f
      BY <1>4, <2>2 DEF Skips
    <3>3. Joins(j, c) # <<>> /\ End(Joins(j, c)) = End(f)
      <4>1. Append(j, h) # <<>> /\ End(Append(j, h)) = h
        BY <1>3, Ended
      <4> QED
        BY <2>1, <2>2, <4>1 DEF Joins
    <3> HIDE DEF f1
    <3> QED
      BY <1>1, <1>4, <3>1, <3>2, <3>3 DEF Matches
  <2>3. CASE h # End(f)
    <3>1. Adds(p, c) = Append(p, h)
      BY <2>1, <2>3 DEF Adds
    <3>2. ~Dropped(j, c)
      BY <1>3, <2>1, <2>3 DEF Dropped
    <3>3. f1 = Append(f, h) /\ Joins(j, c) = Append(j, h)
      BY <1>4, <2>3, <3>2 DEF Skips, Joins
    <3>4. Append(p, h) = Joint(pre, f1)
      <4> HIDE DEF h, f1
      <4>1. p = Joint(pre, f) /\ f1 = Append(f, h) /\ h \in Chars
        BY <1>1, <1>3, <3>3
      <4> QED
        BY <4>1, BlankJoint
    <3>5. /\ Append(f, h) # <<>> /\ End(Append(f, h)) = h
          /\ Append(j, h) # <<>> /\ End(Append(j, h)) = h
      BY <1>3, Ended
    <3> HIDE DEF f1
    <3> QED
      BY <3>1, <3>3, <3>4, <3>5 DEF Matches
  <2> QED
    BY <2>2, <2>3
<1>5. ASSUME f = <<>>
      PROVE  Matches(Adds(p, c), f1, Joins(j, c))
  <2>1. p = pre
    BY <1>1, <1>c, <1>5, JointLaw
  <2>2. CASE c \in White /\ j = <<>>
    <3>1. f1 = <<>> /\ Joins(j, c) = <<>> /\ pre \in Seq({Space})
      BY <1>1, <1>5, <2>2 DEF Dropped, Joins
    <3>2. Adds(p, c) \in {pre, Append(pre, Space)}
      BY <1>3, <2>1, <2>2 DEF Adds
    <3>3. Append(pre, Space) \in Seq({Space})
      BY <3>1, AppendProperties
    <3>4. Adds(p, c) \in Seq({Space}) /\ Adds(p, c) \in Seq(Blank)
      BY <1>b, <3>1, <3>2, <3>3
    <3>5. Adds(p, c) = Joint(Adds(p, c), <<>>)
      BY <3>4, EmptyText, JointLaw
    <3> HIDE DEF f1
    <3> QED
      BY <3>1, <3>4, <3>5 DEF Matches
  <2>3. CASE c \in White /\ j # <<>>
    <3>1. ~Dropped(j, c)
      BY <1>1, <1>2, <1>5, <2>3 DEF Dropped
    <3>2. f1 = Append(<<>>, Space) /\ Joins(j, c) = Append(j, Space)
      BY <1>2, <1>3, <1>5, <2>3, <3>1 DEF Skips, Joins
    <3>3. Adds(p, c) = Append(pre, Space)
      BY <1>1, <1>2, <1>3, <1>5, <2>1, <2>3 DEF Adds
    <3>4. Append(pre, Space) = Joint(pre, Append(<<>>, Space))
      BY <1>a, BlankAlone
    <3>5. <<>> \in Seq(Chars)
      OBVIOUS
    <3>6. Append(<<>>, Space) # <<>> /\ End(Append(<<>>, Space)) = Space
      BY <1>a, <3>5, Ended
    <3>7. Append(j, Space) # <<>> /\ End(Append(j, Space)) = Space
      BY <1>a, Ended
    <3> HIDE DEF f1
    <3> QED
      BY <3>2, <3>3, <3>4, <3>6, <3>7 DEF Matches
  <2>4. CASE c = Nul
    <3>1. ~Dropped(j, c) /\ h = Nul
      BY <1>2, <1>3, <2>4 DEF Dropped
    <3>2. f1 = <<>> /\ Joins(j, c) = Append(j, Nul)
      BY <1>5, <3>1 DEF Skips, Joins
    <3>3. Append(j, Nul) # <<>> /\ End(Append(j, Nul)) = Nul
      BY <1>a, Ended
    <3>4. /\ Append(pre, Nul) \in Seq(Blank) /\ Append(pre, Nul) # <<>>
          /\ End(Append(pre, Nul)) = Nul
      BY <1>a, Ended
    <3>5. /\ Adds(p, c) \in Seq(Blank) /\ Adds(p, c) # <<>> /\ End(Adds(p, c)) = Nul
      <4>1. CASE pre # <<>> /\ End(pre) = Nul
        <5>1. Adds(p, c) = pre
          BY <2>1, <3>1, <4>1 DEF Adds
        <5> QED
          BY <4>1, <5>1
      <4>2. CASE ~(pre # <<>> /\ End(pre) = Nul)
        <5>1. Adds(p, c) = Append(pre, Nul)
          BY <2>1, <3>1, <4>2 DEF Adds
        <5> QED
          BY <3>4, <5>1
      <4> QED
        BY <4>1, <4>2
    <3>6. Adds(p, c) = Joint(Adds(p, c), <<>>)
      BY <3>5, EmptyText, JointLaw
    <3> HIDE DEF f1
    <3> QED
      BY <3>2, <3>3, <3>5, <3>6 DEF Matches
  <2>5. CASE c \notin White /\ c # Nul
    <3>1. ~Dropped(j, c) /\ h = c
      BY <1>3, <2>5 DEF Dropped
    <3>2. f1 = Append(<<>>, c) /\ Joins(j, c) = Append(j, c)
      BY <1>5, <2>5, <3>1 DEF Skips, Joins
    <3>3. pre # <<>> => End(pre) \in Blank
      BY Ends DEF End
    <3>4. Adds(p, c) = Append(pre, c)
      BY <1>3, <2>1, <2>5, <3>1, <3>3 DEF Adds, Blank
    <3>5. <<>> \in Seq(Chars)
      OBVIOUS
    <3>6. Append(pre, c) = Joint(pre, Append(<<>>, c))
      BY <1>a, BlankAlone
    <3>7. /\ Append(<<>>, c) # <<>> /\ End(Append(<<>>, c)) = c
          /\ Append(j, c) # <<>> /\ End(Append(j, c)) = c
      BY <3>5, Ended
    <3> HIDE DEF f1
    <3> QED
      BY <3>2, <3>4, <3>6, <3>7 DEF Matches
  <2> QED
    BY <2>2, <2>3, <2>4, <2>5
<1> QED
  BY <1>4, <1>5

LEMMA LoopedLaw ==
  ASSUME NEW s \in Seq(Chars), NEW c \in Chars
  PROVE  /\ Looped(s) \in Seq(Chars) /\ Joined[Verdict!Visible[s]] \in Seq(Chars)
         /\ c \in Invisible =>
              /\ Looped(Append(s, c)) = Looped(s)
              /\ Joined[Verdict!Visible[Append(s, c)]] = Joined[Verdict!Visible[s]]
         /\ c \notin Invisible =>
              /\ Joined[Verdict!Visible[Append(s, c)]] = Joins(Joined[Verdict!Visible[s]], c)
              /\ Looped(Append(s, c)) =
                   IF Dropped(Joined[Verdict!Visible[s]], c) THEN Looped(s)
                   ELSE Skips(Looped(s), Shown(c))
<1> DEFINE v == Verdict!Visible[s]
           j == Joined[v]
<1>1. v \in Seq(Chars)
  BY VisibleLaw
<1>2. j \in Seq(Chars)
  <2> HIDE DEF v
  <2> QED
    BY <1>1, JoinedLaw
<1>3. Single[j] \in Seq(Chars)
  <2> HIDE DEF j
  <2> QED
    BY <1>2, SingleLaw
<1>4. CASE c \in Invisible
  BY <1>2, <1>3, <1>4, VisibleLaw DEF Looped
<1>5. CASE c \notin Invisible
  <2>1. Verdict!Visible[Append(s, c)] = Append(v, c)
    BY <1>5, VisibleLaw
  <2>2. Joined[Append(v, c)] = Joins(j, c)
    <3> HIDE DEF v
    <3> QED
      BY <1>1, JoinedLaw
  <2>3. ~Dropped(j, c) => Single[Append(j, Shown(c))] = Skips(Single[j], Shown(c))
    <3> HIDE DEF j
    <3> QED
      BY <1>2, ShownType, SingleLaw
  <2> HIDE DEF v
  <2> QED
    BY <1>2, <1>3, <1>5, <2>1, <2>2, <2>3 DEF Looped, Joins, v
<1> QED
  BY <1>4, <1>5

\* After any text that is only blank the two start alike.
LEMMA Matched ==
  ASSUME NEW lead \in Seq(Chars), Plain(lead) \in Seq({Space})
  PROVE  \A s \in Seq(Chars) :
           Matches(Plain(Joint(lead, s)), Looped(s), Joined[Verdict!Visible[s]])
<1> DEFINE T == {s \in Seq(Chars) :
                   Matches(Plain(Joint(lead, s)), Looped(s), Joined[Verdict!Visible[s]])}
<1>1. <<>> \in T
  <2>1. Looped(<<>>) = <<>> /\ Joined[Verdict!Visible[<<>>]] = <<>>
    BY VisibleLaw, JoinedLaw, SingleLaw DEF Looped
  <2>2. Joint(lead, <<>>) = lead
    BY EmptyText, JointLaw
  <2>3. Joint(Plain(lead), <<>>) = Plain(lead) /\ Plain(lead) \in Seq(Blank)
    BY EmptyText, BlankText, JointLaw
  <2>4. Matches(Plain(lead), <<>>, <<>>)
    BY <2>3 DEF Matches
  <2> QED
    BY <2>1, <2>2, <2>4, EmptyText
<1>2. ASSUME NEW s \in T, NEW c \in Chars
      PROVE  Append(s, c) \in T
  <2> DEFINE p == Plain(Joint(lead, s))
             j == Joined[Verdict!Visible[s]]
  <2>1. /\ s \in Seq(Chars) /\ Matches(p, Looped(s), j)
        /\ Looped(s) \in Seq(Chars) /\ j \in Seq(Chars)
    BY LoopedLaw
  <2>2. Joint(lead, s) \in Seq(Chars) /\ p \in Seq(Chars)
    <3>1. Joint(lead, s) \in Seq(Chars)
      BY <2>1, JointLaw
    <3> QED
      BY <3>1, PlainLaw
  <2>3. Joint(lead, Append(s, c)) = Append(Joint(lead, s), c)
    BY <2>1, JointAppend
  <2>4. Plain(Append(Joint(lead, s), c)) = IF c \in Invisible THEN p ELSE Adds(p, c)
    <3> DEFINE t == Joint(lead, s)
    <3> HIDE DEF t
    <3>1. t \in Seq(Chars)
      BY <2>2 DEF t
    <3>2. Plain(Append(t, c)) = IF c \in Invisible THEN Plain(t) ELSE Adds(Plain(t), c)
      BY <3>1, PlainLaw
    <3> QED
      BY <3>2 DEF t
  <2> HIDE DEF p, j
  <2>5. CASE c \in Invisible
    <3>1. /\ Looped(Append(s, c)) = Looped(s)
          /\ Joined[Verdict!Visible[Append(s, c)]] = j
      BY <2>1, <2>5, LoopedLaw DEF j
    <3> QED
      BY <2>1, <2>3, <2>4, <2>5, <3>1, Extended
  <2>6. CASE c \notin Invisible
    <3>1. /\ Joined[Verdict!Visible[Append(s, c)]] = Joins(j, c)
          /\ Looped(Append(s, c)) = IF Dropped(j, c) THEN Looped(s)
                                    ELSE Skips(Looped(s), Shown(c))
      BY <2>1, <2>6, LoopedLaw DEF j
    <3>2. Matches(Adds(p, c), IF Dropped(j, c) THEN Looped(s) ELSE Skips(Looped(s), Shown(c)),
                  Joins(j, c))
      BY <2>1, <2>2, MatchesStep
    <3>3. Plain(Joint(lead, Append(s, c))) = Adds(p, c)
      BY <2>3, <2>4, <2>6
    <3> QED
      BY <2>1, <3>1, <3>2, <3>3, Extended
  <2> QED
    BY <2>5, <2>6
<1>3. T = Seq(Chars)
  <2>1. T \in SUBSET Seq(Chars)
    OBVIOUS
  <2> HIDE DEF T
  <2> QED
    BY <1>1, <1>2, <2>1, SeqInduction
<1> QED
  BY <1>3

LEMMA WhiteText ==
  /\ White \subseteq Chars /\ Seq(White) \subseteq Seq(Chars)
  /\ \A c \in White : Shown(c) = Space
  /\ Space \in Chars /\ Space \in Blank /\ Seq({Space}) \subseteq Seq(Chars)
BY TextAssumption DEF Shown, Blank

\* A white text is nothing but blanks when it is plain.
LEMMA WhiteLead ==
  \A s \in Seq(White) : Plain(s) \in Seq({Space})
<1> DEFINE T == {s \in Seq(White) : Plain(s) \in Seq({Space})}
<1>1. <<>> \in T
  <2>1. <<>> \in Seq(White) /\ <<>> \in Seq({Space})
    OBVIOUS
  <2> QED
    BY <2>1, PlainLaw
<1>2. ASSUME NEW s \in T, NEW c \in White
      PROVE  Append(s, c) \in T
  <2>1. s \in Seq(White) /\ s \in Seq(Chars) /\ c \in Chars /\ Plain(s) \in Seq({Space})
    BY WhiteText
  <2>2. Plain(Append(s, c)) \in {Plain(s), Append(Plain(s), Space)}
    <3>1. Plain(Append(s, c)) = IF c \in Invisible THEN Plain(s) ELSE Adds(Plain(s), c)
      BY <2>1, PlainLaw
    <3> QED
      BY <3>1, WhiteText DEF Adds
  <2>3. Append(Plain(s), Space) \in Seq({Space})
    <3>1. Space \in {Space}
      OBVIOUS
    <3> QED
      BY <2>1, <3>1, Ended
  <2>4. Append(s, c) \in Seq(White)
    BY <2>1, Ended
  <2> QED
    BY <2>1, <2>2, <2>3, <2>4
<1>3. T = Seq(White)
  <2>1. T \in SUBSET Seq(White)
    OBVIOUS
  <2> HIDE DEF T
  <2> QED
    BY <1>1, <1>2, <2>1, SeqInduction
<1> QED
  BY <1>3

\* White space at the end of a text adds one blank, or none.
LEMMA WhiteTail ==
  ASSUME NEW s \in Seq(Chars)
  PROVE  \A t \in Seq(White) : Plain(Joint(s, t)) \in {Plain(s), Append(Plain(s), Space)}
<1> DEFINE T == {t \in Seq(White) : Plain(Joint(s, t)) \in {Plain(s), Append(Plain(s), Space)}}
<1>1. <<>> \in T
  <2>1. <<>> \in Seq(White) /\ Joint(s, <<>>) = s
    BY EmptyText, JointLaw
  <2> QED
    BY <2>1
<1>2. ASSUME NEW t \in T, NEW c \in White
      PROVE  Append(t, c) \in T
  <2> DEFINE p == Plain(Joint(s, t))
  <2>1. /\ t \in Seq(White) /\ t \in Seq(Chars) /\ c \in Chars /\ Shown(c) = Space
        /\ p \in {Plain(s), Append(Plain(s), Space)} /\ Plain(s) \in Seq(Chars)
    BY WhiteText, PlainLaw
  <2>2. Joint(s, Append(t, c)) = Append(Joint(s, t), c)
    BY <2>1, JointAppend
  <2>3. Joint(s, t) \in Seq(Chars)
    BY <2>1, JointLaw
  <2>4. Plain(Append(Joint(s, t), c)) = IF c \in Invisible THEN p ELSE Adds(p, c)
    <3> DEFINE u == Joint(s, t)
    <3>1. u \in Seq(Chars)
      BY <2>3
    <3> HIDE DEF u
    <3>2. Plain(Append(u, c)) = IF c \in Invisible THEN Plain(u) ELSE Adds(Plain(u), c)
      BY <2>1, <3>1, PlainLaw
    <3> QED
      BY <3>2 DEF u
  <2> HIDE DEF p
  <2>5. Adds(p, c) \in {Plain(s), Append(Plain(s), Space)}
    <3>1. CASE p = Plain(s)
      BY <2>1, <3>1 DEF Adds
    <3>2. CASE p = Append(Plain(s), Space)
      <4>1. Append(Plain(s), Space) # <<>> /\ End(Append(Plain(s), Space)) = Space
        BY <2>1, WhiteText, Ended
      <4> QED
        BY <2>1, <3>2, <4>1 DEF Adds
    <3> QED
      BY <2>1, <3>1, <3>2
  <2>6. Append(t, c) \in Seq(White)
    BY <2>1, Ended
  <2> QED
    BY <2>1, <2>2, <2>4, <2>5, <2>6
<1>3. T = Seq(White)
  <2>1. T \in SUBSET Seq(White)
    OBVIOUS
  <2> HIDE DEF T
  <2> QED
    BY <1>1, <1>2, <2>1, SeqInduction
<1> QED
  BY <1>3

\* trim takes white space from both ends and nothing else.
LEMMA TrimmedSplit ==
  ASSUME NEW s \in Seq(Chars)
  PROVE  \E lead, tail \in Seq(White) : s = Joint(Joint(lead, Trimmed(s)), tail)
<1> DEFINE solid == {k \in DOMAIN s : s[k] \notin White}
<1>1. CASE solid = {}
  <2>1. Trimmed(s) = <<>>
    BY <1>1 DEF Trimmed
  <2>2. s \in Seq(White) /\ <<>> \in Seq(White)
    <3>1. \A k \in 1..Len(s) : s[k] \in White
      BY <1>1
    <3> QED
      BY <3>1
  <2>3. Joint(Joint(s, <<>>), <<>>) = s
    BY EmptyText, JointLaw
  <2> QED
    BY <2>1, <2>2, <2>3
<1>2. CASE solid # {}
  <2> DEFINE a == Min(solid)
             b == Max(solid)
  <2>1. solid \in SUBSET (1..Len(s)) /\ Len(s) \in Nat
    OBVIOUS
  <2>2. a \in solid /\ b \in solid /\ \A k \in solid : a <= k /\ b >= k
    <3> HIDE DEF solid
    <3> QED
      BY <1>2, <2>1, MinIn, MaxIn
  <2>3. Trimmed(s) = SubSeq(s, a, b)
    BY <1>2 DEF Trimmed
  <2>4. /\ a \in 1..Len(s) /\ b \in 1..Len(s) /\ a <= b
        /\ \A k \in 1..Len(s) : k < a \/ b < k => s[k] \in White
    <3> HIDE DEF a, b
    <3>1. a \in 1..Len(s) /\ b \in 1..Len(s) /\ a <= b
      BY <2>1, <2>2
    <3>2. ASSUME NEW k \in 1..Len(s), s[k] \notin White
          PROVE  a <= k /\ b >= k
      <4>1. k \in solid
        BY <3>2
      <4> HIDE DEF solid
      <4> QED
        BY <2>2, <4>1
    <3>3. ASSUME NEW k \in 1..Len(s), k < a \/ b < k
          PROVE  s[k] \in White
      <4>1. ~(a <= k /\ b >= k)
        BY <2>1, <3>1, <3>3
      <4> QED
        BY <3>2, <4>1
    <3> QED
      BY <3>1, <3>3
  <2> HIDE DEF a, b, solid
  <2> DEFINE lead == SubSeq(s, 1, a - 1)
             tail == SubSeq(s, b + 1, Len(s))
  <2>5. lead \in Seq(White)
    <3>1. \A k \in 1..(a - 1) : s[k] \in White
      BY <2>1, <2>4
    <3>2. 1 \in Int /\ a - 1 \in Int
      BY <2>4
    <3> QED
      BY <3>1, <3>2, SubSeqProperties
  <2>6. tail \in Seq(White)
    <3>1. \A k \in (b + 1)..Len(s) : s[k] \in White
      BY <2>1, <2>4
    <3>2. b + 1 \in Int /\ Len(s) \in Int
      BY <2>1, <2>4
    <3> QED
      BY <3>1, <3>2, SubSeqProperties
  <2>7. SubSeq(s, 1, a - 1) \o SubSeq(s, a, b) = SubSeq(s, 1, b)
    <3>1. 1 \in 1..(Len(s) + 1) /\ a - 1 \in (1 - 1)..Len(s) /\ b \in (a - 1)..Len(s)
          /\ a - 1 + 1 = a
      BY <2>1, <2>4
    <3>2. SubSeq(s, 1, a - 1) \o SubSeq(s, (a - 1) + 1, b) = SubSeq(s, 1, b)
      BY <3>1, ConcatAdjacentSubSeq
    <3> QED
      BY <3>1, <3>2
  <2>8. SubSeq(s, 1, b) \o SubSeq(s, b + 1, Len(s)) = s
    <3>1. 1 \in 1..(Len(s) + 1) /\ b \in (1 - 1)..Len(s) /\ Len(s) \in b..Len(s)
      BY <2>1, <2>4
    <3>2. SubSeq(s, 1, b) \o SubSeq(s, b + 1, Len(s)) = SubSeq(s, 1, Len(s))
      BY <3>1, ConcatAdjacentSubSeq
    <3> QED
      BY <3>2, SubSeqFull
  <2>9. s = Joint(Joint(lead, Trimmed(s)), tail)
    BY <2>3, <2>7, <2>8 DEF Joint
  <2> HIDE DEF lead, tail
  <2> QED
    BY <2>5, <2>6, <2>9
<1> QED
  BY <1>1, <1>2

\* The agreement of the first four stages with the definitions of TextVerdict.
LEMMA PlainIsLooped ==
  ASSUME NEW s \in Seq(Chars)
  PROVE  \E pre, post \in Seq(Blank) :
           Plain(s) = Joint(Joint(pre, Looped(Trimmed(s))), post)
<1> DEFINE v == Trimmed(s)
<1>1. v \in Seq(Chars)
  BY TrimmedType
<1>2. PICK lead \in Seq(White), tail \in Seq(White) : s = Joint(Joint(lead, v), tail)
  BY TrimmedSplit
<1> HIDE DEF v
<1>3. lead \in Seq(Chars) /\ Plain(lead) \in Seq({Space})
  BY WhiteText, WhiteLead
<1>4. Matches(Plain(Joint(lead, v)), Looped(v), Joined[Verdict!Visible[v]])
  BY <1>1, <1>3, Matched
<1>5. PICK pre \in Seq(Blank) : Plain(Joint(lead, v)) = Joint(pre, Looped(v))
  BY <1>4 DEF Matches
<1>6. Joint(lead, v) \in Seq(Chars)
  BY <1>1, <1>3, JointLaw
<1>7. Plain(s) \in {Plain(Joint(lead, v)), Append(Plain(Joint(lead, v)), Space)}
  BY <1>2, <1>6, WhiteTail
<1> DEFINE x == Joint(pre, Looped(v))
<1>8. x \in Seq(Chars)
  BY <1>5, <1>6, PlainLaw
<1> HIDE DEF x
<1>9. Joint(x, <<>>) = x /\ <<>> \in Seq(Blank)
  <2>1. <<>> \in Seq(Blank)
    OBVIOUS
  <2>2. <<>> \in Seq(Chars)
    OBVIOUS
  <2>3. Joint(x, <<>>) = x
    BY <1>8, <2>2, JointLaw
  <2> QED
    BY <2>1, <2>3
<1>10. Joint(x, <<Space>>) = Append(x, Space) /\ <<Space>> \in Seq(Blank)
  <2>1. Space \in Blank /\ Space \in Chars
    BY WhiteText
  <2>2. <<Space>> \in Seq(Blank)
    BY <2>1
  <2> QED
    BY <1>8, <2>1, <2>2, AppendIsConcat DEF Joint
<1>11. Plain(s) \in {Joint(x, <<>>), Joint(x, <<Space>>)}
  BY <1>5, <1>7, <1>9, <1>10 DEF x
<1> QED
  BY <1>9, <1>10, <1>11 DEF x, v

-----------------------------------------------------------------------------
(***************************************************************************)
(* The letters of an alphabet, and the letters that the characters stand   *)
(* for.  Blanks are neither.                                               *)
(***************************************************************************)

Places(s, A) == {k \in DOMAIN s : s[k] \in A}

LEMMA PlacesLaw ==
  ASSUME NEW C, NEW s \in Seq(C), NEW A
  PROVE  /\ Cardinality(Places(<<>>, A)) = 0
         /\ Cardinality(Places(s, A)) \in Nat
         /\ \A c \in C :
              Cardinality(Places(Append(s, c), A)) =
                IF c \in A THEN Cardinality(Places(s, A)) + 1 ELSE Cardinality(Places(s, A))
<1>1. Places(<<>>, A) = {}
  BY DEF Places
<1>2. IsFiniteSet(Places(s, A)) /\ Len(s) \in Nat /\ Len(s) + 1 \notin Places(s, A)
  <2>1. Len(s) \in Nat /\ Places(s, A) \in SUBSET (1..Len(s))
    BY DEF Places
  <2>2. IsFiniteSet(1..Len(s))
    BY <2>1, FS_Interval
  <2>3. Len(s) + 1 \notin 1..Len(s)
    BY <2>1
  <2> QED
    BY <2>1, <2>2, <2>3, FS_Subset
<1>3. ASSUME NEW c \in C
      PROVE  Cardinality(Places(Append(s, c), A)) =
                IF c \in A THEN Cardinality(Places(s, A)) + 1 ELSE Cardinality(Places(s, A))
  <2> DEFINE t == Append(s, c)
  <2>1. /\ DOMAIN t = 1..(Len(s) + 1) /\ t[Len(s) + 1] = c
        /\ \A k \in 1..Len(s) : t[k] = s[k]
    BY Extended
  <2> HIDE DEF t
  <2>2. Places(t, A) = IF c \in A THEN Places(s, A) \cup {Len(s) + 1} ELSE Places(s, A)
    <3>1. 1..(Len(s) + 1) = 1..Len(s) \cup {Len(s) + 1} /\ DOMAIN s = 1..Len(s)
      BY <1>2
    <3>2. Places(t, A) = {k \in 1..(Len(s) + 1) : t[k] \in A}
      BY <2>1 DEF Places
    <3>3. Places(s, A) = {k \in 1..Len(s) : t[k] \in A}
      BY <2>1, <3>1 DEF Places
    <3> QED
      BY <2>1, <3>1, <3>2, <3>3
  <2> QED
    BY <1>2, <2>2, FS_AddElement DEF t
<1> QED
  BY <1>1, <1>2, <1>3, FS_EmptySet, FS_CardinalityType

LEMMA BlanksUncounted ==
  ASSUME NEW A, A \cap Blank = {}, NEW s \in Seq(Chars), NEW pre \in Seq(Blank),
         NEW post \in Seq(Blank)
  PROVE  Cardinality(Places(Joint(Joint(pre, s), post), A)) = Cardinality(Places(s, A))
<1>1. \A t \in Seq(Chars) : Cardinality(Places(Joint(pre, t), A)) = Cardinality(Places(t, A))
  <2> DEFINE T == {t \in Seq(Chars) : Cardinality(Places(Joint(pre, t), A))
                                        = Cardinality(Places(t, A))}
  <2>1. <<>> \in T
    <3>1. Places(pre, A) = {} /\ Places(<<>>, A) = {}
      BY DEF Places
    <3>2. <<>> \in Seq(Chars)
      OBVIOUS
    <3>3. pre \in Seq(Chars)
      BY BlankText
    <3>4. Joint(pre, <<>>) = pre
      BY <3>2, <3>3, JointLaw
    <3> QED
      BY <3>1, <3>2, <3>4
  <2>2. ASSUME NEW t \in T, NEW c \in Chars
        PROVE  Append(t, c) \in T
    <3>1. /\ t \in Seq(Chars)
          /\ Cardinality(Places(Joint(pre, t), A)) = Cardinality(Places(t, A))
      OBVIOUS
    <3>2. Append(Joint(pre, t), c) = Joint(pre, Append(t, c))
      BY <3>1, BlankJoint
    <3>3. Joint(pre, t) \in Seq(Chars)
      <4>1. pre \in Seq(Chars)
        BY BlankText
      <4> QED
        BY <3>1, <4>1, JointLaw
    <3>4. Append(t, c) \in Seq(Chars)
      BY <3>1, Extended
    <3>5. Cardinality(Places(Append(t, c), A)) =
            IF c \in A THEN Cardinality(Places(t, A)) + 1 ELSE Cardinality(Places(t, A))
      BY <3>1, PlacesLaw
    <3> DEFINE u == Joint(pre, t)
    <3>6. Cardinality(Places(Append(u, c), A)) =
            IF c \in A THEN Cardinality(Places(u, A)) + 1 ELSE Cardinality(Places(u, A))
      <4>1. u \in Seq(Chars)
        BY <3>3
      <4> HIDE DEF u
      <4> QED
        BY <4>1, PlacesLaw
    <3> QED
      BY <3>1, <3>2, <3>4, <3>5, <3>6
  <2>3. T = Seq(Chars)
    <3>1. T \in SUBSET Seq(Chars)
      OBVIOUS
    <3> HIDE DEF T
    <3> QED
      BY <2>1, <2>2, <3>1, SeqInduction
  <2> QED
    BY <2>3
<1> DEFINE x == Joint(pre, s)
<1>2. x \in Seq(Chars)
  <2>1. pre \in Seq(Chars)
    BY BlankText
  <2> QED
    BY <2>1, JointLaw
<1> HIDE DEF x
<1>3. Cardinality(Places(Joint(x, post), A)) = Cardinality(Places(x, A))
  <2> DEFINE T == {t \in Seq(Blank) : Cardinality(Places(Joint(x, t), A))
                                        = Cardinality(Places(x, A))}
  <2>1. <<>> \in T
    <3>1. <<>> \in Seq(Blank)
      OBVIOUS
    <3>2. <<>> \in Seq(Chars)
      OBVIOUS
    <3>3. Joint(x, <<>>) = x
      BY <1>2, <3>2, JointLaw
    <3> QED
      BY <3>1, <3>3
  <2>2. ASSUME NEW t \in T, NEW c \in Blank
        PROVE  Append(t, c) \in T
    <3>1. /\ t \in Seq(Blank)
          /\ Cardinality(Places(Joint(x, t), A)) = Cardinality(Places(x, A))
      OBVIOUS
    <3>2. c \in Chars /\ c \notin A /\ t \in Seq(Chars)
      BY <3>1, BlankText DEF Blank
    <3>3. Append(Joint(x, t), c) = Joint(x, Append(t, c)) /\ Joint(x, t) \in Seq(Chars)
      BY <1>2, <3>2, JointAppend, JointLaw
    <3>4. Append(t, c) \in Seq(Blank)
      BY <3>1, Extended
    <3> DEFINE u == Joint(x, t)
    <3>5. Cardinality(Places(Append(u, c), A)) = Cardinality(Places(u, A))
      <4>1. u \in Seq(Chars)
        BY <3>3
      <4> HIDE DEF u
      <4> QED
        BY <3>2, <4>1, PlacesLaw
    <3> QED
      BY <3>1, <3>3, <3>4, <3>5
  <2>3. T = Seq(Blank)
    <3>1. T \in SUBSET Seq(Blank)
      OBVIOUS
    <3> HIDE DEF T
    <3> QED
      BY <2>1, <2>2, <3>1, SeqInduction
  <2> QED
    BY <2>3
<1> QED
  BY <1>1, <1>3 DEF x

\* The text as its letters are read.
Read(s, c) == [k \in DOMAIN s |-> Verdict!Meaning(s[k], c)]

LEMMA MeaningLaw ==
  ASSUME NEW b \in BOOLEAN
  PROVE  /\ \A c \in Chars : Verdict!Meaning(c, b) \in Chars
         /\ \A c \in Blank : Verdict!Meaning(c, b) = c /\ c \notin Alnum
         /\ Blank \cap Latin = {} /\ Blank \cap Cyrillic = {}
         /\ b = cyrillic => \A c \in Chars : Substitute(c) = Verdict!Meaning(c, b)
BY TextAssumption DEF Verdict!Meaning, Substitute, Lookup, Blank, IsTable

LEMMA ReadLaw ==
  ASSUME NEW b \in BOOLEAN, NEW s \in Seq(Chars)
  PROVE  /\ Read(s, b) \in Seq(Chars) /\ Len(Read(s, b)) = Len(s)
         /\ \A c \in Chars : Read(Append(s, c), b) = Append(Read(s, b), Verdict!Meaning(c, b))
         /\ \A t \in Seq(Chars) : Read(Joint(s, t), b) = Joint(Read(s, b), Read(t, b))
<1>1. ASSUME NEW t \in Seq(Chars)
      PROVE  /\ Read(t, b) \in Seq(Chars) /\ Len(Read(t, b)) = Len(t)
             /\ \A k \in 1..Len(t) : Read(t, b)[k] = Verdict!Meaning(t[k], b)
  <2>1. \A k \in DOMAIN t : Verdict!Meaning(t[k], b) \in Chars
    BY MeaningLaw
  <2> DEFINE r == [k \in DOMAIN t |-> Verdict!Meaning(t[k], b)]
  <2>2. r \in Seq(Chars) /\ Len(r) = Len(t)
    BY <2>1
  <2>3. \A k \in 1..Len(t) : r[k] = Verdict!Meaning(t[k], b)
    OBVIOUS
  <2> QED
    BY <2>2, <2>3 DEF Read
<1>2. ASSUME NEW c \in Chars
      PROVE  Read(Append(s, c), b) = Append(Read(s, b), Verdict!Meaning(c, b))
  <2> DEFINE t == Append(s, c)
             u == Append(Read(s, b), Verdict!Meaning(c, b))
  <2>1. /\ t \in Seq(Chars) /\ Len(t) = Len(s) + 1 /\ t[Len(s) + 1] = c
        /\ \A k \in 1..Len(s) : t[k] = s[k]
    BY Extended
  <2>2. /\ u \in Seq(Chars) /\ Len(u) = Len(s) + 1
        /\ u[Len(s) + 1] = Verdict!Meaning(c, b)
        /\ \A k \in 1..Len(s) : u[k] = Read(s, b)[k]
    BY <1>1, MeaningLaw, Extended
  <2>3. Len(s) \in Nat
    OBVIOUS
  <2> HIDE DEF t, u
  <2>4. \A k \in 1..(Len(s) + 1) : Read(t, b)[k] = u[k]
    <3>1. \A k \in 1..(Len(s) + 1) : Read(t, b)[k] = Verdict!Meaning(t[k], b)
      BY <1>1, <2>1
    <3>2. \A k \in 1..Len(s) : Read(s, b)[k] = Verdict!Meaning(s[k], b)
      BY <1>1
    <3> QED
      BY <2>1, <2>2, <2>3, <3>1, <3>2
  <2>5. Read(t, b) = u
    <3>1. Read(t, b) \in Seq(Chars) /\ Len(Read(t, b)) = Len(s) + 1
      BY <1>1, <2>1
    <3> QED
      BY <2>2, <2>4, <3>1, SeqEqual
  <2> QED
    BY <2>5 DEF t, u
<1>3. ASSUME NEW t \in Seq(Chars)
      PROVE  Read(Joint(s, t), b) = Joint(Read(s, b), Read(t, b))
  <2> DEFINE j == Joint(s, t)
             u == Joint(Read(s, b), Read(t, b))
  <2>1. /\ j \in Seq(Chars) /\ Len(j) = Len(s) + Len(t)
        /\ \A k \in 1..(Len(s) + Len(t)) : j[k] = IF k <= Len(s) THEN s[k] ELSE t[k - Len(s)]
    BY ConcatProperties DEF Joint
  <2>2. /\ u \in Seq(Chars) /\ Len(u) = Len(s) + Len(t)
        /\ \A k \in 1..(Len(s) + Len(t)) :
             u[k] = IF k <= Len(s) THEN Read(s, b)[k] ELSE Read(t, b)[k - Len(s)]
    <3> DEFINE x == Read(s, b)
               y == Read(t, b)
    <3>1. x \in Seq(Chars) /\ y \in Seq(Chars) /\ Len(x) = Len(s) /\ Len(y) = Len(t)
      BY <1>1
    <3> HIDE DEF x, y
    <3>2. /\ x \o y \in Seq(Chars) /\ Len(x \o y) = Len(x) + Len(y)
          /\ \A k \in 1..(Len(x) + Len(y)) :
               (x \o y)[k] = IF k <= Len(x) THEN x[k] ELSE y[k - Len(x)]
      BY <3>1, ConcatProperties
    <3> QED
      BY <3>1, <3>2 DEF Joint, x, y
  <2>3. Len(s) \in Nat /\ Len(t) \in Nat
    OBVIOUS
  <2> HIDE DEF j, u
  <2>4. ASSUME NEW k \in 1..(Len(s) + Len(t))
        PROVE  Read(j, b)[k] = u[k]
    <3>1. Read(j, b)[k] = Verdict!Meaning(j[k], b)
      BY <1>1, <2>1
    <3>2. CASE k <= Len(s)
      <4>1. k \in 1..Len(s)
        BY <2>3, <3>2
      <4>2. Read(s, b)[k] = Verdict!Meaning(s[k], b)
        BY <1>1, <4>1
      <4> QED
        BY <2>1, <2>2, <3>1, <3>2, <4>2
    <3>3. CASE ~(k <= Len(s))
      <4>1. k - Len(s) \in 1..Len(t)
        BY <2>3, <3>3
      <4>2. Read(t, b)[k - Len(s)] = Verdict!Meaning(t[k - Len(s)], b)
        BY <1>1, <4>1
      <4> QED
        BY <2>1, <2>2, <3>1, <3>3, <4>2
    <3> QED
      BY <3>2, <3>3
  <2>5. Read(j, b) = u
    <3>1. Read(j, b) \in Seq(Chars) /\ Len(Read(j, b)) = Len(s) + Len(t)
      BY <1>1, <2>1
    <3> QED
      BY <2>2, <2>4, <3>1, SeqEqual
  <2> QED
    BY <2>5 DEF j, u
<1> QED
  BY <1>1, <1>2, <1>3

-----------------------------------------------------------------------------
(***************************************************************************)
(* The words.  What Tokenize has read is a text that no word goes beyond   *)
(* and, after it, the word it is in.                                       *)
(***************************************************************************)

IsWord(s, x, y) ==
  /\ x \in 1..Len(s) /\ y \in 1..Len(s) /\ x <= y
  /\ \A k \in x..y : s[k] \in Alnum
  /\ x > 1 => s[x - 1] \notin Alnum
  /\ y < Len(s) => s[y + 1] \notin Alnum

Forbidden(s) == {w \in Verdict!WordsOf(s) : SubSeq(s, w[1], w[2]) \in ForbiddenWords}

LEMMA WordsMean ==
  ASSUME NEW s \in Seq(Chars)
  PROVE  /\ Verdict!WordsOf(s) \subseteq Nat \X Nat
         /\ \A x, y \in Nat : <<x, y>> \in Verdict!WordsOf(s) <=> IsWord(s, x, y)
         /\ IsFiniteSet(Forbidden(s))
<1> DEFINE letter == {k \in DOMAIN s : s[k] \in Alnum}
           first == {k \in letter : k - 1 \notin letter}
           last == {k \in letter : k + 1 \notin letter}
<1>1. /\ Len(s) \in Nat /\ DOMAIN s = 1..Len(s)
      /\ letter \in SUBSET (1..Len(s)) /\ first \in SUBSET (1..Len(s))
      /\ last \in SUBSET (1..Len(s))
  OBVIOUS
<1>2. Verdict!WordsOf(s) = {w \in first \X last : w[1] <= w[2] /\ w[1]..w[2] \subseteq letter}
  BY DEF Verdict!WordsOf
<1>3. ASSUME NEW x \in Nat
      PROVE  x \in first <=> x \in 1..Len(s) /\ s[x] \in Alnum /\ (x > 1 => s[x - 1] \notin Alnum)
  <2>1. x \in 1..Len(s) => (x - 1 \in 1..Len(s) <=> x > 1)
    BY <1>1
  <2> QED
    BY <1>1, <2>1
<1>4. ASSUME NEW y \in Nat
      PROVE  y \in last <=> y \in 1..Len(s) /\ s[y] \in Alnum
                            /\ (y < Len(s) => s[y + 1] \notin Alnum)
  <2>1. y \in 1..Len(s) => (y + 1 \in 1..Len(s) <=> y < Len(s))
    BY <1>1
  <2> QED
    BY <1>1, <2>1
<1>5. ASSUME NEW x \in 1..Len(s), NEW y \in 1..Len(s)
      PROVE  x..y \subseteq letter <=> \A k \in x..y : s[k] \in Alnum
  <2>1. x..y \subseteq 1..Len(s)
    BY <1>1
  <2> QED
    BY <2>1
<1>6. ASSUME NEW x \in Nat, NEW y \in Nat
      PROVE  <<x, y>> \in Verdict!WordsOf(s) <=> IsWord(s, x, y)
  <2>1. <<x, y>> \in Verdict!WordsOf(s)
          <=> x \in first /\ y \in last /\ x <= y /\ x..y \subseteq letter
    <3> HIDE DEF letter, first, last
    <3> QED
      BY <1>2
  <2>2. x \in 1..Len(s) /\ y \in 1..Len(s) /\ x <= y => x \in x..y /\ y \in x..y
    OBVIOUS
  <2> HIDE DEF letter, first, last
  <2> QED
    BY <1>3, <1>4, <1>5, <2>1, <2>2 DEF IsWord
<1>7. IsFiniteSet(Forbidden(s)) /\ Verdict!WordsOf(s) \subseteq Nat \X Nat
  <2>1. IsFiniteSet(1..Len(s))
    BY <1>1, FS_Interval
  <2>2. IsFiniteSet((1..Len(s)) \X (1..Len(s)))
    BY <2>1, FS_Product
  <2> HIDE DEF letter, first, last
  <2>3. Verdict!WordsOf(s) \subseteq first \X last
    BY <1>2
  <2>4. /\ first \X last \subseteq (1..Len(s)) \X (1..Len(s))
        /\ first \X last \subseteq Nat \X Nat
    <3>1. \A x \in first : x \in 1..Len(s) /\ x \in Nat
      BY <1>1
    <3>2. \A y \in last : y \in 1..Len(s) /\ y \in Nat
      BY <1>1
    <3> QED
      BY <3>1, <3>2
  <2>5. Forbidden(s) \in SUBSET ((1..Len(s)) \X (1..Len(s)))
    <3>1. Forbidden(s) \subseteq Verdict!WordsOf(s)
      BY DEF Forbidden
    <3> QED
      BY <2>3, <2>4, <3>1
  <2> QED
    BY <2>2, <2>3, <2>4, <2>5, FS_Subset
<1> QED
  BY <1>6, <1>7

LEMMA SubSeqAgree ==
  ASSUME NEW C, NEW s \in Seq(C), NEW t \in Seq(C), NEW x \in Nat \ {0}, NEW y \in Nat,
         x <= y, y <= Len(s), y <= Len(t), \A k \in x..y : s[k] = t[k]
  PROVE  SubSeq(s, x, y) = SubSeq(t, x, y)
<1>1. x \in Int /\ y \in Int /\ \A k \in x..y : s[k] \in C /\ t[k] \in C
  OBVIOUS
<1>2. /\ SubSeq(s, x, y) \in Seq(C)
      /\ Len(SubSeq(s, x, y)) = IF x <= y THEN y - x + 1 ELSE 0
      /\ \A k \in 1..(y - x + 1) : SubSeq(s, x, y)[k] = s[x + k - 1]
  BY <1>1, SubSeqProperties
<1>3. /\ SubSeq(t, x, y) \in Seq(C)
      /\ Len(SubSeq(t, x, y)) = IF x <= y THEN y - x + 1 ELSE 0
      /\ \A k \in 1..(y - x + 1) : SubSeq(t, x, y)[k] = t[x + k - 1]
  BY <1>1, SubSeqProperties
<1>4. \A k \in 1..(y - x + 1) : x + k - 1 \in x..y
  OBVIOUS
<1> DEFINE a == SubSeq(s, x, y)
           b == SubSeq(t, x, y)
<1>5. \A k \in 1..Len(a) : a[k] = b[k]
  BY <1>2, <1>3, <1>4
<1>6. a \in Seq(C) /\ b \in Seq(C) /\ Len(a) = Len(b)
  BY <1>2, <1>3
<1> HIDE DEF a, b
<1>7. a = b
  BY <1>5, <1>6, SeqEqual
<1> QED
  BY <1>7 DEF a, b

\* What ends a word belongs to none.
LEMMA ForbiddenStays ==
  ASSUME NEW s \in Seq(Chars), NEW c \in Chars \ Alnum
  PROVE  Forbidden(Append(s, c)) = Forbidden(s)
<1> DEFINE t == Append(s, c)
<1>1. /\ t \in Seq(Chars) /\ Len(t) = Len(s) + 1 /\ t[Len(s) + 1] = c
      /\ \A k \in 1..Len(s) : t[k] = s[k]
      /\ Len(s) \in Nat
  BY Extended
<1> HIDE DEF t
<1>2. ASSUME NEW x \in Nat, NEW y \in Nat
      PROVE  IsWord(t, x, y) <=> IsWord(s, x, y)
  <2>1. ASSUME x \in 1..Len(s), y \in 1..Len(s), x <= y
        PROVE  IsWord(t, x, y) <=> IsWord(s, x, y)
    <3>1. \A k \in x..y : t[k] = s[k]
      BY <1>1, <2>1
    <3>2. x > 1 => t[x - 1] = s[x - 1]
      BY <1>1, <2>1
    <3>3. y < Len(s) => t[y + 1] = s[y + 1]
      BY <1>1, <2>1
    <3>4. y = Len(s) => t[y + 1] \notin Alnum
      BY <1>1
    <3>5. x \in 1..Len(t) /\ y \in 1..Len(t) /\ y < Len(t) /\ (y < Len(s) \/ y = Len(s))
      BY <1>1, <2>1
    <3> QED
      BY <2>1, <3>1, <3>2, <3>3, <3>4, <3>5 DEF IsWord
  <2>2. ASSUME IsWord(t, x, y)
        PROVE  x \in 1..Len(s) /\ y \in 1..Len(s) /\ x <= y
    <3>1. /\ x \in 1..Len(t) /\ y \in 1..Len(t) /\ x <= y
          /\ \A k \in x..y : t[k] \in Alnum
      BY <2>2 DEF IsWord
    <3>2. y # Len(s) + 1
      BY <1>1, <3>1
    <3> QED
      BY <1>1, <3>1, <3>2
  <2> QED
    BY <2>1, <2>2 DEF IsWord
<1>3. ASSUME NEW x \in Nat, NEW y \in Nat, IsWord(s, x, y)
      PROVE  SubSeq(t, x, y) = SubSeq(s, x, y)
  <2>1. x \in 1..Len(s) /\ y \in 1..Len(s) /\ x <= y
    BY <1>3 DEF IsWord
  <2>2. \A k \in x..y : s[k] = t[k]
    BY <1>1, <2>1
  <2>3. x \in Nat \ {0} /\ y <= Len(s) /\ y <= Len(t)
    BY <1>1, <2>1
  <2> QED
    BY <1>1, <2>1, <2>2, <2>3, SubSeqAgree
<1>4. \A w \in Nat \X Nat : w = <<w[1], w[2]>> /\ w[1] \in Nat /\ w[2] \in Nat
  OBVIOUS
<1>5. /\ Verdict!WordsOf(s) \subseteq Nat \X Nat /\ Verdict!WordsOf(t) \subseteq Nat \X Nat
      /\ \A x, y \in Nat : <<x, y>> \in Verdict!WordsOf(s) <=> IsWord(s, x, y)
      /\ \A x, y \in Nat : <<x, y>> \in Verdict!WordsOf(t) <=> IsWord(t, x, y)
  BY <1>1, WordsMean
<1>6. ASSUME NEW w \in Nat \X Nat
      PROVE  w \in Forbidden(t) <=> w \in Forbidden(s)
  <2>1. w \in Verdict!WordsOf(t) <=> w \in Verdict!WordsOf(s)
    BY <1>2, <1>4, <1>5
  <2>2. w \in Verdict!WordsOf(s) => SubSeq(t, w[1], w[2]) = SubSeq(s, w[1], w[2])
    BY <1>3, <1>4, <1>5
  <2> QED
    BY <2>1, <2>2 DEF Forbidden
<1>7. Forbidden(t) \subseteq Nat \X Nat /\ Forbidden(s) \subseteq Nat \X Nat
  BY <1>5 DEF Forbidden
<1> QED
  BY <1>6, <1>7 DEF t

\* A last word is one word more.
LEMMA ForbiddenLast ==
  ASSUME NEW b \in Seq(Chars), b # <<>> => End(b) \notin Alnum,
         NEW u \in Seq(Alnum), u # <<>>
  PROVE  LET w == <<Len(b) + 1, Len(b) + Len(u)>>
         IN  /\ w \notin Forbidden(b)
             /\ Forbidden(Joint(b, u)) =
                  IF u \in ForbiddenWords THEN Forbidden(b) \cup {w} ELSE Forbidden(b)
<1> DEFINE t == Joint(b, u)
           B == Len(b)
           U == Len(u)
<1>1. u \in Seq(Chars) /\ B \in Nat /\ U \in Nat /\ U > 0
  BY TextAssumption, EmptySeq
<1>2. /\ t \in Seq(Chars) /\ Len(t) = B + U
      /\ \A k \in 1..(B + U) : t[k] = IF k <= B THEN b[k] ELSE u[k - B]
  BY <1>1, ConcatProperties DEF Joint
<1>3. \A k \in 1..U : u[k] \in Alnum
  OBVIOUS
<1>4. B > 0 => b[B] \notin Alnum
  BY EmptySeq DEF End
<1> HIDE DEF t, B, U
<1>5. \A k \in 1..B : t[k] = b[k]
  BY <1>1, <1>2
<1>6. \A k \in (B + 1)..(B + U) : t[k] \in Alnum /\ t[k] = u[k - B]
  <2> SUFFICES ASSUME NEW k \in (B + 1)..(B + U)
               PROVE  t[k] \in Alnum /\ t[k] = u[k - B]
    OBVIOUS
  <2>1. k \in 1..(B + U) /\ ~(k <= B) /\ k - B \in 1..U
    BY <1>1
  <2> QED
    BY <1>2, <1>3, <2>1
<1>7. ASSUME NEW x \in Nat, NEW y \in Nat, IsWord(b, x, y)
      PROVE  IsWord(t, x, y) /\ y < B /\ SubSeq(t, x, y) = SubSeq(b, x, y)
  <2>1. /\ x \in 1..B /\ y \in 1..B /\ x <= y
        /\ \A k \in x..y : b[k] \in Alnum
        /\ x > 1 => b[x - 1] \notin Alnum
        /\ y < B => b[y + 1] \notin Alnum
    BY <1>7 DEF IsWord, B
  <2>2. y \in x..y
    BY <2>1
  <2>3. y < B
    BY <1>1, <1>4, <2>1, <2>2
  <2>4. \A k \in x..y : t[k] = b[k]
    BY <1>1, <1>5, <2>1
  <2>5. (x > 1 => t[x - 1] = b[x - 1]) /\ t[y + 1] = b[y + 1]
    BY <1>1, <1>5, <2>1, <2>3
  <2>6. x \in 1..(B + U) /\ y \in 1..(B + U)
    BY <1>1, <2>1
  <2>7. IsWord(t, x, y)
    BY <1>2, <2>1, <2>3, <2>4, <2>5, <2>6 DEF IsWord
  <2>8. SubSeq(t, x, y) = SubSeq(b, x, y)
    <3>1. x \in Nat \ {0} /\ y <= Len(b) /\ y <= Len(t)
      BY <1>1, <1>2, <2>1 DEF B
    <3> QED
      BY <1>2, <2>1, <2>4, <3>1, SubSeqAgree
  <2> QED
    BY <2>3, <2>7, <2>8
<1>8. IsWord(t, B + 1, B + U)
  <2> SUFFICES ASSUME NEW x \in Nat, NEW y \in Nat, x = B + 1, y = B + U
               PROVE  IsWord(t, x, y)
    BY <1>1
  <2>1. x > 1 => t[x - 1] \notin Alnum
    BY <1>1, <1>4, <1>5
  <2>2. x \in 1..y /\ y \in 1..y /\ x <= y /\ Len(t) = y
    BY <1>1, <1>2
  <2>3. \A k \in x..y : t[k] \in Alnum
    BY <1>6
  <2>4. ~(y < Len(t))
    BY <2>2
  <2> QED
    BY <2>1, <2>2, <2>3, <2>4 DEF IsWord
<1>9. ASSUME NEW x \in Nat, NEW y \in Nat, IsWord(t, x, y)
      PROVE  IsWord(b, x, y) \/ (x = B + 1 /\ y = B + U)
  <2>1. /\ x \in 1..(B + U) /\ y \in 1..(B + U) /\ x <= y
        /\ \A k \in x..y : t[k] \in Alnum
        /\ x > 1 => t[x - 1] \notin Alnum
        /\ y < B + U => t[y + 1] \notin Alnum
    BY <1>2, <1>9 DEF IsWord
  <2>2. CASE y <= B
    <3>1. /\ x \in 1..B /\ y \in 1..B
          /\ \A k \in x..y : t[k] = b[k]
          /\ x > 1 => t[x - 1] = b[x - 1]
          /\ y < B => t[y + 1] = b[y + 1] /\ y < B + U
      BY <1>1, <1>5, <2>1, <2>2
    <3> QED
      BY <2>1, <3>1 DEF IsWord, B
  <2>3. CASE y > B
    <3>1. x > B
      <4>1. x <= B => B \in x..y /\ B > 0 /\ B \in 1..B
        BY <1>1, <2>1, <2>3
      <4> QED
        BY <1>1, <1>4, <1>5, <2>1, <4>1
    <3>2. x = B + 1
      <4>1. x # B + 1 => x - 1 \in (B + 1)..(B + U) /\ x > 1
        BY <1>1, <2>1, <3>1
      <4> QED
        BY <1>6, <2>1, <4>1
    <3>3. y = B + U
      <4>1. y # B + U => y + 1 \in (B + 1)..(B + U) /\ y < B + U
        BY <1>1, <2>1, <2>3
      <4> QED
        BY <1>6, <2>1, <4>1
    <3> QED
      BY <3>2, <3>3
  <2> QED
    BY <1>1, <2>1, <2>2, <2>3
<1>10. SubSeq(t, B + 1, B + U) = u
  <2> SUFFICES ASSUME NEW x \in Nat, NEW y \in Nat, x = B + 1, y = B + U
               PROVE  SubSeq(t, x, y) = u
    BY <1>1
  <2>1. x \in Int /\ y \in Int /\ \A k \in x..y : t[k] \in Alnum
    BY <1>6
  <2>2. x <= y /\ y - x + 1 = U /\ Len(u) = U
    BY <1>1 DEF U
  <2> DEFINE v == SubSeq(t, x, y)
  <2>3. /\ v \in Seq(Alnum) /\ Len(v) = IF x <= y THEN y - x + 1 ELSE 0
        /\ \A k \in 1..(y - x + 1) : v[k] = t[x + k - 1]
    BY <2>1, SubSeqProperties
  <2> HIDE DEF v
  <2>4. ASSUME NEW k \in 1..U
        PROVE  v[k] = u[k]
    <3> SUFFICES ASSUME NEW n \in Nat, n = x + k - 1
                 PROVE  v[k] = u[k]
      BY <1>1
    <3>1. n \in (B + 1)..(B + U) /\ n - B = k /\ k \in 1..(y - x + 1)
      BY <1>1
    <3>2. v[k] = t[n] /\ t[n] = u[n - B]
      BY <1>6, <2>3, <3>1
    <3> QED
      BY <3>1, <3>2
  <2>5. v \in Seq(Alnum) /\ Len(v) = Len(u) /\ \A k \in 1..Len(v) : v[k] = u[k]
    BY <2>2, <2>3, <2>4
  <2>6. v = u
    BY <2>5, SeqEqual
  <2> QED
    BY <2>6 DEF v
<1> DEFINE w == <<B + 1, B + U>>
<1>11. w \in Nat \X Nat /\ w[1] = B + 1 /\ w[2] = B + U /\ B + 1 \in Nat /\ B + U \in Nat
  BY <1>1
<1>12. /\ Verdict!WordsOf(b) \subseteq Nat \X Nat /\ Verdict!WordsOf(t) \subseteq Nat \X Nat
       /\ \A x, y \in Nat : <<x, y>> \in Verdict!WordsOf(b) <=> IsWord(b, x, y)
       /\ \A x, y \in Nat : <<x, y>> \in Verdict!WordsOf(t) <=> IsWord(t, x, y)
  BY <1>2, WordsMean
<1>13. w \notin Verdict!WordsOf(b)
  <2>1. ~(B + U < B)
    BY <1>1
  <2> QED
    BY <1>7, <1>11, <1>12, <2>1
<1>14. ASSUME NEW z \in Nat \X Nat
       PROVE  z \in Forbidden(t) <=> z \in Forbidden(b) \/ (z = w /\ u \in ForbiddenWords)
  <2>1. z = <<z[1], z[2]>> /\ z[1] \in Nat /\ z[2] \in Nat
    OBVIOUS
  <2>2. z \in Verdict!WordsOf(t) <=> z \in Verdict!WordsOf(b) \/ z = w
    <3>1. z \in Verdict!WordsOf(b) <=> IsWord(b, z[1], z[2])
      BY <1>12, <2>1
    <3>2. z \in Verdict!WordsOf(t) <=> IsWord(t, z[1], z[2])
      BY <1>12, <2>1
    <3>3. z = w <=> z[1] = B + 1 /\ z[2] = B + U
      BY <2>1
    <3> HIDE DEF w
    <3> QED
      BY <1>7, <1>8, <1>9, <2>1, <3>1, <3>2, <3>3
  <2>3. z \in Verdict!WordsOf(b) => SubSeq(t, z[1], z[2]) = SubSeq(b, z[1], z[2])
    BY <1>7, <1>12, <2>1
  <2>4. z = w => SubSeq(t, z[1], z[2]) = u
    BY <1>10, <1>11
  <2> HIDE DEF w
  <2> QED
    BY <1>13, <2>2, <2>3, <2>4 DEF Forbidden
<1>15. Forbidden(t) \subseteq Nat \X Nat /\ Forbidden(b) \subseteq Nat \X Nat
  BY <1>12 DEF Forbidden
<1>16. w \notin Forbidden(b)
  BY <1>13 DEF Forbidden
<1> HIDE DEF w
<1>17. Forbidden(t) = IF u \in ForbiddenWords THEN Forbidden(b) \cup {w} ELSE Forbidden(b)
  <2>1. w \in Nat \X Nat
    BY <1>11
  <2> QED
    BY <1>14, <1>15, <2>1
<1> QED
  BY <1>16, <1>17 DEF t, w, B, U

\* The word Tokenize is in and how many of the words before it are forbidden.
Scan == [word : Seq(Alnum), bad : Nat]
Closed(r) == IF r.word # <<>> /\ r.word \in ForbiddenWords THEN r.bad + 1 ELSE r.bad
Scans(r, c) ==
  IF c \in Alnum THEN [word |-> Append(r.word, c), bad |-> r.bad]
  ELSE [word |-> <<>>, bad |-> Closed(r)]
Scanned ==
  Fold(Chars, [word |-> <<>>, bad |-> 0], [p \in Scan \X Chars |-> Scans(p[1], p[2])])

LEMMA ScansType ==
  ASSUME NEW r \in Scan
  PROVE  /\ r.word \in Seq(Alnum) /\ r.bad \in Nat /\ Closed(r) \in Nat
         /\ \A c \in Chars : Scans(r, c) \in Scan
<1>1. r.word \in Seq(Alnum) /\ r.bad \in Nat
  BY DEF Scan
<1>2. Closed(r) \in Nat
  BY <1>1 DEF Closed
<1>3. ASSUME NEW c \in Chars
      PROVE  Scans(r, c) \in Scan
  <2>1. CASE c \in Alnum
    <3>1. Append(r.word, c) \in Seq(Alnum)
      BY <1>1, <2>1, Extended
    <3> QED
      BY <1>1, <2>1, <3>1 DEF Scans, Scan
  <2>2. CASE c \notin Alnum
    <3>1. <<>> \in Seq(Alnum)
      OBVIOUS
    <3> QED
      BY <1>2, <2>2, <3>1 DEF Scans, Scan
  <2> QED
    BY <2>1, <2>2
<1> QED
  BY <1>1, <1>2, <1>3

LEMMA ScannedLaw ==
  /\ Scanned[<<>>] = [word |-> <<>>, bad |-> 0]
  /\ \A s \in Seq(Chars) : Scanned[s] \in Scan
  /\ \A s \in Seq(Chars), c \in Chars : Scanned[Append(s, c)] = Scans(Scanned[s], c)
<1> DEFINE first == [word |-> <<>>, bad |-> 0]
           next == [p \in Scan \X Chars |-> Scans(p[1], p[2])]
<1>1. next \in [Scan \X Chars -> Scan]
  BY ScansType
<1>2. first \in Scan
  <2>1. <<>> \in Seq(Alnum)
    OBVIOUS
  <2> QED
    BY <2>1 DEF Scan
<1>3. \A r \in Scan, c \in Chars : next[<<r, c>>] = Scans(r, c)
  OBVIOUS
<1>4. Scanned = Fold(Chars, first, next)
  BY DEF Scanned
<1> HIDE DEF next, first
<1>5. Folds(Scanned, Chars, Scan, first, next)
  BY <1>1, <1>2, <1>4, FoldLaw
<1> QED
  BY <1>3, <1>5 DEF Folds, first

LEMMA ClosedMeans ==
  ASSUME NEW b \in Seq(Chars), b # <<>> => End(b) \notin Alnum, NEW r \in Scan,
         r.bad = Cardinality(Forbidden(b))
  PROVE  Closed(r) = Cardinality(Forbidden(Joint(b, r.word)))
<1>1. r.word \in Seq(Alnum) /\ IsFiniteSet(Forbidden(b))
  BY ScansType, WordsMean
<1>2. CASE r.word = <<>>
  <2>1. <<>> \in Seq(Chars)
    OBVIOUS
  <2>2. Joint(b, <<>>) = b
    BY <2>1, JointLaw
  <2> QED
    BY <1>2, <2>2 DEF Closed
<1>3. CASE r.word # <<>>
  <2> DEFINE w == <<Len(b) + 1, Len(b) + Len(r.word)>>
  <2>1. /\ w \notin Forbidden(b)
        /\ Forbidden(Joint(b, r.word)) =
             IF r.word \in ForbiddenWords THEN Forbidden(b) \cup {w} ELSE Forbidden(b)
    BY <1>1, <1>3, ForbiddenLast
  <2> HIDE DEF w
  <2>2. Cardinality(Forbidden(b) \cup {w}) = Cardinality(Forbidden(b)) + 1
    BY <1>1, <2>1, FS_AddElement
  <2> QED
    BY <1>3, <2>1, <2>2 DEF Closed
<1> QED
  BY <1>2, <1>3

\* b is the part of s before the word that s ends in.
Splits(s, b) ==
  /\ s = Joint(b, Scanned[s].word)
  /\ b # <<>> => End(b) \notin Alnum
  /\ Scanned[s].bad = Cardinality(Forbidden(b))

\* Counting the words as they end counts the words of the text.
LEMMA ScannedMeans ==
  \A s \in Seq(Chars) : Closed(Scanned[s]) = Cardinality(Forbidden(s))
<1> DEFINE T == {s \in Seq(Chars) : \E b \in Seq(Chars) : Splits(s, b)}
<1>1. ASSUME NEW s \in Seq(Chars), NEW b \in Seq(Chars), Splits(s, b)
      PROVE  Closed(Scanned[s]) = Cardinality(Forbidden(s))
  <2> DEFINE r == Scanned[s]
  <2>1. r \in Scan
    BY ScannedLaw
  <2>2. s = Joint(b, r.word) /\ r.bad = Cardinality(Forbidden(b))
        /\ (b # <<>> => End(b) \notin Alnum)
    BY <1>1 DEF Splits
  <2> HIDE DEF r
  <2>3. Closed(r) = Cardinality(Forbidden(Joint(b, r.word)))
    BY <2>1, <2>2, ClosedMeans
  <2>4. Closed(r) = Cardinality(Forbidden(s))
    BY <2>2, <2>3
  <2> QED
    BY <2>4 DEF r
<1>2. <<>> \in T
  <2>1. <<>> \in Seq(Chars)
    OBVIOUS
  <2>2. Joint(<<>>, <<>>) = <<>>
    BY <2>1, JointLaw
  <2>3. Forbidden(<<>>) = {}
    <3>1. Verdict!WordsOf(<<>>) = {}
      BY DEF Verdict!WordsOf
    <3> QED
      BY <3>1 DEF Forbidden
  <2>4. Splits(<<>>, <<>>)
    <3>1. Scanned[<<>>].word = <<>> /\ Scanned[<<>>].bad = 0
      BY ScannedLaw
    <3>2. Cardinality(Forbidden(<<>>)) = 0
      BY <2>3, FS_EmptySet
    <3> QED
      BY <2>2, <3>1, <3>2 DEF Splits
  <2> QED
    BY <2>1, <2>4
<1>3. ASSUME NEW s \in T, NEW c \in Chars
      PROVE  Append(s, c) \in T
  <2>1. PICK b \in Seq(Chars) : Splits(s, b)
    OBVIOUS
  <2>2. s \in Seq(Chars)
    OBVIOUS
  <2> DEFINE r == Scanned[s]
             t == Append(s, c)
  <2>3. r \in Scan /\ r.word \in Seq(Alnum) /\ r.word \in Seq(Chars)
        /\ Scanned[t] = Scans(r, c)
    <3>1. r \in Scan /\ Scanned[t] = Scans(r, c)
      BY <2>2, ScannedLaw
    <3> HIDE DEF r
    <3>2. r.word \in Seq(Alnum) /\ Alnum \subseteq Chars
      BY <3>1, ScansType, TextAssumption
    <3> QED
      BY <3>1, <3>2
  <2>4. t \in Seq(Chars) /\ t # <<>> /\ End(t) = c
    BY <2>2, Ended
  <2>5. CASE c \in Alnum
    <3>1. Scanned[t] = [word |-> Append(r.word, c), bad |-> r.bad]
      BY <2>3, <2>5 DEF Scans
    <3>2. t = Joint(b, Append(r.word, c))
      <4>1. Append(Joint(b, r.word), c) = Joint(b, Append(r.word, c))
        <5> DEFINE u == r.word
        <5>1. u \in Seq(Chars)
          BY <2>3
        <5> HIDE DEF u
        <5>2. Append(Joint(b, u), c) = Joint(b, Append(u, c))
          BY <5>1, JointAppend
        <5> QED
          BY <5>2 DEF u
      <4> QED
        BY <2>1, <4>1 DEF Splits
    <3>3. Splits(t, b)
      BY <2>1, <3>1, <3>2 DEF Splits
    <3> QED
      BY <2>4, <3>3
  <2>6. CASE c \notin Alnum
    <3>1. Scanned[t] = [word |-> <<>>, bad |-> Closed(r)]
      BY <2>3, <2>6 DEF Scans
    <3>2. t = Joint(t, <<>>)
      <4>1. <<>> \in Seq(Chars)
        OBVIOUS
      <4> HIDE DEF t
      <4> QED
        BY <2>4, <4>1, JointLaw
    <3>3. Closed(r) = Cardinality(Forbidden(t))
      <4>1. Closed(r) = Cardinality(Forbidden(s))
        BY <1>1, <2>1, <2>2
      <4>2. Forbidden(t) = Forbidden(s)
        BY <2>2, <2>6, ForbiddenStays
      <4> QED
        BY <4>1, <4>2
    <3>4. Splits(t, t)
      <4> HIDE DEF t, r
      <4> QED
        BY <2>4, <2>6, <3>1, <3>2, <3>3 DEF Splits
    <3> QED
      BY <2>4, <3>4
  <2> QED
    BY <2>5, <2>6
<1>4. T = Seq(Chars)
  <2>1. T \in SUBSET Seq(Chars)
    OBVIOUS
  <2> HIDE DEF T
  <2> QED
    BY <1>2, <1>3, <2>1, SeqInduction
<1> SUFFICES ASSUME NEW s \in Seq(Chars)
             PROVE  Closed(Scanned[s]) = Cardinality(Forbidden(s))
  OBVIOUS
<1>5. PICK b \in Seq(Chars) : Splits(s, b)
  BY <1>4
<1> QED
  BY <1>1, <1>5

\* Blanks at the ends add no word and change none.
LEMMA BlanksScanned ==
  ASSUME NEW s \in Seq(Chars), NEW pre \in Seq(Blank), NEW post \in Seq(Blank)
  PROVE  Closed(Scanned[Joint(Joint(pre, s), post)]) = Closed(Scanned[s])
<1> DEFINE empty == [word |-> <<>>, bad |-> 0]
<1>1. Blank \subseteq Chars \ Alnum /\ Seq(Blank) \subseteq Seq(Chars)
  BY MeaningLaw, BlankText DEF Blank
<1>2. \A t \in Seq(Blank) : Scanned[t] = empty
  <2> DEFINE T == {t \in Seq(Blank) : Scanned[t] = empty}
  <2>1. <<>> \in T
    <3>1. <<>> \in Seq(Blank)
      OBVIOUS
    <3> QED
      BY <3>1, ScannedLaw
  <2>2. ASSUME NEW t \in T, NEW c \in Blank
        PROVE  Append(t, c) \in T
    <3>1. t \in Seq(Blank) /\ t \in Seq(Chars) /\ c \in Chars /\ c \notin Alnum
          /\ Scanned[t] = empty
      BY <1>1
    <3>2. Scanned[Append(t, c)] = Scans(empty, c)
      BY <3>1, ScannedLaw
    <3>3. Scans(empty, c) = empty
      BY <3>1 DEF Scans, Closed
    <3>4. Append(t, c) \in Seq(Blank)
      BY <3>1, Extended
    <3> QED
      BY <3>2, <3>3, <3>4
  <2>3. T = Seq(Blank)
    <3>1. T \in SUBSET Seq(Blank)
      OBVIOUS
    <3> HIDE DEF T
    <3> QED
      BY <2>1, <2>2, <3>1, SeqInduction
  <2> QED
    BY <2>3
<1>3. \A t \in Seq(Chars) : Scanned[Joint(pre, t)] = Scanned[t]
  <2> DEFINE T == {t \in Seq(Chars) : Scanned[Joint(pre, t)] = Scanned[t]}
  <2>1. <<>> \in T
    <3>1. <<>> \in Seq(Chars) /\ pre \in Seq(Chars)
      BY <1>1
    <3>2. Joint(pre, <<>>) = pre
      BY <3>1, JointLaw
    <3> QED
      BY <1>2, <3>1, <3>2, ScannedLaw
  <2>2. ASSUME NEW t \in T, NEW c \in Chars
        PROVE  Append(t, c) \in T
    <3> DEFINE u == Joint(pre, t)
    <3>1. t \in Seq(Chars) /\ pre \in Seq(Chars) /\ Scanned[u] = Scanned[t]
      BY <1>1
    <3>2. u \in Seq(Chars)
      BY <3>1, JointLaw
    <3>3. Append(u, c) = Joint(pre, Append(t, c))
      BY <3>1, BlankJoint
    <3> HIDE DEF u
    <3>4. Scanned[Append(u, c)] = Scans(Scanned[u], c)
      BY <3>2, ScannedLaw
    <3>5. Scanned[Append(t, c)] = Scans(Scanned[t], c) /\ Append(t, c) \in Seq(Chars)
      BY <3>1, ScannedLaw, Extended
    <3> QED
      BY <3>1, <3>3, <3>4, <3>5
  <2>3. T = Seq(Chars)
    <3>1. T \in SUBSET Seq(Chars)
      OBVIOUS
    <3> HIDE DEF T
    <3> QED
      BY <2>1, <2>2, <3>1, SeqInduction
  <2> QED
    BY <2>3
<1> DEFINE x == Joint(pre, s)
<1>4. x \in Seq(Chars)
  <2>1. pre \in Seq(Chars)
    BY <1>1
  <2> QED
    BY <2>1, JointLaw
<1> HIDE DEF x
<1>5. Closed(Scanned[Joint(x, post)]) = Closed(Scanned[x])
  <2> DEFINE T == {t \in Seq(Blank) : Closed(Scanned[Joint(x, t)]) = Closed(Scanned[x])}
  <2>1. <<>> \in T
    <3>1. <<>> \in Seq(Blank)
      OBVIOUS
    <3>2. <<>> \in Seq(Chars)
      OBVIOUS
    <3>3. Joint(x, <<>>) = x
      BY <1>4, <3>2, JointLaw
    <3> QED
      BY <3>1, <3>3
  <2>2. ASSUME NEW t \in T, NEW c \in Blank
        PROVE  Append(t, c) \in T
    <3> DEFINE u == Joint(x, t)
    <3>1. t \in Seq(Blank) /\ t \in Seq(Chars) /\ c \in Chars /\ c \notin Alnum
          /\ Closed(Scanned[u]) = Closed(Scanned[x])
      BY <1>1
    <3>2. u \in Seq(Chars) /\ Append(u, c) = Joint(x, Append(t, c))
      BY <1>4, <3>1, JointLaw, JointAppend
    <3> HIDE DEF u
    <3>3. Scanned[Append(u, c)] = Scans(Scanned[u], c)
      BY <3>1, <3>2, ScannedLaw
    <3>4. Closed(Scans(Scanned[u], c)) = Closed(Scanned[u])
      BY <3>1 DEF Scans, Closed
    <3>5. Append(t, c) \in Seq(Blank)
      BY <3>1, Extended
    <3> QED
      BY <3>1, <3>2, <3>3, <3>4, <3>5
  <2>3. T = Seq(Blank)
    <3>1. T \in SUBSET Seq(Blank)
      OBVIOUS
    <3> HIDE DEF T
    <3> QED
      BY <2>1, <2>2, <3>1, SeqInduction
  <2> QED
    BY <2>3
<1> QED
  BY <1>3, <1>5 DEF x

-----------------------------------------------------------------------------
(***************************************************************************)
(* So TextVerdict flags a text exactly when the loops, one after another,  *)
(* come to more than Threshold forbidden words.                            *)
(***************************************************************************)

\* What the stages before LeetspeakNormalization leave of a text, whether it is
\* taken for Cyrillic, and the forbidden words they come to.
Left(t) == Looped(Trimmed(ToLower(NFC(t))))
IsCyrillic(x) == Cardinality(Places(x, Cyrillic)) > Cardinality(Places(x, Latin))
ForbiddenIn(x) == Closed(Scanned[Read(x, IsCyrillic(x))])

LEMMA LeftType ==
  ASSUME NEW t \in Texts
  PROVE  /\ ToLower(NFC(t)) \in Seq(Chars)
         /\ Trimmed(ToLower(NFC(t))) \in Seq(Chars) /\ Left(t) \in Seq(Chars)
<1>1. ToLower(NFC(t)) \in Seq(Chars)
  BY TextAssumption
<1> DEFINE v == Trimmed(ToLower(NFC(t)))
<1>2. v \in Seq(Chars)
  BY <1>1, TrimmedType
<1>3. Looped(v) \in Seq(Chars)
  <2> HIDE DEF v
  <2>1. Verdict!Visible[v] \in Seq(Chars)
    BY <1>2, VisibleLaw
  <2>2. Joined[Verdict!Visible[v]] \in Seq(Chars)
    BY <2>1, JoinedLaw
  <2> QED
    BY <2>2, SingleLaw DEF Looped
<1> QED
  BY <1>1, <1>2, <1>3 DEF Left

\* The instance's name of an operator of the library.
LEMMA SameCardinality ==
  \A S : Verdict!Cardinality(S) = Cardinality(S)
BY DEF Verdict!Cardinality, Cardinality

LEMMA FlaggedMeans ==
  ASSUME NEW t \in Texts
  PROVE  Verdict!Flagged(t) <=> ForbiddenIn(Left(t)) > Threshold
<1> DEFINE s == ToLower(NFC(t))
           plain == Plain(s)
           x == Left(t)
<1>1. s \in Seq(Chars) /\ x \in Seq(Chars)
  BY LeftType
<1>2. Verdict!Squeezed[Verdict!Seen(t)] = plain
  BY DEF Verdict!Seen, Plain, Whitened, Shown
<1>3. Verdict!InCyrillic(plain) = IsCyrillic(plain)
  BY SameCardinality DEF Verdict!InCyrillic, IsCyrillic, Places
<1>4. Verdict!Flagged(t)
        <=> Cardinality(Forbidden(Read(plain, IsCyrillic(plain)))) > Threshold
  <2> HIDE DEF plain
  <2> QED
    BY <1>2, <1>3, SameCardinality DEF Verdict!Flagged, Read, Forbidden
<1>5. PICK pre \in Seq(Blank), post \in Seq(Blank) : plain = Joint(Joint(pre, x), post)
  BY <1>1, PlainIsLooped DEF Left
<1>6. plain \in Seq(Chars)
  BY <1>1, PlainLaw
<1> HIDE DEF s, plain, x
<1>7. IsCyrillic(plain) = IsCyrillic(x)
  <2>1. Cyrillic \cap Blank = {} /\ Latin \cap Blank = {}
    BY MeaningLaw
  <2>2. Cardinality(Places(plain, Cyrillic)) = Cardinality(Places(x, Cyrillic))
    BY <1>1, <1>5, <2>1, BlanksUncounted
  <2>3. Cardinality(Places(plain, Latin)) = Cardinality(Places(x, Latin))
    BY <1>1, <1>5, <2>1, BlanksUncounted
  <2> QED
    BY <2>2, <2>3 DEF IsCyrillic
<1> DEFINE b == IsCyrillic(x)
<1>8. b \in BOOLEAN
  BY DEF IsCyrillic
<1> HIDE DEF b
<1>9. \A u \in Seq(Blank) : u \in Seq(Chars) /\ Read(u, b) = u
  <2> SUFFICES ASSUME NEW u \in Seq(Blank)
               PROVE  u \in Seq(Chars) /\ Read(u, b) = u
    OBVIOUS
  <2>1. \A k \in DOMAIN u : Verdict!Meaning(u[k], b) = u[k]
    BY <1>8, MeaningLaw
  <2>2. u = [k \in DOMAIN u |-> u[k]]
    OBVIOUS
  <2> QED
    BY <2>1, <2>2, BlankText DEF Read
<1>10. Read(plain, b) = Joint(Joint(pre, Read(x, b)), post)
  <2> DEFINE y == Joint(pre, x)
  <2>1. pre \in Seq(Chars) /\ post \in Seq(Chars) /\ Read(pre, b) = pre /\ Read(post, b) = post
    BY <1>9
  <2>2. y \in Seq(Chars)
    BY <1>1, <2>1, JointLaw
  <2>3. Read(y, b) = Joint(pre, Read(x, b))
    BY <1>1, <1>8, <2>1, ReadLaw
  <2> HIDE DEF y
  <2>4. Read(Joint(y, post), b) = Joint(Read(y, b), post)
    BY <1>8, <2>1, <2>2, ReadLaw
  <2> QED
    BY <1>5, <2>3, <2>4 DEF y
<1>11. Closed(Scanned[Read(plain, b)]) = Closed(Scanned[Read(x, b)])
  <2>1. Read(x, b) \in Seq(Chars)
    BY <1>1, <1>8, ReadLaw
  <2> QED
    BY <1>10, <2>1, BlanksScanned
<1>12. Cardinality(Forbidden(Read(plain, b))) = Closed(Scanned[Read(x, b)])
  <2>1. Read(plain, b) \in Seq(Chars)
    BY <1>6, <1>8, ReadLaw
  <2> QED
    BY <1>11, <2>1, ScannedMeans
<1> QED
  BY <1>4, <1>7, <1>12 DEF b, ForbiddenIn, x

-----------------------------------------------------------------------------
(***************************************************************************)
(* The invariant.  At every turn the loop of a stage has computed its      *)
(* function of the part of the text it has read.                           *)
(***************************************************************************)

Loaded(t) == IF t \in Unreadable THEN <<>> ELSE Trimmed(ToLower(NFC(t)))
Unleeted(t) == Read(Looped(Loaded(t)), IsCyrillic(Looped(Loaded(t))))

\* What the loop at position n of text s has read.
Before(s, n) == SubSeq(s, 1, n - 1)

Computed ==
  /\ stage \notin {"tokenize", "check", "done"} => word = <<>> /\ tokens = <<>>
  /\ stage = "invisible" =>
       text = Loaded(input) /\ result = Verdict!Visible[Before(text, i)]
  /\ stage = "whitespace" =>
       text = Verdict!Visible[Loaded(input)] /\ result = Joined[Before(text, i)]
  /\ stage = "repetition" =>
       text = Joined[Verdict!Visible[Loaded(input)]] /\ result = Single[Before(text, i)]
  /\ stage = "orient" =>
       /\ text = Looped(Loaded(input))
       /\ cyr = Cardinality(Places(Before(text, i), Cyrillic))
       /\ lat = Cardinality(Places(Before(text, i), Latin))
  /\ stage = "leet" =>
       /\ text = Looped(Loaded(input)) /\ cyrillic = IsCyrillic(text)
       /\ result = Read(Before(text, i), cyrillic)
  /\ stage = "tokenize" =>
       /\ text = Unleeted(input)
       /\ Scanned[Before(text, i)] =
            [word |-> word, bad |-> Cardinality(Places(tokens, ForbiddenWords))]
  /\ stage = "check" =>
       Cardinality(Places(tokens, ForbiddenWords)) = Closed(Scanned[Unleeted(input)])

\* The verdict, once there is one.
Decided ==
  /\ stage # "done" => verdict = "none"
  /\ stage = "done" =>
       \/ verdict = "threw" /\ input \in Throwing
       \/ verdict = "flagged" /\ Closed(Scanned[Unleeted(input)]) > Threshold
       \/ verdict = "passed" /\ ~(Closed(Scanned[Unleeted(input)]) > Threshold)

VInv == IInv /\ Computed /\ Decided

LEMMA Turns ==
  ASSUME NEW C, NEW s \in Seq(C)
  PROVE  /\ Before(s, 1) = <<>> /\ Before(s, Len(s) + 1) = s
         /\ \A n \in 1..(Len(s) + 1) : Before(s, n) \in Seq(C)
         /\ \A n \in 1..Len(s) : Before(s, n + 1) = Append(Before(s, n), s[n])
<1>1. Len(s) \in Nat /\ 0 \in 0..Len(s)
  OBVIOUS
<1>2. Before(s, 1) = <<>>
  <2>1. SubSeq(s, 1, 0) \in Seq(C) /\ Len(SubSeq(s, 1, 0)) = 0
    BY <1>1, Prefix
  <2>2. SubSeq(s, 1, 0) = <<>>
    BY <2>1, EmptySeq
  <2> QED
    BY <2>2 DEF Before
<1>3. Before(s, Len(s) + 1) = s
  <2>1. SubSeq(s, 1, Len(s)) = s /\ Len(s) + 1 - 1 = Len(s)
    BY <1>1, SubSeqFull
  <2> QED
    BY <2>1 DEF Before
<1>4. ASSUME NEW n \in 1..(Len(s) + 1)
      PROVE  Before(s, n) \in Seq(C)
  <2>1. n - 1 \in 0..Len(s)
    BY <1>1
  <2> QED
    BY <2>1, Prefix DEF Before
<1>5. ASSUME NEW n \in 1..Len(s)
      PROVE  Before(s, n + 1) = Append(Before(s, n), s[n])
  <2> DEFINE a == Before(s, n + 1)
             b == Append(Before(s, n), s[n])
  <2>1. n \in 0..Len(s) /\ n - 1 \in 0..Len(s) /\ n + 1 - 1 = n /\ s[n] \in C /\ n \in Nat
    BY <1>1
  <2>2. a \in Seq(C) /\ Len(a) = n /\ \A k \in 1..n : a[k] = s[k]
    BY <2>1, Prefix DEF Before
  <2>3. /\ Before(s, n) \in Seq(C) /\ Len(Before(s, n)) = n - 1
        /\ \A k \in 1..(n - 1) : Before(s, n)[k] = s[k]
    BY <2>1, Prefix DEF Before
  <2>4. /\ b \in Seq(C) /\ Len(b) = n - 1 + 1 /\ b[n - 1 + 1] = s[n]
        /\ \A k \in 1..(n - 1) : b[k] = s[k]
    BY <2>1, <2>3, Extended
  <2> HIDE DEF a, b
  <2>5. n - 1 + 1 = n /\ \A k \in 1..n : k = n \/ k \in 1..(n - 1)
    BY <2>1
  <2>6. \A k \in 1..n : a[k] = b[k]
    BY <2>2, <2>4, <2>5
  <2>7. a = b
    BY <2>2, <2>4, <2>5, <2>6, SeqEqual
  <2> QED
    BY <2>7 DEF a, b
<1> QED
  BY <1>2, <1>3, <1>4, <1>5

\* What a turn of a loop reads.
LEMMA TurnReads ==
  ASSUME IInv
  PROVE  /\ Before(text, i) \in Seq(Chars) /\ Before(text, 1) = <<>>
         /\ i <= Len(text) =>
              /\ Character \in Chars
              /\ Before(text, i + 1) = Append(Before(text, i), Character)
         /\ i > Len(text) => Before(text, i) = text
<1>1. text \in Seq(Chars) /\ Len(text) \in Nat /\ i \in 1..(Len(text) + 1)
  BY DEF IInv, TypeOK
<1>2. i <= Len(text) => i \in 1..Len(text) /\ text[i] \in Chars
  BY <1>1
<1>3. i > Len(text) => i = Len(text) + 1
  BY <1>1
<1> QED
  BY <1>1, <1>2, <1>3, Turns DEF Character

LEMMA Appends ==
  ASSUME NEW s \in Seq(Chars), NEW c
  PROVE  s \o <<c>> = Append(s, c) /\ s \o <<>> = s
BY AppendIsConcat, ConcatEmptySeq

LEMMA LoopsCompute ==
  ASSUME VInv, SkipInvisible \/ JoinWhite \/ SkipRepeated
  PROVE  Computed'
<1> DEFINE c == Character
           b == Before(text, i)
<1>1. /\ i <= Len(text) /\ stage' = stage /\ text' = text /\ i' = i + 1
      /\ UNCHANGED <<input, cyr, lat, cyrillic, word, tokens, verdict>>
      /\ result \in Seq(Chars) /\ IInv /\ Computed
  BY DEF SkipInvisible, JoinWhite, SkipRepeated, Write, At, VInv, IInv, TypeOK
<1>2. c \in Chars /\ b \in Seq(Chars) /\ Before(text', i') = Append(b, c)
  BY <1>1, TurnReads
<1>3. result \o <<c>> = Append(result, c) /\ result \o <<Space>> = Append(result, Space)
      /\ result \o <<>> = result
  BY <1>1, Appends
<1>4. word' = word /\ tokens' = tokens /\ input' = input /\ (word = <<>> /\ tokens = <<>>)
  BY <1>1 DEF Computed, SkipInvisible, JoinWhite, SkipRepeated, Write, At
<1> HIDE DEF b
<1>5. CASE SkipInvisible
  <2>1. /\ stage = "invisible" /\ result' = IF c \in Invisible THEN result ELSE Append(result, c)
        /\ text = Loaded(input) /\ result = Verdict!Visible[b]
    BY <1>1, <1>3, <1>5 DEF SkipInvisible, Write, At, Computed, b
  <2>2. result' = Verdict!Visible[Append(b, c)]
    BY <1>2, <2>1, VisibleLaw
  <2> HIDE DEF c
  <2> QED
    BY <1>1, <1>2, <1>4, <2>1, <2>2 DEF Computed
<1>6. CASE JoinWhite
  <2>1. /\ stage = "whitespace"
        /\ result' = IF c \notin White THEN Append(result, c)
                     ELSE IF ~PrevSpace /\ result # <<>> THEN Append(result, Space) ELSE result
        /\ text = Verdict!Visible[Loaded(input)] /\ result = Joined[b]
    BY <1>1, <1>3, <1>6 DEF JoinWhite, Write, At, Computed, b
  <2>2. result' = Joins(result, c)
    BY <2>1 DEF Joins, Dropped, Shown, PrevSpace, End
  <2>3. result' = Joined[Append(b, c)]
    BY <1>2, <2>1, <2>2, JoinedLaw
  <2> HIDE DEF c
  <2> QED
    BY <1>1, <1>2, <1>4, <2>1, <2>3 DEF Computed
<1>7. CASE SkipRepeated
  <2>1. /\ stage = "repetition"
        /\ result' = IF c = PrevChar THEN result ELSE Append(result, c)
        /\ text = Joined[Verdict!Visible[Loaded(input)]] /\ result = Single[b]
    BY <1>1, <1>3, <1>7 DEF SkipRepeated, Write, At, Computed, b
  <2>2. result' = Skips(result, c)
    BY <2>1 DEF Skips, PrevChar, End
  <2>3. result' = Single[Append(b, c)]
    BY <1>2, <2>1, <2>2, SingleLaw
  <2> HIDE DEF c
  <2> QED
    BY <1>1, <1>2, <1>4, <2>1, <2>3 DEF Computed
<1> QED
  BY <1>5, <1>6, <1>7

LEMMA NormalizeComputes ==
  ASSUME VInv, Normalize \/ NormalizerFails
  PROVE  Computed'
<1>1. /\ stage = "normalize" /\ stage' = "invisible"
      /\ UNCHANGED <<input, i, result, cyr, lat, cyrillic, word, tokens, verdict>>
      /\ text' = Loaded(input)
  BY DEF Normalize, NormalizerFails, Loaded
<1>2. i = 1 /\ result = <<>> /\ word = <<>> /\ tokens = <<>> /\ input \in Texts
  BY <1>1 DEF VInv, IInv, Loops, Computed
<1>3. Before(text', 1) = <<>>
  <2>1. ToLower(NFC(input)) \in Seq(Chars)
    BY <1>2, TextAssumption
  <2>2. Loaded(input) \in Seq(Chars)
    BY <2>1, EmptyText, TrimmedType DEF Loaded
  <2> QED
    BY <1>1, <2>2, Turns
<1> QED
  BY <1>1, <1>2, <1>3, VisibleLaw DEF Computed

LEMMA HandOversCompute ==
  ASSUME VInv, NextText
  PROVE  Computed'
<1>1. /\ i > Len(text) /\ text' = result /\ result' = <<>> /\ i' = 1
      /\ UNCHANGED <<input, cyr, lat, cyrillic, word, tokens, verdict>>
      /\ word = <<>> /\ tokens = <<>> /\ Before(text, i) = text
      /\ result \in Seq(Chars) /\ Computed
  <2>1. i > Len(text) /\ stage \notin {"tokenize", "check", "done"}
    BY DEF NextText, HandOver, Over
  <2>2. Before(text, i) = text
    BY <2>1, TurnReads DEF VInv
  <2> QED
    BY <2>1, <2>2 DEF NextText, HandOver, VInv, IInv, TypeOK, Computed
<1>2. Before(text', 1) = <<>>
  BY <1>1, Turns
<1>3. CASE HandOver("invisible", "whitespace")
  BY <1>1, <1>2, <1>3, JoinedLaw DEF HandOver, Over, Computed
<1>4. CASE HandOver("whitespace", "repetition")
  BY <1>1, <1>2, <1>4, SingleLaw DEF HandOver, Over, Computed
<1>5. CASE HandOver("repetition", "orient")
  <2>1. stage = "repetition" /\ stage' = "orient" /\ cyr = 0 /\ lat = 0
    BY <1>5 DEF HandOver, Over, VInv, IInv, Loops
  <2>2. text' = Looped(Loaded(input))
    BY <1>1, <2>1 DEF Computed, Looped
  <2>3. \A A : Cardinality(Places(<<>>, A)) = 0
    BY <1>1, PlacesLaw
  <2> QED
    BY <1>1, <1>2, <2>1, <2>2, <2>3 DEF Computed
<1>6. CASE HandOver("leet", "tokenize")
  <2>1. stage = "leet" /\ stage' = "tokenize"
    BY <1>6 DEF HandOver, Over
  <2>2. text' = Unleeted(input)
    BY <1>1, <2>1 DEF Computed, Unleeted
  <2>3. Cardinality(Places(<<>>, ForbiddenWords)) = 0
    BY <1>1, PlacesLaw
  <2>4. Scanned[<<>>] = [word |-> <<>>, bad |-> 0]
    BY ScannedLaw
  <2> QED
    BY <1>1, <1>2, <2>1, <2>2, <2>3, <2>4 DEF Computed
<1> QED
  BY <1>3, <1>4, <1>5, <1>6 DEF NextText

LEMMA AlphabetComputes ==
  ASSUME VInv, CountAlphabet \/ Orient \/ Unleet
  PROVE  Computed'
<1> DEFINE c == Character
           b == Before(text, i)
<1>1. IInv /\ Computed /\ TypeOK
  BY DEF VInv, IInv
<1>2. CASE CountAlphabet
  <2>1. /\ stage = "orient" /\ i <= Len(text) /\ i' = i + 1
        /\ UNCHANGED <<stage, input, text, result, cyrillic, word, tokens, verdict>>
        /\ cyr' = (IF c \in Cyrillic THEN cyr + 1 ELSE cyr)
        /\ lat' = (IF c \in Latin THEN lat + 1 ELSE lat)
    BY <1>2 DEF CountAlphabet, At
  <2>2. c \in Chars /\ b \in Seq(Chars) /\ Before(text', i') = Append(b, c)
    BY <1>1, <2>1, TurnReads
  <2>3. /\ cyr = Cardinality(Places(b, Cyrillic)) /\ lat = Cardinality(Places(b, Latin))
        /\ text = Looped(Loaded(input)) /\ word = <<>> /\ tokens = <<>>
    BY <1>1, <2>1 DEF Computed
  <2> HIDE DEF b, c
  <2>4. cyr' = Cardinality(Places(Append(b, c), Cyrillic))
    BY <2>1, <2>2, <2>3, PlacesLaw
  <2>5. lat' = Cardinality(Places(Append(b, c), Latin))
    BY <2>1, <2>2, <2>3, PlacesLaw
  <2> QED
    BY <2>1, <2>2, <2>3, <2>4, <2>5 DEF Computed
<1>3. CASE Orient
  <2>1. /\ stage = "orient" /\ stage' = "leet" /\ i > Len(text) /\ cyrillic' = (cyr > lat)
        /\ i' = 1 /\ UNCHANGED <<input, text, result, word, tokens, verdict>>
        /\ result = <<>>
    BY <1>1, <1>3 DEF Orient, Over, IInv, Loops
  <2>2. Before(text, i) = text /\ Before(text', i') = <<>>
    BY <1>1, <2>1, TurnReads
  <2>3. /\ cyr = Cardinality(Places(text, Cyrillic)) /\ lat = Cardinality(Places(text, Latin))
        /\ text = Looped(Loaded(input)) /\ word = <<>> /\ tokens = <<>>
    BY <1>1, <2>1, <2>2 DEF Computed
  <2>4. cyrillic' = IsCyrillic(text)
    BY <2>1, <2>3 DEF IsCyrillic
  <2>5. Read(<<>>, cyrillic') = <<>>
    BY DEF Read
  <2> QED
    BY <2>1, <2>2, <2>3, <2>4, <2>5 DEF Computed
<1>4. CASE Unleet
  <2>1. /\ stage = "leet" /\ i <= Len(text) /\ i' = i + 1
        /\ result' = result \o <<Substitute(c)>>
        /\ UNCHANGED <<stage, input, text, cyr, lat, cyrillic, word, tokens, verdict>>
    BY <1>4 DEF Unleet, Write, At
  <2>2. c \in Chars /\ b \in Seq(Chars) /\ Before(text', i') = Append(b, c)
    BY <1>1, <2>1, TurnReads
  <2>3. /\ text = Looped(Loaded(input)) /\ cyrillic = IsCyrillic(text)
        /\ result = Read(b, cyrillic) /\ word = <<>> /\ tokens = <<>>
        /\ result \in Seq(Chars) /\ cyrillic \in BOOLEAN
    BY <1>1, <2>1 DEF Computed, TypeOK
  <2> HIDE DEF b, c
  <2>4. Substitute(c) = Verdict!Meaning(c, cyrillic)
    BY <2>2, <2>3, MeaningLaw
  <2>5. result' = Append(result, Verdict!Meaning(c, cyrillic))
    BY <2>1, <2>3, <2>4, Appends
  <2>6. result' = Read(Append(b, c), cyrillic)
    BY <2>2, <2>3, <2>5, ReadLaw
  <2> QED
    BY <2>1, <2>2, <2>3, <2>6 DEF Computed
<1> QED
  BY <1>2, <1>3, <1>4

\* A word among the tokens counts when it is forbidden; no empty one is.
LEMMA WithWordCounts ==
  ASSUME IInv
  PROVE  Cardinality(Places(WithWord, ForbiddenWords)) =
           Closed([word |-> word, bad |-> Cardinality(Places(tokens, ForbiddenWords))])
<1>1. word \in Seq(Alnum) /\ tokens \in Seq(Seq(Alnum))
  <2>1. \A k \in DOMAIN tokens : tokens[k] \in Seq(Alnum)
    BY DEF IInv, TypeOK
  <2> QED
    BY <2>1 DEF IInv, TypeOK
<1> DEFINE n == Cardinality(Places(tokens, ForbiddenWords))
<1>2. Cardinality(Places(Append(tokens, word), ForbiddenWords)) =
        IF word \in ForbiddenWords THEN n + 1 ELSE n
  BY <1>1, PlacesLaw
<1> HIDE DEF n
<1>3. Closed([word |-> word, bad |-> n]) =
        IF word # <<>> /\ word \in ForbiddenWords THEN n + 1 ELSE n
  BY DEF Closed
<1> QED
  BY <1>2, <1>3 DEF WithWord, n

LEMMA TokenizeComputes ==
  ASSUME VInv, Tokenize \/ LastWord
  PROVE  Computed'
<1> DEFINE c == Character
           b == Before(text, i)
           n == Cardinality(Places(tokens, ForbiddenWords))
           r == [word |-> word, bad |-> n]
<1>1. IInv /\ Computed /\ stage = "tokenize"
  BY DEF VInv, Tokenize, LastWord, At, Over
<1>2. text = Unleeted(input) /\ Scanned[b] = r
  BY <1>1 DEF Computed
<1>3. Cardinality(Places(WithWord, ForbiddenWords)) = Closed(r)
  BY <1>1, WithWordCounts
<1>4. CASE Tokenize
  <2>1. /\ i <= Len(text) /\ i' = i + 1 /\ UNCHANGED <<stage, input, text>>
        /\ IF c \in Alnum THEN word' = Append(word, c) /\ tokens' = tokens
                          ELSE word' = <<>> /\ tokens' = WithWord
    BY <1>4 DEF Tokenize, At
  <2>2. c \in Chars /\ b \in Seq(Chars) /\ Before(text', i') = Append(b, c)
    BY <1>1, <2>1, TurnReads
  <2> HIDE DEF b, c
  <2>3. Scanned[Append(b, c)] = Scans(r, c)
    <3> HIDE DEF r
    <3> QED
      BY <1>2, <2>2, ScannedLaw
  <2>4. Scans(r, c) = [word |-> word', bad |-> Cardinality(Places(tokens', ForbiddenWords))]
    <3>1. CASE c \in Alnum
      <4>1. Scans(r, c) = [word |-> Append(word, c), bad |-> n]
        <5> HIDE DEF n
        <5> QED
          BY <3>1 DEF Scans
      <4> QED
        BY <2>1, <3>1, <4>1
    <3>2. CASE c \notin Alnum
      <4>1. Scans(r, c) = [word |-> <<>>, bad |-> Closed(r)]
        <5> HIDE DEF r
        <5> QED
          BY <3>2 DEF Scans
      <4> HIDE DEF r
      <4> QED
        BY <1>3, <2>1, <3>2, <4>1
    <3> QED
      BY <3>1, <3>2
  <2> HIDE DEF r, n
  <2> QED
    BY <1>1, <1>2, <2>1, <2>2, <2>3, <2>4 DEF Computed
<1>5. CASE LastWord
  <2>1. i > Len(text) /\ stage' = "check" /\ tokens' = WithWord /\ input' = input
    BY <1>5 DEF LastWord, Over
  <2>2. b = text
    BY <1>1, <2>1, TurnReads
  <2> HIDE DEF b, r
  <2> QED
    BY <1>2, <1>3, <2>1, <2>2 DEF Computed
<1> QED
  BY <1>4, <1>5

\* The text that is loaded is the one TextVerdict reads.
LEMMA VerdictMeans ==
  ASSUME NEW t \in Texts, t \notin Unreadable
  PROVE  Verdict!Flagged(t) <=> Closed(Scanned[Unleeted(t)]) > Threshold
BY FlaggedMeans DEF Unleeted, Loaded, Left, ForbiddenIn

\* A text that was not read has no words.
LEMMA NothingRead ==
  ASSUME NEW t \in Unreadable
  PROVE  ~(Closed(Scanned[Unleeted(t)]) > Threshold)
<1>1. Loaded(t) = <<>>
  BY DEF Loaded
<1>2. Looped(<<>>) = <<>>
  BY VisibleLaw, JoinedLaw, SingleLaw DEF Looped
<1>3. \A b : Read(<<>>, b) = <<>>
  BY DEF Read
<1>4. Unleeted(t) = <<>>
  BY <1>1, <1>2, <1>3 DEF Unleeted
<1>5. Closed([word |-> <<>>, bad |-> 0]) = 0
  BY DEF Closed
<1> QED
  BY <1>4, <1>5, ScannedLaw, TextAssumption

LEMMA InitVInv == Init => VInv
<1> SUFFICES ASSUME Init PROVE VInv
  OBVIOUS
<1>1. IInv
  BY InitIInv
<1>2. Computed /\ Decided
  BY DEF Init, Computed, Decided
<1> QED
  BY <1>1, <1>2 DEF VInv

\* The end of a call gives the verdict that its input has.
LEMMA CheckDecides ==
  ASSUME VInv, WordChecking
  PROVE  /\ Computed' /\ Decided' /\ input' = input /\ verdict = "none"
         /\ verdict' = IF input \in Unreadable THEN "passed"
                       ELSE IF Verdict!Flagged(input) THEN "flagged" ELSE "passed"
<1>1. /\ stage = "check" /\ stage' = "done" /\ input' = input /\ input \in Texts
      /\ verdict = "none"
  BY DEF WordChecking, VInv, IInv, Decided
<1>2. Cardinality(Places(tokens, ForbiddenWords)) = Closed(Scanned[Unleeted(input)])
  BY <1>1 DEF VInv, Computed
<1>3. verdict' = IF Closed(Scanned[Unleeted(input)]) > Threshold THEN "flagged" ELSE "passed"
  BY <1>2 DEF WordChecking, Places
<1>4. Computed'
  BY <1>1 DEF Computed
<1>5. Decided'
  BY <1>1, <1>3 DEF Decided
<1>6. verdict' = IF input \in Unreadable THEN "passed"
                 ELSE IF Verdict!Flagged(input) THEN "flagged" ELSE "passed"
  BY <1>1, <1>3, VerdictMeans, NothingRead
<1> QED
  BY <1>1, <1>4, <1>5, <1>6

LEMMA NextVInv ==
  ASSUME VInv, [Next]_vars
  PROVE  VInv' /\ [Verdict!Next]_(Verdict!vars)
<1>1. IInv'
  BY NextIInv DEF VInv
<1>2. ASSUME Computed', UNCHANGED <<input, verdict>>, stage # "done" /\ stage' # "done"
      PROVE  VInv' /\ [Verdict!Next]_(Verdict!vars)
  BY <1>1, <1>2 DEF VInv, Decided, Verdict!vars
<1>3. CASE Normalize \/ NormalizerFails
  <2>1. UNCHANGED <<input, verdict>> /\ stage # "done" /\ stage' # "done"
    BY <1>3 DEF Normalize, NormalizerFails
  <2> QED
    BY <1>2, <1>3, <2>1, NormalizeComputes
<1>4. CASE SkipInvisible \/ JoinWhite \/ SkipRepeated
  <2>1. UNCHANGED <<input, verdict>> /\ stage # "done" /\ stage' # "done"
    BY <1>4 DEF SkipInvisible, JoinWhite, SkipRepeated, Write, At
  <2> QED
    BY <1>2, <1>4, <2>1, LoopsCompute
<1>5. CASE NextText
  <2>1. UNCHANGED <<input, verdict>> /\ stage # "done" /\ stage' # "done"
    BY <1>5 DEF NextText, HandOver, Over
  <2> QED
    BY <1>2, <1>5, <2>1, HandOversCompute
<1>6. CASE CountAlphabet \/ Orient \/ Unleet
  <2>1. UNCHANGED <<input, verdict>> /\ stage # "done" /\ stage' # "done"
    BY <1>6 DEF CountAlphabet, Orient, Unleet, Write, At, Over
  <2> QED
    BY <1>2, <1>6, <2>1, AlphabetComputes
<1>7. CASE Tokenize \/ LastWord
  <2>1. UNCHANGED <<input, verdict>> /\ stage # "done" /\ stage' # "done"
    BY <1>7 DEF Tokenize, LastWord, At, Over
  <2> QED
    BY <1>2, <1>7, <2>1, TokenizeComputes
<1>8. CASE WordChecking
  <2>1. VInv'
    BY <1>1, <1>8, CheckDecides DEF VInv
  <2>2. Verdict!Decide \/ Verdict!LetThrough
    BY <1>8, CheckDecides DEF Verdict!Decide, Verdict!LetThrough
  <2> QED
    BY <2>1, <2>2 DEF Verdict!Next
<1>9. CASE Throws
  <2>1. /\ stage # "done" /\ stage' = "done" /\ verdict' = "threw" /\ input' = input
        /\ input \in Throwing /\ verdict = "none"
    BY <1>9 DEF Throws, VInv, Decided
  <2>2. Computed' /\ Decided'
    BY <2>1 DEF Computed, Decided
  <2>3. Verdict!Throw
    BY <2>1 DEF Verdict!Throw
  <2> QED
    BY <1>1, <2>2, <2>3 DEF VInv, Verdict!Next
<1>10. CASE UNCHANGED vars
  <2>1. Computed' /\ Decided'
    BY <1>10 DEF vars, VInv, Computed, Decided
  <2> QED
    BY <1>1, <1>10, <2>1 DEF vars, VInv, Verdict!vars
<1> QED
  BY <1>3, <1>4, <1>5, <1>6, <1>7, <1>8, <1>9, <1>10 DEF Next, Forward

LEMMA VInvHolds == Spec => []VInv
<1>1. VInv /\ [Next]_vars => VInv'
  BY NextVInv
<1> QED
  BY <1>1, InitVInv, PTL DEF Spec

-----------------------------------------------------------------------------
(***************************************************************************)
(* The theorem.                                                            *)
(***************************************************************************)

\* The stages of TextProcessing, loop by loop, give the verdict that TextVerdict
\* gives in one step: whatever the alphabet, the substitution tables, the
\* vocabulary, the threshold and the text.
THEOREM StagesImplementTheVerdict == Spec => ImplementsVerdict
<1>1. Init => Verdict!Init
  BY DEF Init, Verdict!Init
<1>2. VInv /\ [Next]_vars => [Verdict!Next]_(Verdict!vars)
  BY NextVInv
<1> QED
  BY <1>1, <1>2, VInvHolds, PTL DEF Spec, ImplementsVerdict, Verdict!Spec
=============================================================================
