------------------------ MODULE TextPipeline_proofs ------------------------
(***************************************************************************)
(* What holds of TextPipeline for every alphabet, every tables, every      *)
(* vocabulary and every behaviour of the Unicode library.                  *)
(***************************************************************************)
EXTENDS TextPipeline, SequenceTheorems, FiniteSetTheorems, TLAPS

-----------------------------------------------------------------------------
(***************************************************************************)
(* Trimming.                                                               *)
(***************************************************************************)

\* A finite set of naturals has a least and a greatest element: of the sets of
\* its elements below (above) an element, one has none of the others in it.
LEMMA MinIn ==
  ASSUME NEW n \in Nat, NEW S \in SUBSET (1..n), S # {}
  PROVE  Min(S) \in S /\ \A l \in S : Min(S) <= l
<1> DEFINE below(k) == {l \in S : l <= k}
           T == {below(k) : k \in S}
<1>1. IsFiniteSet(S)
  <2>1. IsFiniteSet(1..n)
    BY FS_Interval
  <2> QED
    BY <2>1, FS_Subset
<1>2. T \subseteq SUBSET S /\ T # {}
  OBVIOUS
<1>3. PICK x \in T : \A y \in T : <<y, x>> \notin StrictSubsetOrdering(S)
  <2> HIDE DEF T
  <2> QED
    <3>1. IsWellFoundedOn(StrictSubsetOrdering(S), SUBSET S)
      BY <1>1, FS_StrictSubsetOrderingWellFounded, FS_FiniteSubsetsOfFinite
    <3> QED
      BY <3>1, <1>2, WFMin, Zenon
<1>4. PICK k \in S : x = below(k)
  BY <1>3
<1>5. \A l \in S : k <= l
  <2> SUFFICES ASSUME NEW l \in S, l < k
               PROVE  FALSE
    OBVIOUS
  <2>1. below(l) \in T /\ below(l) \subseteq S /\ below(k) \subseteq S
    OBVIOUS
  <2>2. l \in Nat /\ k \in Nat
    OBVIOUS
  <2>3. below(l) \subseteq below(k)
    <3> SUFFICES ASSUME NEW j \in S, j <= l
                 PROVE  j <= k
      OBVIOUS
    <3>1. j \in Nat
      OBVIOUS
    <3> QED
      BY <2>2, <3>1
  <2>4. k \in below(k) /\ k \notin below(l)
    BY <2>2
  <2>5. <<below(l), below(k)>> \in StrictSubsetOrdering(S)
    <3> HIDE DEF below
    <3> QED
      BY <2>1, <2>3, <2>4 DEF StrictSubsetOrdering
  <2> QED
    BY <1>3, <1>4, <2>1, <2>5
<1> QED
  BY <1>5 DEF Min

LEMMA MaxIn ==
  ASSUME NEW n \in Nat, NEW S \in SUBSET (1..n), S # {}
  PROVE  Max(S) \in S /\ \A l \in S : Max(S) >= l
<1> DEFINE above(k) == {l \in S : l >= k}
           T == {above(k) : k \in S}
<1>1. IsFiniteSet(S)
  <2>1. IsFiniteSet(1..n)
    BY FS_Interval
  <2> QED
    BY <2>1, FS_Subset
<1>2. T \subseteq SUBSET S /\ T # {}
  OBVIOUS
<1>3. PICK x \in T : \A y \in T : <<y, x>> \notin StrictSubsetOrdering(S)
  <2> HIDE DEF T
  <2> QED
    <3>1. IsWellFoundedOn(StrictSubsetOrdering(S), SUBSET S)
      BY <1>1, FS_StrictSubsetOrderingWellFounded, FS_FiniteSubsetsOfFinite
    <3> QED
      BY <3>1, <1>2, WFMin, Zenon
<1>4. PICK k \in S : x = above(k)
  BY <1>3
<1>5. \A l \in S : k >= l
  <2> SUFFICES ASSUME NEW l \in S, l > k
               PROVE  FALSE
    OBVIOUS
  <2>1. above(l) \in T /\ above(l) \subseteq S /\ above(k) \subseteq S
    OBVIOUS
  <2>2. l \in Nat /\ k \in Nat
    OBVIOUS
  <2>3. above(l) \subseteq above(k)
    <3> SUFFICES ASSUME NEW j \in S, j >= l
                 PROVE  j >= k
      OBVIOUS
    <3>1. j \in Nat
      OBVIOUS
    <3> QED
      BY <2>2, <3>1
  <2>4. k \in above(k) /\ k \notin above(l)
    BY <2>2
  <2>5. <<above(l), above(k)>> \in StrictSubsetOrdering(S)
    <3> HIDE DEF above
    <3> QED
      BY <2>1, <2>3, <2>4 DEF StrictSubsetOrdering
  <2> QED
    BY <1>3, <1>4, <2>1, <2>5
<1> QED
  BY <1>5 DEF Max

\* Trimming a text leaves a text.
LEMMA TrimmedType ==
  ASSUME NEW s \in Seq(Chars)
  PROVE  Trimmed(s) \in Seq(Chars)
<1> DEFINE solid == {k \in DOMAIN s : s[k] \notin White}
<1>1. CASE solid = {}
  BY <1>1 DEF Trimmed
<1>2. CASE solid # {}
  <2>1. solid \in SUBSET (1..Len(s)) /\ Len(s) \in Nat
    OBVIOUS
  <2>2. Min(solid) \in 1..Len(s) /\ Max(solid) \in 1..Len(s)
    <3> HIDE DEF solid
    <3> QED
      BY <1>2, <2>1, MinIn, MaxIn
  <2>3. \A k \in Min(solid)..Max(solid) : s[k] \in Chars
    <3> HIDE DEF solid
    <3> QED
      BY <2>2
  <2>4. SubSeq(s, Min(solid), Max(solid)) \in Seq(Chars)
    <3> HIDE DEF solid
    <3>1. Min(solid) \in Int /\ Max(solid) \in Int
      BY <2>2
    <3> QED
      BY <2>3, <3>1, SubSeqProperties
  <2> QED
    BY <1>2, <2>4 DEF Trimmed
<1> QED
  BY <1>1, <1>2

-----------------------------------------------------------------------------
(***************************************************************************)
(* Writing one more character.                                             *)
(***************************************************************************)

LEMMA OneMore ==
  ASSUME NEW s \in Seq(Chars), NEW c \in Chars
  PROVE  /\ s \o <<>> = s
         /\ s \o <<c>> \in Seq(Chars)
         /\ Len(s \o <<c>>) = Len(s) + 1
         /\ DOMAIN (s \o <<c>>) = 1..(Len(s) + 1)
         /\ \A k \in 1..Len(s) : (s \o <<c>>)[k] = s[k]
         /\ (s \o <<c>>)[Len(s) + 1] = c
<1>1. <<c>> \in Seq(Chars) /\ Len(<<c>>) = 1 /\ <<c>>[1] = c
  OBVIOUS
<1>2. s \o <<>> = s
  BY ConcatEmptySeq
<1>3. /\ s \o <<c>> \in Seq(Chars)
      /\ Len(s \o <<c>>) = Len(s) + 1
      /\ \A k \in 1..(Len(s) + 1) :
           (s \o <<c>>)[k] = IF k <= Len(s) THEN s[k] ELSE <<c>>[k - Len(s)]
  BY <1>1, ConcatProperties
<1>4. Len(s) \in Nat
  OBVIOUS
<1>5. \A k \in 1..Len(s) : (s \o <<c>>)[k] = s[k]
  BY <1>3, <1>4
<1>6. (s \o <<c>>)[Len(s) + 1] = c
  BY <1>1, <1>3, <1>4
<1>7. DOMAIN (s \o <<c>>) = 1..(Len(s) + 1)
  BY <1>3
<1> QED
  BY <1>2, <1>3, <1>5, <1>6, <1>7

\* What a text keeps when a character is added to it.
LEMMA OneMoreKeeps ==
  ASSUME NEW s \in Seq(Chars), NEW c \in Chars
  PROVE  /\ ~HasInvisible(s) /\ c \notin Invisible => ~HasInvisible(s \o <<c>>)
         /\ /\ Spaced(s)
            /\ c \in White => c = Space /\ (s = <<>> \/ s[Len(s)] \notin White)
            => Spaced(s \o <<c>>)
         /\ Unrepeated(s) /\ (s = <<>> \/ s[Len(s)] # c) => Unrepeated(s \o <<c>>)
<1> DEFINE t == s \o <<c>>
<1>1. /\ DOMAIN t = 1..(Len(s) + 1)
      /\ \A k \in 1..Len(s) : t[k] = s[k]
      /\ t[Len(s) + 1] = c
      /\ Len(s) \in Nat /\ DOMAIN s = 1..Len(s)
  BY OneMore
<1>2. s = <<>> <=> Len(s) = 0
  BY EmptySeq
<1> HIDE DEF t
<1>3. ~HasInvisible(s) /\ c \notin Invisible => ~HasInvisible(t)
  BY <1>1 DEF HasInvisible
<1>4. ASSUME Spaced(s),
             c \in White => c = Space /\ (s = <<>> \/ s[Len(s)] \notin White)
      PROVE  Spaced(t)
  <2>1. \A k \in DOMAIN t : t[k] \in White => t[k] = Space
    BY <1>1, <1>4 DEF Spaced
  <2>2. ASSUME NEW k \in DOMAIN t, k > 1
        PROVE  ~(t[k - 1] \in White /\ t[k] \in White)
    <3>1. CASE k <= Len(s)
      <4>1. k \in DOMAIN s /\ t[k] = s[k] /\ t[k - 1] = s[k - 1]
        BY <1>1, <2>2, <3>1
      <4> QED
        BY <4>1, <1>4, <2>2 DEF Spaced
    <3>2. CASE k = Len(s) + 1
      BY <1>1, <1>2, <1>4, <2>2, <3>2
    <3> QED
      BY <1>1, <3>1, <3>2
  <2> QED
    BY <2>1, <2>2 DEF Spaced
<1>5. ASSUME Unrepeated(s), s = <<>> \/ s[Len(s)] # c
      PROVE  Unrepeated(t)
  <2> SUFFICES ASSUME NEW k \in DOMAIN t, k > 1
               PROVE  t[k - 1] # t[k]
    BY DEF Unrepeated
  <2>1. CASE k <= Len(s)
    <3>1. k \in DOMAIN s /\ t[k] = s[k] /\ t[k - 1] = s[k - 1]
      BY <1>1, <2>1
    <3> QED
      BY <3>1, <1>5 DEF Unrepeated
  <2>2. CASE k = Len(s) + 1
    BY <1>1, <1>2, <1>5, <2>2
  <2> QED
    BY <1>1, <2>1, <2>2
<1> QED
  BY <1>3, <1>4, <1>5 DEF t

-----------------------------------------------------------------------------
(***************************************************************************)
(* The invariant.  What a stage promises of its whole text it keeps of the *)
(* part it has written.                                                    *)
(***************************************************************************)

\* Where the loops stand when they are not running.
Loops ==
  /\ stage = "normalize" => text = <<>> /\ i = 1
  /\ stage \in {"normalize", "orient", "tokenize", "check"} => result = <<>>
  /\ stage \notin {"orient", "done"} => cyr = 0 /\ lat = 0

Written ==
  /\ stage \in {"invisible", "whitespace", "repetition", "leet"} => ~HasInvisible(result)
  /\ stage \in {"whitespace", "repetition"} => Spaced(result)
  /\ stage = "repetition" => Unrepeated(result)
  \* Replacing signs moves no white space.
  /\ stage = "leet" =>
       /\ Len(result) = i - 1
       /\ \A k \in DOMAIN result :
            result[k] \in White \/ text[k] \in White => result[k] = text[k]

IInv == TypeOK /\ input \in Texts /\ Loops /\ Written /\ NothingUndone

LEMMA EmptyText ==
  /\ <<>> \in Seq(Chars) /\ Len(<<>>) = 0 /\ DOMAIN <<>> = {}
  /\ ~HasInvisible(<<>>) /\ Spaced(<<>>) /\ Unrepeated(<<>>)
<1>1. <<>> \in Seq(Chars) /\ Len(<<>>) = 0 /\ DOMAIN <<>> = {}
  OBVIOUS
<1> QED
  BY <1>1 DEF HasInvisible, Spaced, Unrepeated

LEMMA InitIInv == Init => IInv
<1> SUFFICES ASSUME Init PROVE IInv
  OBVIOUS
<1>1. TypeOK
  <2>1. input \in Seq(Chars)
    BY TextAssumption DEF Init
  <2>2. <<>> \in Seq(Seq(Alnum) \ {<<>>}) /\ <<>> \in Seq(Alnum)
    OBVIOUS
  <2>3. /\ i \in 1..(Len(text) + 1) /\ cyr \in 0..(i - 1) /\ lat \in 0..(i - 1)
        /\ text \in Seq(Chars) /\ result \in Seq(Chars)
    BY EmptyText DEF Init
  <2>4. word \in Seq(Alnum) /\ tokens \in Seq(Seq(Alnum) \ {<<>>})
    BY <2>2 DEF Init
  <2>5. /\ stage \in Stages /\ cyrillic \in BOOLEAN
        /\ verdict \in {"none", "flagged", "passed", "threw"}
    BY DEF Init, Stages
  <2> QED
    BY <2>1, <2>3, <2>4, <2>5 DEF TypeOK
<1> QED
  BY <1>1, EmptyText DEF Init, IInv, Loops, Written, NothingUndone

\* A turn of a loop that writes.
LEMMA WriteTypes ==
  ASSUME IInv, NEW s \in Stages, NEW c \in Chars, NEW kept \in {<<>>, <<c>>}, Write(s, kept)
  PROVE  TypeOK' /\ input' \in Texts /\ i' \in Nat
<1>1. result' \in Seq(Chars)
  BY OneMore DEF Write, IInv, TypeOK
<1>2. i' \in 1..(Len(text') + 1) /\ i' - 1 >= i - 1 /\ i' \in Nat
  BY DEF Write, At, IInv, TypeOK
<1>3. cyr' \in 0..(i' - 1) /\ lat' \in 0..(i' - 1)
  BY <1>2 DEF Write, IInv, TypeOK
<1> QED
  BY <1>1, <1>2, <1>3 DEF Write, IInv, TypeOK

\* A turn of a loop that writes keeps the invariant when what it writes keeps
\* what the stage promises.
LEMMA WriteStep ==
  ASSUME IInv, NEW s \in Stages, NEW c \in Chars, NEW kept \in {<<>>, <<c>>},
         Write(s, kept), s \in {"invisible", "whitespace", "repetition", "leet"},
         Written'
  PROVE  IInv'
<1>1. TypeOK' /\ input' \in Texts
  BY WriteTypes
<1>2. stage' = s /\ stage = s /\ text' = text /\ cyr' = cyr /\ lat' = lat
  BY DEF Write, At
<1>3. Loops'
  BY <1>2 DEF IInv, Loops
<1>4. NothingUndone'
  BY <1>2 DEF IInv, NothingUndone
<1> QED
  BY <1>1, <1>3, <1>4 DEF IInv

LEMMA CharacterInText ==
  ASSUME IInv, i <= Len(text)
  PROVE  /\ Character \in Chars /\ i \in DOMAIN text /\ i \in Nat
         /\ stage \in {"whitespace", "repetition", "leet"} => Character \notin Invisible
         /\ stage \in {"repetition", "leet"} /\ Character \in White => Character = Space
<1>1. i \in DOMAIN text /\ i \in Nat /\ text[i] \in Chars
  BY DEF IInv, TypeOK
<1> QED
  BY <1>1 DEF IInv, NothingUndone, HasInvisible, Spaced, Character

LEMMA SkipInvisibleStep ==
  ASSUME IInv, SkipInvisible
  PROVE  IInv'
<1>1. stage = "invisible" /\ i <= Len(text)
  BY DEF SkipInvisible, Write, At
<1>2. Character \in Chars /\ result \in Seq(Chars)
  BY <1>1, CharacterInText DEF IInv, TypeOK
<1> DEFINE kept == IF Character \in Invisible THEN <<>> ELSE <<Character>>
<1>3. kept \in {<<>>, <<Character>>} /\ Write("invisible", kept) /\ "invisible" \in Stages
  BY DEF SkipInvisible, Stages
<1>4. ~HasInvisible(result')
  <2>1. ~HasInvisible(result)
    BY <1>1 DEF IInv, Written
  <2>2. result' = result \o kept
    BY <1>3 DEF Write
  <2> QED
    BY <1>2, <2>1, <2>2, OneMore, OneMoreKeeps
<1>5. Written'
  BY <1>1, <1>3, <1>4 DEF Written, Write
<1> HIDE DEF kept
<1> QED
  BY <1>2, <1>3, <1>5, WriteStep

LEMMA JoinWhiteStep ==
  ASSUME IInv, JoinWhite
  PROVE  IInv'
<1>1. stage = "whitespace" /\ i <= Len(text)
  BY DEF JoinWhite, Write, At
<1>2. /\ Character \in Chars /\ Character \notin Invisible /\ result \in Seq(Chars)
      /\ Space \in Chars /\ Space \notin Invisible /\ Space \in White
  BY <1>1, CharacterInText, TextAssumption DEF IInv, TypeOK
<1>3. ~HasInvisible(result) /\ Spaced(result)
  BY <1>1 DEF IInv, Written
<1> DEFINE kept == IF Character \notin White THEN <<Character>>
                   ELSE IF ~PrevSpace /\ result # <<>> THEN <<Space>> ELSE <<>>
           c == IF Character \notin White THEN Character ELSE Space
<1>4. /\ c \in Chars /\ c \notin Invisible
      /\ kept \in {<<>>, <<c>>}
      /\ Write("whitespace", kept) /\ "whitespace" \in Stages
  BY <1>2 DEF JoinWhite, Stages
<1>5. result' = result \o kept /\ stage' = "whitespace"
  BY <1>1, <1>4 DEF Write
<1>6. ASSUME kept = <<c>>, c \in White
      PROVE  c = Space /\ (result = <<>> \/ result[Len(result)] \notin White)
  <2>1. c = Space /\ Character \in White
    BY <1>6
  <2>2. kept # <<>>
    BY <1>6
  <2>3. ~PrevSpace /\ result # <<>>
    BY <2>1, <2>2
  <2>4. Len(result) \in DOMAIN result
    BY <1>2, <2>3, EmptySeq
  <2>5. result[Len(result)] # Space
    BY <2>3 DEF PrevSpace
  <2> QED
    BY <1>3, <2>1, <2>4, <2>5 DEF Spaced
<1>7. ~HasInvisible(result') /\ Spaced(result')
  <2> HIDE DEF kept, c
  <2>1. CASE kept = <<>>
    BY <1>2, <1>3, <1>4, <1>5, <2>1, OneMore
  <2>2. CASE kept = <<c>>
    BY <1>2, <1>3, <1>4, <1>5, <1>6, <2>2, OneMoreKeeps
  <2> QED
    BY <1>4, <2>1, <2>2
<1>8. Written'
  BY <1>5, <1>7 DEF Written
<1> HIDE DEF kept, c
<1> QED
  BY <1>4, <1>8, WriteStep

LEMMA SkipRepeatedStep ==
  ASSUME IInv, SkipRepeated
  PROVE  IInv'
<1>1. stage = "repetition" /\ i <= Len(text)
  BY DEF SkipRepeated, Write, At
<1>2. /\ Character \in Chars /\ Character \notin Invisible /\ result \in Seq(Chars)
      /\ Character \in White => Character = Space
  BY <1>1, CharacterInText DEF IInv, TypeOK
<1>3. ~HasInvisible(result) /\ Spaced(result) /\ Unrepeated(result)
  BY <1>1 DEF IInv, Written
<1> DEFINE kept == IF Character = PrevChar THEN <<>> ELSE <<Character>>
<1>4. /\ kept \in {<<>>, <<Character>>}
      /\ Write("repetition", kept) /\ "repetition" \in Stages
  BY DEF SkipRepeated, Stages
<1>5. result' = result \o kept /\ stage' = "repetition"
  BY <1>1, <1>4 DEF Write
<1>6. ASSUME kept = <<Character>>
      PROVE  /\ result = <<>> \/ result[Len(result)] # Character
             /\ Character \in White => result = <<>> \/ result[Len(result)] \notin White
  <2>1. Character # PrevChar
    BY <1>6
  <2>2. result = <<>> \/ result[Len(result)] # Character
    BY <2>1 DEF PrevChar
  <2>3. result # <<>> => Len(result) \in DOMAIN result
    BY <1>2, EmptySeq
  <2> QED
    BY <1>2, <1>3, <2>2, <2>3 DEF Spaced
<1>7. ~HasInvisible(result') /\ Spaced(result') /\ Unrepeated(result')
  <2> HIDE DEF kept
  <2>1. CASE kept = <<>>
    BY <1>2, <1>3, <1>5, <2>1, OneMore
  <2>2. CASE kept = <<Character>>
    BY <1>2, <1>3, <1>5, <1>6, <2>2, OneMoreKeeps
  <2> QED
    BY <1>4, <2>1, <2>2
<1>8. Written'
  BY <1>5, <1>7 DEF Written
<1> HIDE DEF kept
<1> QED
  BY <1>2, <1>4, <1>8, WriteStep

\* A table reads and writes no white space and writes nothing invisible.
LEMMA SubstituteType ==
  ASSUME NEW c \in Chars, c \notin Invisible
  PROVE  /\ Substitute(c) \in Chars /\ Substitute(c) \notin Invisible
         /\ c \in White \/ Substitute(c) \in White => Substitute(c) = c
<1>1. IsTable(LeetLatin) /\ IsTable(LeetCyrillic) /\ IsTable(Homoglyph)
  BY TextAssumption
<1> QED
  BY <1>1 DEF IsTable, Substitute, Lookup

LEMMA UnleetStep ==
  ASSUME IInv, Unleet
  PROVE  IInv'
<1>1. stage = "leet" /\ i <= Len(text)
  BY DEF Unleet, Write, At
<1>2. Character \in Chars /\ Character \notin Invisible /\ result \in Seq(Chars)
  BY <1>1, CharacterInText DEF IInv, TypeOK
<1> DEFINE c == Substitute(Character)
<1>3. c \in Chars /\ c \notin Invisible /\ (c \in White \/ Character \in White => c = Character)
  BY <1>2, SubstituteType
<1>4. Write("leet", <<c>>) /\ <<c>> \in {<<>>, <<c>>} /\ "leet" \in Stages
  BY DEF Unleet, Stages
<1> HIDE DEF c
<1>5. /\ result' = result \o <<c>> /\ stage' = "leet" /\ i' = i + 1 /\ text' = text
      /\ ~HasInvisible(result) /\ Len(result) = i - 1
      /\ \A k \in DOMAIN result :
           result[k] \in White \/ text[k] \in White => result[k] = text[k]
  BY <1>1, <1>4 DEF Write, IInv, Written
<1>6. ~HasInvisible(result')
  BY <1>2, <1>3, <1>5, OneMoreKeeps
<1>7. i \in Nat /\ Len(result) \in Nat /\ DOMAIN result = 1..Len(result)
  BY <1>2 DEF IInv, TypeOK
<1>8. /\ Len(result') = i' - 1 /\ DOMAIN result' = 1..i
      /\ \A k \in 1..(i - 1) : result'[k] = result[k]
      /\ result'[i] = c
  BY <1>2, <1>3, <1>5, <1>7, OneMore
<1>9. \A k \in DOMAIN result' :
        result'[k] \in White \/ text'[k] \in White => result'[k] = text'[k]
  <2> SUFFICES ASSUME NEW k \in DOMAIN result', result'[k] \in White \/ text[k] \in White
               PROVE  result'[k] = text[k]
    BY <1>5
  <2>1. CASE k = i
    BY <1>3, <1>8, <2>1 DEF Character
  <2>2. CASE k # i
    BY <1>5, <1>7, <1>8, <2>2
  <2> QED
    BY <2>1, <2>2
<1>10. Written'
  BY <1>5, <1>6, <1>8, <1>9 DEF Written
<1> QED
  BY <1>3, <1>4, <1>10, WriteStep

\* A stage hands over what it has written, with what it promised of it.
LEMMA HandOverStep ==
  ASSUME IInv,
         NEW s \in {"invisible", "whitespace", "repetition", "leet"},
         NEW next \in {"whitespace", "repetition", "orient", "tokenize"},
         HandOver(s, next),
         s = "invisible" => next = "whitespace",
         s = "whitespace" => next = "repetition",
         s = "repetition" => next = "orient",
         s = "leet" => next = "tokenize"
  PROVE  IInv'
<1>1. stage = s /\ stage' = next /\ text' = result /\ result' = <<>> /\ i' = 1
  BY DEF HandOver, Over
<1>2. cyr' = 0 /\ lat' = 0 /\ result \in Seq(Chars) /\ Len(result) \in Nat
  BY <1>1 DEF HandOver, IInv, TypeOK, Loops
<1>3. i' \in 1..(Len(text') + 1) /\ cyr' \in 0..(i' - 1) /\ lat' \in 0..(i' - 1)
  BY <1>1, <1>2
<1>4. TypeOK' /\ input' \in Texts
  BY <1>1, <1>2, <1>3, EmptyText DEF HandOver, IInv, TypeOK, Stages
<1>5. Loops'
  BY <1>1, <1>2 DEF Loops
<1>6. Written'
  <2>1. ~HasInvisible(result') /\ Spaced(result') /\ Unrepeated(result')
    BY <1>1, EmptyText
  <2> QED
    BY <1>1, <2>1 DEF Written
<1>7. ~HasInvisible(result)
  BY <1>1 DEF IInv, Written
<1>8. next \in {"repetition", "orient", "tokenize"} => Spaced(result)
  <2>1. CASE s \in {"whitespace", "repetition"}
    BY <1>1, <2>1 DEF IInv, Written
  <2>2. CASE s = "leet"
    <3>1. /\ Len(result) = i - 1 /\ Spaced(text)
          /\ \A k \in DOMAIN result :
               result[k] \in White \/ text[k] \in White => result[k] = text[k]
      BY <1>1, <2>2 DEF IInv, Written, NothingUndone
    <3>2. i \in 1..(Len(text) + 1) /\ text \in Seq(Chars)
      BY DEF IInv, TypeOK
    <3>3. \A k \in DOMAIN result : k \in DOMAIN text /\ k \in Nat
      BY <1>2, <3>1, <3>2
    <3>4. \A k \in DOMAIN result : k > 1 => k - 1 \in DOMAIN result
      BY <1>2
    <3> QED
      BY <3>1, <3>3, <3>4 DEF Spaced
  <2> QED
    BY <2>1, <2>2
<1>9. next = "orient" => Unrepeated(result)
  BY <1>1 DEF IInv, Written
<1>10. NothingUndone'
  BY <1>1, <1>7, <1>8, <1>9 DEF NothingUndone
<1> QED
  BY <1>4, <1>5, <1>6, <1>10 DEF IInv

\* The first stage promises nothing that is kept: types are all there is.
LEMMA NormalizeStep ==
  ASSUME IInv, Normalize \/ NormalizerFails
  PROVE  IInv'
<1>1. /\ stage = "normalize" /\ stage' = "invisible"
      /\ UNCHANGED <<input, i, result, cyr, lat, cyrillic, word, tokens, verdict>>
  BY DEF Normalize, NormalizerFails
<1>2. i = 1 /\ result = <<>> /\ cyr = 0 /\ lat = 0
  BY <1>1 DEF IInv, Loops
<1>3. text' \in Seq(Chars)
  <2>1. ToLower(NFC(input)) \in Seq(Chars)
    BY TextAssumption DEF IInv
  <2>2. Trimmed(ToLower(NFC(input))) \in Seq(Chars)
    BY <2>1, TrimmedType
  <2> QED
    BY <2>2, EmptyText DEF Normalize, NormalizerFails
<1>4. Len(text') \in Nat
  BY <1>3
<1>5. i' \in 1..(Len(text') + 1)
  BY <1>1, <1>2, <1>4
<1>6. TypeOK' /\ input' \in Texts
  BY <1>1, <1>3, <1>5 DEF IInv, TypeOK, Stages
<1>7. ~HasInvisible(result')
  BY <1>1, <1>2, EmptyText
<1> QED
  BY <1>1, <1>2, <1>6, <1>7 DEF IInv, Loops, Written, NothingUndone

LEMMA CountAlphabetStep ==
  ASSUME IInv, CountAlphabet
  PROVE  IInv'
<1>1. stage = "orient" /\ i <= Len(text) /\ i' = i + 1
      /\ UNCHANGED <<stage, input, text, result, cyrillic, word, tokens, verdict>>
  BY DEF CountAlphabet, At
<1>2. i' \in 1..(Len(text') + 1) /\ cyr' \in 0..(i' - 1) /\ lat' \in 0..(i' - 1)
  <2>1. i \in Nat /\ i >= 1 /\ Len(text) \in Nat /\ cyr \in 0..(i - 1) /\ lat \in 0..(i - 1)
    BY DEF IInv, TypeOK
  <2>2. cyr' \in {cyr, cyr + 1} /\ lat' \in {lat, lat + 1}
    BY DEF CountAlphabet
  <2> QED
    BY <1>1, <2>1, <2>2
<1>3. TypeOK' /\ input' \in Texts
  BY <1>1, <1>2 DEF IInv, TypeOK
<1> QED
  BY <1>1, <1>3 DEF IInv, Loops, Written, NothingUndone

LEMMA OrientStep ==
  ASSUME IInv, Orient
  PROVE  IInv'
<1>1. /\ stage = "orient" /\ stage' = "leet" /\ i' = 1 /\ cyr' = 0 /\ lat' = 0
      /\ UNCHANGED <<input, text, result, word, tokens, verdict>>
  BY DEF Orient, Over
<1>2. result = <<>> /\ Len(text) \in Nat
  BY <1>1 DEF IInv, Loops, TypeOK
<1>3. /\ i' \in 1..(Len(text') + 1) /\ cyr' \in 0..(i' - 1) /\ lat' \in 0..(i' - 1)
      /\ cyrillic' \in BOOLEAN
  BY <1>1, <1>2 DEF Orient
<1>4. TypeOK' /\ input' \in Texts
  BY <1>1, <1>3 DEF IInv, TypeOK, Stages
<1>5. Len(result') = i' - 1 /\ DOMAIN result' = {} /\ ~HasInvisible(result')
  BY <1>1, <1>2, EmptyText
<1>6. Written'
  BY <1>1, <1>5 DEF Written
<1> QED
  BY <1>1, <1>4, <1>6 DEF IInv, Loops, NothingUndone

\* A word that is put among the tokens is not empty.
LEMMA WithWordType ==
  ASSUME IInv
  PROVE  WithWord \in Seq(Seq(Alnum) \ {<<>>})
BY AppendProperties DEF IInv, TypeOK, WithWord

LEMMA TokenizeStep ==
  ASSUME IInv, Tokenize \/ LastWord
  PROVE  IInv'
<1>1. /\ stage = "tokenize" /\ stage' \in {"tokenize", "check"}
      /\ UNCHANGED <<input, text, result, cyr, lat, cyrillic, verdict>>
  BY DEF Tokenize, LastWord, At, Over
<1>2. cyr = 0 /\ lat = 0
  BY <1>1 DEF IInv, Loops
<1>3. i' \in 1..(Len(text') + 1) /\ cyr' \in 0..(i' - 1) /\ lat' \in 0..(i' - 1)
  BY <1>1, <1>2 DEF Tokenize, LastWord, At, Over, IInv, TypeOK
<1>4. tokens' \in Seq(Seq(Alnum) \ {<<>>})
  BY WithWordType DEF Tokenize, LastWord, IInv, TypeOK
<1>5. word' \in Seq(Alnum)
  <2>1. Character \in Alnum => Append(word, Character) \in Seq(Alnum)
    BY AppendProperties DEF IInv, TypeOK
  <2>2. <<>> \in Seq(Alnum)
    OBVIOUS
  <2> QED
    BY <2>1, <2>2 DEF Tokenize, LastWord
<1>6. TypeOK' /\ input' \in Texts
  BY <1>1, <1>3, <1>4, <1>5 DEF IInv, TypeOK, Stages
<1> QED
  BY <1>1, <1>2, <1>6 DEF IInv, Loops, Written, NothingUndone

LEMMA EndStep ==
  ASSUME IInv, WordChecking \/ Throws
  PROVE  IInv'
<1>1. /\ stage' = "done" /\ verdict' \in {"flagged", "passed", "threw"}
      /\ UNCHANGED <<input, text, i, result, cyr, lat, cyrillic, word, tokens>>
  BY DEF WordChecking, Throws
<1>2. TypeOK' /\ input' \in Texts
  BY <1>1 DEF IInv, TypeOK, Stages
<1> QED
  BY <1>1, <1>2 DEF IInv, Loops, Written, NothingUndone

-----------------------------------------------------------------------------
(***************************************************************************)
(* The theorems.                                                           *)
(***************************************************************************)

LEMMA NextIInv == IInv /\ [Next]_vars => IInv'
<1> SUFFICES ASSUME IInv, [Next]_vars
             PROVE  IInv'
  OBVIOUS
<1>1. CASE Normalize \/ NormalizerFails
  BY <1>1, NormalizeStep
<1>2. CASE SkipInvisible
  BY <1>2, SkipInvisibleStep
<1>3. CASE JoinWhite
  BY <1>3, JoinWhiteStep
<1>4. CASE SkipRepeated
  BY <1>4, SkipRepeatedStep
<1>5. CASE NextText
  <2>1. CASE HandOver("invisible", "whitespace")
    BY <2>1, HandOverStep
  <2>2. CASE HandOver("whitespace", "repetition")
    BY <2>2, HandOverStep
  <2>3. CASE HandOver("repetition", "orient")
    BY <2>3, HandOverStep
  <2>4. CASE HandOver("leet", "tokenize")
    BY <2>4, HandOverStep
  <2> QED
    BY <1>5, <2>1, <2>2, <2>3, <2>4 DEF NextText
<1>6. CASE CountAlphabet
  BY <1>6, CountAlphabetStep
<1>7. CASE Orient
  BY <1>7, OrientStep
<1>8. CASE Unleet
  BY <1>8, UnleetStep
<1>9. CASE Tokenize \/ LastWord
  BY <1>9, TokenizeStep
<1>10. CASE WordChecking \/ Throws
  BY <1>10, EndStep
<1>11. CASE UNCHANGED vars
  BY <1>11 DEF vars, IInv, TypeOK, Loops, Written, NothingUndone
<1> QED
  BY <1>1, <1>2, <1>3, <1>4, <1>5, <1>6, <1>7, <1>8, <1>9, <1>10, <1>11 DEF Next, Forward

\* The stages' loops stay within their texts, and no token is empty.
THEOREM TextTypes == Spec => []TypeOK
<1>1. IInv => TypeOK
  BY DEF IInv
<1> QED
  BY <1>1, InitIInv, NextIInv, PTL DEF Spec

\* What a stage has removed no later stage brings back, whatever the alphabet,
\* the tables and the text.
THEOREM StagesRelyOnOneAnother == Spec => []NothingUndone
<1>1. IInv => NothingUndone
  BY DEF IInv
<1> QED
  BY <1>1, InitIInv, NextIInv, PTL DEF Spec

-----------------------------------------------------------------------------
(***************************************************************************)
(* The turns.  A turn of a loop writes one character at most, so what the  *)
(* loop has written and what it has not read yet together never grow.      *)
(***************************************************************************)

CountedDown == TurnsLeft' \in 0..(TurnsLeft - 1)

LEMMA LoopsAfterIs ==
  /\ LoopsAfter["invisible"] = 5 /\ LoopsAfter["whitespace"] = 4
  /\ LoopsAfter["repetition"] = 3 /\ LoopsAfter["orient"] = 2
  /\ LoopsAfter["leet"] = 1 /\ LoopsAfter["tokenize"] = 0
BY DEF LoopsAfter

\* One character read and one written at most, with k loops to come.
LEMMA OneReadOneWritten ==
  ASSUME NEW k \in {0, 1, 2, 3, 4, 5}, NEW a \in Nat, a >= 1,
         NEW b \in Nat, NEW d \in {b, b + 1}
  PROVE  (a - 1) + 2 + k * (d + (a - 1) + 1) \in 0..((a + 2 + k * (b + a + 1)) - 1)
<1>1. CASE k \in {0, 1, 2}
  BY <1>1
<1>2. CASE k \in {3, 4, 5}
  BY <1>2
<1> QED
  BY <1>1, <1>2

\* The count in a loop, from the lengths it depends on.
LEMMA InALoop ==
  /\ stage \in {"invisible", "whitespace", "repetition", "leet", "tokenize"} =>
       TurnsLeft = Ahead + 2 + LoopsAfter[stage] * (Len(result) + Ahead + 1)
  /\ stage = "orient" =>
       TurnsLeft = Ahead + 2 + LoopsAfter[stage] * (Len(text) + 1)
BY DEF TurnsLeft, LongestNext

LEMMA Lengths ==
  ASSUME IInv
  PROVE  /\ Len(text) \in Nat /\ Len(result) \in Nat
         /\ i \in Nat /\ i >= 1 /\ i <= Len(text) + 1
         /\ Ahead = Len(text) + 1 - i /\ Ahead \in Nat
BY DEF IInv, TypeOK, Ahead

\* Trimming makes no text longer.
LEMMA TrimmedLength ==
  ASSUME NEW s \in Seq(Chars)
  PROVE  Len(Trimmed(s)) \in 0..Len(s)
<1> DEFINE solid == {k \in DOMAIN s : s[k] \notin White}
<1>1. CASE solid = {}
  BY <1>1 DEF Trimmed
<1>2. CASE solid # {}
  <2>1. solid \in SUBSET (1..Len(s)) /\ Len(s) \in Nat
    OBVIOUS
  <2>2. Min(solid) \in 1..Len(s) /\ Max(solid) \in 1..Len(s)
    <3> HIDE DEF solid
    <3> QED
      BY <1>2, <2>1, MinIn, MaxIn
  <2>3. Len(SubSeq(s, Min(solid), Max(solid))) \in 0..Len(s)
    <3> HIDE DEF solid
    <3> QED
      BY <2>1, <2>2
  <2> QED
    BY <1>2, <2>3 DEF Trimmed
<1> QED
  BY <1>1, <1>2

LEMMA NormalizeTurn ==
  ASSUME IInv, Normalize \/ NormalizerFails
  PROVE  CountedDown
<1>1. stage = "normalize" /\ stage' = "invisible" /\ i' = i /\ result' = result
  BY DEF Normalize, NormalizerFails
<1>2. i = 1 /\ result = <<>> /\ Len(result) = 0
  BY <1>1, EmptyText DEF IInv, Loops
<1>3. ToLower(NFC(input)) \in Seq(Chars) /\ Len(ToLower(NFC(input))) \in Nat
  BY TextAssumption DEF IInv
<1>4. Len(text') \in 0..Len(ToLower(NFC(input)))
  <2>1. Len(Trimmed(ToLower(NFC(input)))) \in 0..Len(ToLower(NFC(input)))
    BY <1>3, TrimmedLength
  <2> QED
    BY <1>3, <2>1, EmptyText DEF Normalize, NormalizerFails
<1>5. TurnsLeft = 6 * (Len(ToLower(NFC(input))) + 1) + 2
  BY <1>1 DEF TurnsLeft
<1>6. Ahead' = Len(text')
  BY <1>1, <1>2, <1>4 DEF Ahead
<1>7. TurnsLeft' = Len(text') + 2 + 5 * (Len(text') + 1)
  BY <1>1, <1>2, <1>4, <1>6, LoopsAfterIs DEF TurnsLeft, LongestNext
<1> QED
  BY <1>3, <1>4, <1>5, <1>7 DEF CountedDown

LEMMA WriteTurn ==
  ASSUME IInv, NEW s \in {"invisible", "whitespace", "repetition", "leet"},
         NEW c \in Chars, NEW kept \in {<<>>, <<c>>}, Write(s, kept)
  PROVE  CountedDown
<1>1. stage = s /\ stage' = s /\ text' = text /\ i' = i + 1 /\ i <= Len(text)
  BY DEF Write, At
<1>2. Len(result') \in {Len(result), Len(result) + 1}
  <2>1. result \in Seq(Chars)
    BY DEF IInv, TypeOK
  <2> QED
    BY <2>1, OneMore DEF Write
<1>3. Ahead \in Nat /\ Ahead >= 1 /\ Ahead' = Ahead - 1 /\ Len(result) \in Nat
  BY <1>1, Lengths DEF Ahead
<1>4. TurnsLeft = Ahead + 2 + LoopsAfter[s] * (Len(result) + Ahead + 1)
  BY <1>1, InALoop
<1>5. TurnsLeft' = Ahead' + 2 + LoopsAfter[s] * (Len(result') + Ahead' + 1)
  BY <1>1 DEF TurnsLeft, LongestNext
<1>6. LoopsAfter[s] \in {0, 1, 2, 3, 4, 5}
  BY LoopsAfterIs
<1>7. (Ahead - 1) + 2 + LoopsAfter[s] * (Len(result') + (Ahead - 1) + 1)
        \in 0..((Ahead + 2 + LoopsAfter[s] * (Len(result) + Ahead + 1)) - 1)
  BY <1>2, <1>3, <1>6, OneReadOneWritten
<1> QED
  BY <1>3, <1>4, <1>5, <1>7 DEF CountedDown

LEMMA HandOverTurn ==
  ASSUME IInv, NextText
  PROVE  CountedDown
<1> DEFINE Took == /\ i' = 1 /\ text' = result /\ Len(result') = 0
                   /\ Ahead = 0 /\ Ahead' = Len(result) /\ Len(result) \in Nat
<1>1. ASSUME NEW s, NEW next, HandOver(s, next)
      PROVE  stage = s /\ stage' = next /\ Took
  <2>1. stage = s /\ stage' = next /\ i' = 1 /\ text' = result /\ result' = <<>>
        /\ i > Len(text)
    BY <1>1 DEF HandOver, Over
  <2>2. Ahead = 0 /\ Ahead' = Len(result)
    BY <2>1, Lengths DEF Ahead
  <2> QED
    BY <2>1, <2>2, Lengths, EmptyText
<1>2. ASSUME NEW s \in {"invisible", "whitespace", "repetition", "leet"},
             NEW next \in {"whitespace", "repetition", "orient", "tokenize"},
             HandOver(s, next), LoopsAfter[s] = LoopsAfter[next] + 1
      PROVE  CountedDown
  <2> DEFINE n == Len(result)
             k == LoopsAfter[next]
  <2>1. stage = s /\ stage' = next /\ Took
    BY <1>1, <1>2
  <2>2. TurnsLeft = 2 + (k + 1) * (n + 1)
    BY <1>2, <2>1, InALoop
  <2>3. Len(text') = n
    BY <2>1
  <2>4. TurnsLeft' = n + 2 + k * (n + 1)
    BY <2>1, <2>3 DEF TurnsLeft, LongestNext
  <2>5. k \in {0, 1, 2, 3, 4} /\ n \in Nat
    BY <1>2, <2>1, LoopsAfterIs
  <2>6. n + 2 + k * (n + 1) \in 0..((2 + (k + 1) * (n + 1)) - 1)
    <3> HIDE DEF n, k
    <3> QED
      BY <2>5
  <2> QED
    BY <2>2, <2>4, <2>6 DEF CountedDown
<1> QED
  BY <1>2, LoopsAfterIs DEF NextText

LEMMA OrientTurn ==
  ASSUME IInv, CountAlphabet \/ Orient
  PROVE  CountedDown
<1>1. stage = "orient" /\ text' = text /\ result' = result /\ Len(result) = 0
  BY EmptyText DEF CountAlphabet, Orient, At, Over, IInv, Loops
<1>2. TurnsLeft = Ahead + 2 + 2 * (Len(text) + 1)
  BY <1>1, InALoop, LoopsAfterIs
<1>3. CASE CountAlphabet
  <2>0. Ahead \in Nat /\ Len(text) \in Nat
    BY Lengths
  <2>1. stage' = "orient" /\ Ahead >= 1 /\ Ahead' = Ahead - 1
    BY <1>1, <1>3, Lengths DEF CountAlphabet, At, Ahead
  <2>2. TurnsLeft' = Ahead' + 2 + 2 * (Len(text) + 1)
    BY <1>1, <2>1, LoopsAfterIs DEF TurnsLeft, LongestNext
  <2>3. TurnsLeft' = TurnsLeft - 1 /\ TurnsLeft - 1 \in Nat
    BY <1>2, <2>0, <2>1, <2>2
  <2> QED
    BY <2>3 DEF CountedDown
<1>4. CASE Orient
  <2>1. stage' = "leet" /\ Ahead' = Len(text)
    BY <1>1, <1>4, Lengths DEF Orient, Ahead
  <2>2. TurnsLeft' = Len(text) + 2 + 1 * (0 + Len(text) + 1)
    BY <1>1, <2>1, LoopsAfterIs DEF TurnsLeft, LongestNext
  <2> QED
    BY <1>2, <2>2, Lengths DEF CountedDown
<1> QED
  BY <1>3, <1>4

LEMMA TokenizeTurn ==
  ASSUME IInv, Tokenize \/ LastWord
  PROVE  CountedDown
<1>1. stage = "tokenize" /\ text' = text /\ result' = result /\ Len(result) \in Nat
  BY Lengths DEF Tokenize, LastWord, At, Over
<1>2. TurnsLeft = Ahead + 2
  BY <1>1, InALoop, LoopsAfterIs, Lengths
<1>3. CASE Tokenize
  <2>1. stage' = "tokenize" /\ Ahead >= 1 /\ Ahead' = Ahead - 1
    BY <1>1, <1>3, Lengths DEF Tokenize, At, Ahead
  <2>2. TurnsLeft' = Ahead' + 2
    BY <1>1, <2>1, LoopsAfterIs, Lengths DEF TurnsLeft, LongestNext
  <2> QED
    BY <1>2, <2>1, <2>2, Lengths DEF CountedDown
<1>4. CASE LastWord
  <2>1. TurnsLeft' = 1
    BY <1>4 DEF LastWord, TurnsLeft
  <2> QED
    BY <1>2, <2>1, Lengths DEF CountedDown
<1> QED
  BY <1>3, <1>4

\* While a stage is left so is a turn.
LEMMA TurnsRemain ==
  ASSUME IInv, stage # "done"
  PROVE  TurnsLeft \in Nat /\ TurnsLeft >= 1
<1>1. CASE stage = "normalize"
  <2>1. Len(ToLower(NFC(input))) \in Nat
    BY TextAssumption DEF IInv
  <2> QED
    BY <1>1, <2>1 DEF TurnsLeft
<1>2. CASE stage = "check"
  BY <1>2 DEF TurnsLeft
<1>3. CASE stage \in {"invisible", "whitespace", "repetition", "orient", "leet", "tokenize"}
  <2> DEFINE next == IF stage = "orient" THEN Len(text) ELSE Len(result) + Ahead
  <2>1. LoopsAfter[stage] \in {0, 1, 2, 3, 4, 5} /\ Ahead \in Nat /\ next \in Nat
    BY <1>3, LoopsAfterIs, Lengths
  <2>2. TurnsLeft = Ahead + 2 + LoopsAfter[stage] * (next + 1)
    BY <1>3 DEF TurnsLeft, LongestNext
  <2>3. \A k \in {0, 1, 2, 3, 4, 5} : k * (next + 1) \in Nat
    BY <2>1
  <2> HIDE DEF next
  <2> QED
    BY <2>1, <2>2, <2>3
<1> QED
  BY <1>1, <1>2, <1>3 DEF IInv, TypeOK, Stages

LEMMA EndTurn ==
  ASSUME IInv, WordChecking \/ Throws
  PROVE  CountedDown
<1>1. stage # "done" /\ TurnsLeft' = 0
  BY DEF WordChecking, Throws, TurnsLeft
<1> QED
  BY <1>1, TurnsRemain DEF CountedDown

LEMMA TurnCounts == IInv /\ Next => CountedDown
<1> SUFFICES ASSUME IInv, Next
             PROVE  CountedDown
  OBVIOUS
<1>1. ASSUME NEW s \in {"invisible", "whitespace", "repetition", "leet"}, At(s)
      PROVE  Character \in Chars /\ (s = "leet" => Substitute(Character) \in Chars)
  BY <1>1, CharacterInText, SubstituteType DEF At
<1>2. CASE SkipInvisible
  BY <1>1, <1>2, WriteTurn DEF SkipInvisible, Write
<1>3. CASE JoinWhite
  BY <1>1, <1>3, WriteTurn, TextAssumption DEF JoinWhite, Write
<1>4. CASE SkipRepeated
  BY <1>1, <1>4, WriteTurn DEF SkipRepeated, Write
<1>5. CASE Unleet
  BY <1>1, <1>5, WriteTurn DEF Unleet, Write
<1> QED
  BY <1>2, <1>3, <1>4, <1>5, NormalizeTurn, HandOverTurn, OrientTurn, TokenizeTurn, EndTurn
  DEF Next, Forward

\* Every turn of every loop of the stages uses up one at least of the turns that
\* are left, of which there are six for each character of the composed text and
\* eight to begin with.
THEOREM TurnsAreBounded == Spec => [][TurnsLeft' \in 0..(TurnsLeft - 1)]_vars
<1>1. IInv /\ [Next]_vars => [TurnsLeft' \in 0..(TurnsLeft - 1)]_vars
  BY TurnCounts DEF CountedDown
<1> QED
  BY <1>1, InitIInv, NextIInv, PTL DEF Spec
=============================================================================
