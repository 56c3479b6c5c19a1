---------------------------- MODULE DriverProofs ----------------------------
(***************************************************************************)
(* TLAPS proofs about Driver, for any number of turns and lines, any texts *)
(* and any depth of the speech queue.                                      *)
(***************************************************************************)
EXTENDS Driver, SequenceTheorems, WellFoundedInduction, TLAPS

----------------------------------------------------------------------------
(* Induction and recursion over the natural numbers, for sets and functions: *)
(* what is to be shown is given as the set of the numbers it holds for.      *)

\* A set that holds 0 and with each number the next holds them all: otherwise
\* the numbers it lacks would have a least one.
LEMMA SetInduction ==
    ASSUME NEW S \in SUBSET Nat, 0 \in S, \A n \in S : n + 1 \in S
    PROVE  Nat \subseteq S
<1> DEFINE R == OpToRel(<, Nat)
           T == Nat \ S
<1>1. IsWellFoundedOn(R, Nat)
  BY NatLessThanWellFounded
<1>2. \A a, b \in Nat : a < b => <<a, b>> \in R
  BY DEF OpToRel
<1> HIDE DEF R
<1> SUFFICES ASSUME NEW x \in T PROVE FALSE
  OBVIOUS
<1>3. PICK y \in T : \A z \in T : ~(<<z, y>> \in R)
  BY <1>1, WFMin
<1>4. y # 0 /\ y - 1 \in Nat /\ y - 1 < y /\ (y - 1) + 1 = y
  OBVIOUS
<1>5. y - 1 \in T
  BY <1>4
<1> QED
  BY <1>2, <1>3, <1>4, <1>5

\* A function that starts with nothing and takes step, up to n.
Follows(f, step, n) == f[0] = <<>> /\ \A i \in 1..n : f[i] = step[<<i, f[i - 1]>>]

\* Such a function exists.
LEMMA Recursion ==
    ASSUME NEW V, <<>> \in V, NEW step \in [Nat \X V -> V], NEW n \in Nat
    PROVE  \E f \in [0..n -> V] : Follows(f, step, n)
<1> DEFINE S == {m \in Nat : \E f \in [0..m -> V] : Follows(f, step, m)}
<1>1. 0 \in S
  <2> DEFINE f == [i \in 0..0 |-> <<>>]
  <2>1. f \in [0..0 -> V] /\ Follows(f, step, 0)
    BY DEF Follows
  <2> QED
    BY <2>1
<1>2. ASSUME NEW m \in S PROVE m + 1 \in S
  <2>1. PICK f \in [0..m -> V] : Follows(f, step, m)
    OBVIOUS
  <2> DEFINE g == [i \in 0..m + 1 |-> IF i = m + 1 THEN step[<<m + 1, f[m]>>] ELSE f[i]]
  <2>2. step[<<m + 1, f[m]>>] \in V
    <3>1. <<m + 1, f[m]>> \in Nat \X V
      OBVIOUS
    <3> QED
      BY <3>1
  <2>3. g \in [0..m + 1 -> V]
    BY <2>2
  <2>4. \A i \in 0..m : g[i] = f[i]
    OBVIOUS
  <2>5. g[m + 1] = step[<<m + 1, f[m]>>]
    OBVIOUS
  <2> HIDE DEF g
  <2>6. Follows(g, step, m + 1)
    <3>1. g[0] = <<>>
      BY <2>1, <2>4 DEF Follows
    <3>2. ASSUME NEW i \in 1..m + 1 PROVE g[i] = step[<<i, g[i - 1]>>]
      <4>1. CASE i = m + 1
        <5>1. i - 1 = m /\ g[m] = f[m]
          BY <2>4, <4>1
        <5> QED
          BY <2>5, <4>1, <5>1
      <4>2. CASE i # m + 1
        <5>1. i \in 1..m /\ i \in 0..m /\ i - 1 \in 0..m
          BY <4>2
        <5>2. f[i] = step[<<i, f[i - 1]>>]
          BY <2>1, <5>1 DEF Follows
        <5> QED
          BY <2>4, <5>1, <5>2
      <4> QED
        BY <4>1, <4>2
    <3> QED
      BY <3>1, <3>2 DEF Follows
  <2> QED
    BY <2>3, <2>6
<1> HIDE DEF S
<1>3. S \in SUBSET Nat
  BY DEF S
<1>4. n \in S
  BY <1>1, <1>2, <1>3, SetInduction
<1> QED
  BY <1>4 DEF S

\* From where f is, both take the same step.
SameSteps(f, step, other, n) == \A i \in 1..n : step[<<i, f[i - 1]>>] = other[<<i, f[i - 1]>>]

Agree(f, g, n) == \A i \in 0..n : f[i] = g[i]

\* Two of them that take the same steps agree as far as both go.
LEMMA RecursionUnique ==
    ASSUME NEW f, NEW g, NEW step, NEW other, NEW n \in Nat, NEW m \in Nat, n <= m,
           Follows(f, step, n), Follows(g, other, m),
           SameSteps(f, step, other, n)
    PROVE  Agree(f, g, n)
<1> DEFINE S == {i \in Nat : i <= n => f[i] = g[i]}
<1>1. 0 \in S
  BY DEF Follows
<1>2. ASSUME NEW i \in S PROVE i + 1 \in S
  <2>1. CASE i + 1 <= n
    <3>1. i + 1 \in 1..n /\ i + 1 \in 1..m /\ (i + 1) - 1 = i /\ f[i] = g[i]
      BY <2>1
    <3>2. f[i + 1] = step[<<i + 1, f[i]>>] /\ g[i + 1] = other[<<i + 1, g[i]>>]
      BY <3>1 DEF Follows
    <3>3. step[<<i + 1, f[i]>>] = other[<<i + 1, f[i]>>]
      BY <3>1 DEF SameSteps
    <3> QED
      BY <3>1, <3>2, <3>3
  <2> QED
    BY <2>1
<1>3. Nat \subseteq S
  <2> HIDE DEF S
  <2>1. S \in SUBSET Nat
    BY DEF S
  <2> QED
    BY <1>1, <1>2, <2>1, SetInduction
<1> QED
  BY <1>3 DEF Agree

----------------------------------------------------------------------------
(* What of a text is heard. *)

\* One character of a text, behind what was heard of the text before it.
hear(text) ==
    [p \in Nat \X Seq(Letters) |->
        IF p[1] \in 1..Len(text) /\ text[p[1]] \notin Blanks THEN Append(p[2], text[p[1]])
        ELSE p[2]]

\* hear keeps to texts.
LEMMA HearType ==
    ASSUME NEW text \in Seq(Letters)
    PROVE  hear(text) \in [Nat \X Seq(Letters) -> Seq(Letters)]
<1> SUFFICES ASSUME NEW p \in Nat \X Seq(Letters)
             PROVE  (IF p[1] \in 1..Len(text) /\ text[p[1]] \notin Blanks THEN Append(p[2], text[p[1]])
                     ELSE p[2]) \in Seq(Letters)
  BY DEF hear
<1>1. p[2] \in Seq(Letters)
  OBVIOUS
<1>2. ASSUME p[1] \in 1..Len(text) PROVE Append(p[2], text[p[1]]) \in Seq(Letters)
  <2>1. text[p[1]] \in Letters
    BY <1>2, ElementOfSeq
  <2> QED
    BY <1>1, <2>1, AppendProperties
<1> QED
  BY <1>1, <1>2

\* spoken takes the characters one by one.
LEMMA SpokenFollows ==
    ASSUME NEW text \in Seq(Letters)
    PROVE  \E f \in [0..Len(text) -> Seq(Letters)] :
              /\ Follows(f, hear(text), Len(text))
              /\ spoken(text) = f[Len(text)]
<1> DEFINE n == Len(text)
           Def(h) == [i \in 0..n |-> IF i = 0 THEN <<>>
                                     ELSE IF text[i] \in Blanks THEN h[i - 1]
                                     ELSE Append(h[i - 1], text[i])]
           heard == CHOOSE h : h = Def(h)
<1>1. n \in Nat
  BY LenProperties
<1>2. PICK f \in [0..n -> Seq(Letters)] : Follows(f, hear(text), n)
  <2>1. <<>> \in Seq(Letters)
    BY EmptySeq
  <2> HIDE DEF n
  <2> QED
    BY <1>1, <2>1, HearType, Recursion
<1>3. ASSUME NEW i \in 1..n, NEW s \in Seq(Letters)
      PROVE  hear(text)[<<i, s>>] = IF text[i] \in Blanks THEN s ELSE Append(s, text[i])
  <2>1. <<i, s>> \in Nat \X Seq(Letters)
    BY <1>1
  <2> QED
    BY <2>1 DEF hear
<1>4. f = Def(f)
  <2>1. ASSUME NEW i \in 0..n PROVE f[i] = Def(f)[i]
    <3>1. CASE i = 0
      BY <1>2, <3>1 DEF Follows
    <3>2. CASE i # 0
      <4>1. i \in 1..n /\ i - 1 \in 0..n
        BY <1>1, <3>2
      <4>2. f[i - 1] \in Seq(Letters)
        BY <4>1
      <4>3. f[i] = hear(text)[<<i, f[i - 1]>>]
        BY <1>2, <4>1 DEF Follows
      <4> QED
        BY <1>3, <3>2, <4>1, <4>2, <4>3
    <3> QED
      BY <3>1, <3>2
  <2> QED
    BY <2>1
<1>5. heard = Def(heard)
  BY <1>4
<1>6. spoken(text) = heard[n]
  BY DEF spoken
<1> HIDE DEF heard
<1>7. \A i \in 0..n : heard[i] = f[i]
  <2> DEFINE S == {i \in Nat : i <= n => heard[i] = f[i]}
  <2>1. 0 \in S
    <3>1. heard[0] = <<>> /\ f[0] = <<>>
      BY <1>1, <1>2, <1>5 DEF Follows
    <3> QED
      BY <3>1
  <2>2. ASSUME NEW i \in S PROVE i + 1 \in S
    <3> SUFFICES ASSUME i + 1 <= n PROVE heard[i + 1] = f[i + 1]
      OBVIOUS
    <3>1. i + 1 \in 1..n /\ i + 1 \in 0..n /\ (i + 1) - 1 = i /\ i + 1 # 0 /\ heard[i] = f[i]
      BY <1>1
    <3>2. heard[i + 1] = Def(heard)[i + 1] /\ f[i + 1] = Def(f)[i + 1]
      BY <1>4, <1>5
    <3> QED
      BY <3>1, <3>2
  <2> HIDE DEF S, Def
  <2>3. S \in SUBSET Nat
    BY DEF S
  <2>4. Nat \subseteq S
    BY <2>1, <2>2, <2>3, SetInduction
  <2> QED
    BY <1>1, <2>4 DEF S
<1>8. n \in 0..n
  BY <1>1
<1> QED
  BY <1>2, <1>6, <1>7, <1>8

\* Nothing is heard of no text.
LEMMA SpokenEmpty == spoken(<<>>) = <<>>
<1>1. <<>> \in Seq(Letters) /\ Len(<<>>) = 0
  BY EmptySeq
<1>2. PICK f : Follows(f, hear(<<>>), Len(<<>>)) /\ spoken(<<>>) = f[Len(<<>>)]
  BY <1>1, SpokenFollows
<1> QED
  BY <1>1, <1>2 DEF Follows

\* One more character is heard unless it is blank.
LEMMA SpokenAppend ==
    ASSUME NEW text \in Seq(Letters), NEW c \in Letters
    PROVE  /\ spoken(text) \in Seq(Letters)
           /\ spoken(Append(text, c)) =
                 IF c \in Blanks THEN spoken(text) ELSE Append(spoken(text), c)
<1> DEFINE n == Len(text)
           more == Append(text, c)
<1>1. /\ n \in Nat /\ more \in Seq(Letters) /\ Len(more) = n + 1 /\ more[n + 1] = c
      /\ \A i \in 1..n : more[i] = text[i]
  BY LenProperties, AppendProperties
<1>2. PICK f \in [0..n -> Seq(Letters)] : Follows(f, hear(text), n) /\ spoken(text) = f[n]
  BY SpokenFollows
<1>3. PICK g \in [0..n + 1 -> Seq(Letters)] : /\ Follows(g, hear(more), n + 1)
                                              /\ spoken(more) = g[n + 1]
  BY <1>1, SpokenFollows
<1>4. \A i \in 1..n, s \in Seq(Letters) : hear(text)[<<i, s>>] = hear(more)[<<i, s>>]
  <2> TAKE i \in 1..n, s \in Seq(Letters)
  <2>1. <<i, s>> \in Nat \X Seq(Letters) /\ i \in 1..Len(text) /\ i \in 1..Len(more)
    BY <1>1
  <2>2. more[i] = text[i]
    BY <1>1
  <2> HIDE DEF more
  <2> QED
    BY <2>1, <2>2 DEF hear
<1>5. f[n] \in Seq(Letters) /\ \A i \in 1..n : f[i - 1] \in Seq(Letters)
  BY <1>1
<1>6. f[n] = g[n]
  <2>1. SameSteps(f, hear(text), hear(more), n)
    BY <1>4, <1>5 DEF SameSteps
  <2>2. n <= n + 1 /\ n + 1 \in Nat /\ n \in 0..n
    BY <1>1
  <2> DEFINE a == hear(text)
             b == hear(more)
             m == n + 1
  <2>3. /\ n \in Nat /\ m \in Nat /\ n <= m
        /\ Follows(f, a, n) /\ Follows(g, b, m)
        /\ SameSteps(f, a, b, n)
    BY <1>1, <1>2, <1>3, <2>1, <2>2
  <2> HIDE DEF n, more, a, b, m
  <2>4. Agree(f, g, n)
    BY <2>3, RecursionUnique
  <2> QED
    BY <2>2, <2>4 DEF Agree
<1>7. g[n + 1] = hear(more)[<<n + 1, g[n]>>]
  <2>1. n + 1 \in 1..n + 1 /\ (n + 1) - 1 = n
    BY <1>1
  <2> HIDE DEF n, more
  <2> QED
    BY <1>3, <2>1 DEF Follows
<1>8. hear(more)[<<n + 1, f[n]>>] = IF c \in Blanks THEN f[n] ELSE Append(f[n], c)
  <2>1. <<n + 1, f[n]>> \in Nat \X Seq(Letters) /\ n + 1 \in 1..Len(more)
    BY <1>1, <1>5
  <2>2. more[n + 1] = c
    BY <1>1
  <2> HIDE DEF n, more
  <2> QED
    BY <2>1, <2>2 DEF hear
<1> QED
  BY <1>2, <1>3, <1>5, <1>6, <1>7, <1>8

\* What is heard is a text.
LEMMA SpokenType ==
    ASSUME NEW text \in Seq(Letters)
    PROVE  spoken(text) \in Seq(Letters)
<1>1. PICK f \in [0..Len(text) -> Seq(Letters)] : spoken(text) = f[Len(text)]
  BY SpokenFollows
<1>2. Len(text) \in 0..Len(text)
  BY LenProperties
<1> QED
  BY <1>1, <1>2

\* A character appended to a concatenation is appended to its second part.
LEMMA ConcatAppend ==
    ASSUME NEW A, NEW s \in Seq(A), NEW t \in Seq(A), NEW c \in A
    PROVE  s \o Append(t, c) = Append(s \o t, c)
<1>1. /\ Append(t, c) = t \o <<c>> /\ <<c>> \in Seq(A) /\ s \o t \in Seq(A)
      /\ Append(s \o t, c) = (s \o t) \o <<c>>
  BY AppendIsConcat, ConcatProperties
<1> QED
  BY <1>1, ConcatAssociative

\* Two texts one after the other are heard one after the other.
LEMMA SpokenConcat ==
    ASSUME NEW s \in Seq(Letters), NEW t \in Seq(Letters)
    PROVE  spoken(s \o t) = spoken(s) \o spoken(t)
<1> DEFINE Holds(u) == spoken(s \o u) = spoken(s) \o spoken(u)
           S == {n \in Nat : \A u \in Seq(Letters) : Len(u) = n => Holds(u)}
<1>0. spoken(s) \in Seq(Letters)
  BY SpokenType
<1>1. 0 \in S
  <2> SUFFICES ASSUME NEW u \in Seq(Letters), Len(u) = 0 PROVE Holds(u)
    OBVIOUS
  <2>1. u = <<>>
    BY EmptySeq
  <2>2. s \o <<>> = s /\ spoken(s) \o <<>> = spoken(s)
    BY <1>0, ConcatEmptySeq
  <2> QED
    BY <2>1, <2>2, SpokenEmpty
<1>2. ASSUME NEW n \in S PROVE n + 1 \in S
  <2> SUFFICES ASSUME NEW u \in Seq(Letters), Len(u) = n + 1 PROVE Holds(u)
    OBVIOUS
  <2>1. u # <<>>
    BY EmptySeq
  <2>2. PICK v \in Seq(Letters), c \in Letters : u = Append(v, c)
    BY <2>1, SequenceEmptyOrAppend
  <2>3. Len(v) = n
    BY <2>2, AppendProperties, LenProperties
  <2>4. Holds(v)
    BY <2>3
  <2>5. s \o u = Append(s \o v, c) /\ s \o v \in Seq(Letters) /\ spoken(v) \in Seq(Letters)
    BY <2>2, ConcatAppend, ConcatProperties, SpokenType
  <2>6. spoken(s \o u) = IF c \in Blanks THEN spoken(s \o v) ELSE Append(spoken(s \o v), c)
    BY <2>5, SpokenAppend
  <2>7. spoken(u) = IF c \in Blanks THEN spoken(v) ELSE Append(spoken(v), c)
    BY <2>2, SpokenAppend
  <2>8. spoken(s) \o Append(spoken(v), c) = Append(spoken(s) \o spoken(v), c)
    BY <1>0, <2>5, ConcatAppend
  <2> QED
    BY <2>4, <2>6, <2>7, <2>8
<1>3. Nat \subseteq S
  <2> HIDE DEF S
  <2>1. S \in SUBSET Nat
    BY DEF S
  <2> QED
    BY <1>1, <1>2, <2>1, SetInduction
<1>4. Len(t) \in S
  BY <1>3, LenProperties
<1> QED
  BY <1>4

\* Nothing is heard of a blank text.
LEMMA SpokenBlank ==
    ASSUME NEW text \in Seq(Letters), blank(text)
    PROVE  spoken(text) = <<>>
<1>1. PICK f : Follows(f, hear(text), Len(text)) /\ spoken(text) = f[Len(text)]
  BY SpokenFollows
<1> DEFINE n == Len(text)
           S == {i \in Nat : i <= n => f[i] = <<>>}
<1>2. n \in Nat
  BY LenProperties
<1>3. 0 \in S
  BY <1>1 DEF Follows
<1>4. ASSUME NEW i \in S PROVE i + 1 \in S
  <2> SUFFICES ASSUME i + 1 <= n PROVE f[i + 1] = <<>>
    OBVIOUS
  <2>1. i + 1 \in 1..n /\ i + 1 \in Nat /\ (i + 1) - 1 = i /\ f[i] = <<>>
    BY <1>2
  <2>2. f[i + 1] = hear(text)[<<i + 1, <<>>>>]
    BY <1>1, <2>1 DEF Follows
  <2>3. text[i + 1] \in Blanks
    BY <2>1, LenProperties DEF blank, Range
  <2>4. <<i + 1, <<>>>> \in Nat \X Seq(Letters)
    BY <2>1, EmptySeq
  <2> QED
    BY <2>2, <2>3, <2>4 DEF hear
<1>5. Nat \subseteq S
  <2> HIDE DEF S
  <2>1. S \in SUBSET Nat
    BY DEF S
  <2> QED
    BY <1>3, <1>4, <2>1, SetInduction
<1> QED
  BY <1>1, <1>2, <1>5

----------------------------------------------------------------------------
(* Segments put together again. *)

\* One segment, behind the ones before it.
join(ss) ==
    [p \in Nat \X Seq(Letters) |-> IF p[1] \in 1..Len(ss) THEN p[2] \o ss[p[1]] ELSE p[2]]

\* join keeps to texts.
LEMMA JoinType ==
    ASSUME NEW ss \in Seq(Seq(Letters))
    PROVE  /\ join(ss) \in [Nat \X Seq(Letters) -> Seq(Letters)]
           /\ \A i \in 1..Len(ss), s \in Seq(Letters) : /\ ss[i] \in Seq(Letters)
                                                        /\ join(ss)[<<i, s>>] = s \o ss[i]
<1>1. \A i \in 1..Len(ss) : ss[i] \in Seq(Letters)
  BY ElementOfSeq
<1>2. ASSUME NEW p \in Nat \X Seq(Letters)
      PROVE  (IF p[1] \in 1..Len(ss) THEN p[2] \o ss[p[1]] ELSE p[2]) \in Seq(Letters)
  <2>1. p[2] \in Seq(Letters)
    OBVIOUS
  <2>2. ASSUME p[1] \in 1..Len(ss) PROVE p[2] \o ss[p[1]] \in Seq(Letters)
    BY <1>1, <2>1, <2>2, ConcatProperties
  <2> QED
    BY <2>1, <2>2
<1>3. ASSUME NEW i \in 1..Len(ss), NEW s \in Seq(Letters) PROVE join(ss)[<<i, s>>] = s \o ss[i]
  <2>1. <<i, s>> \in Nat \X Seq(Letters)
    BY LenProperties
  <2> QED
    BY <2>1 DEF join
<1> QED
  BY <1>1, <1>2, <1>3 DEF join

\* FlattenSeq takes the segments one by one.
LEMMA FlattenFollows ==
    ASSUME NEW ss \in Seq(Seq(Letters))
    PROVE  \E f \in [0..Len(ss) -> Seq(Letters)] :
              /\ Follows(f, join(ss), Len(ss))
              /\ FlattenSeq(ss) = f[Len(ss)]
<1> DEFINE n == Len(ss)
           Def(h) == [i \in 1..n |-> IF i = 1 THEN ss[i] ELSE h[i - 1] \o ss[i]]
           flat == CHOOSE h : h = Def(h)
<1>1. n \in Nat
  BY LenProperties
<1>2. PICK f \in [0..n -> Seq(Letters)] : Follows(f, join(ss), n)
  <2>1. <<>> \in Seq(Letters)
    BY EmptySeq
  <2> HIDE DEF n
  <2> QED
    BY <1>1, <2>1, JoinType, Recursion
<1>3. f[0] = <<>> /\ \A i \in 1..n : f[i] = f[i - 1] \o ss[i]
  <2>1. f[0] = <<>>
    BY <1>2 DEF Follows
  <2>2. ASSUME NEW i \in 1..n PROVE f[i] = f[i - 1] \o ss[i]
    <3>1. i - 1 \in 0..n
      BY <1>1
    <3>2. f[i - 1] \in Seq(Letters)
      BY <3>1
    <3>3. f[i] = join(ss)[<<i, f[i - 1]>>]
      BY <1>2 DEF Follows
    <3> QED
      BY <3>2, <3>3, JoinType
  <2> QED
    BY <2>1, <2>2
<1>4. CASE n = 0
  <2>1. ss = <<>>
    BY <1>4, EmptySeq
  <2>2. FlattenSeq(ss) = f[n]
    BY <1>3, <1>4, <2>1 DEF FlattenSeq
  <2> QED
    BY <1>2, <2>2
<1>5. CASE n # 0
  <2> DEFINE g == [i \in 1..n |-> f[i]]
  <2>1. 1 \in 1..n /\ f[1] = ss[1]
    <3>1. 1 \in 1..n /\ 1 - 1 = 0
      BY <1>1, <1>5
    <3>2. ss[1] \in Seq(Letters)
      BY <3>1, JoinType
    <3>3. f[1] = <<>> \o ss[1]
      BY <1>3, <3>1
    <3> QED
      BY <3>1, <3>2, <3>3, ConcatEmptySeq
  <2>2. g = Def(g)
    <3>1. ASSUME NEW i \in 1..n PROVE g[i] = Def(g)[i]
      <4>1. CASE i = 1
        BY <2>1, <4>1
      <4>2. CASE i # 1
        <5>1. i - 1 \in 1..n
          BY <1>1, <4>2
        <5>2. g[i - 1] = f[i - 1] /\ g[i] = f[i]
          BY <5>1
        <5> QED
          BY <1>3, <4>2, <5>2
      <4> QED
        BY <4>1, <4>2
    <3> QED
      BY <3>1
  <2>3. flat = Def(flat)
    BY <2>2
  <2>4. FlattenSeq(ss) = flat[n]
    BY <1>5 DEF FlattenSeq
  <2> HIDE DEF flat
  <2>5. \A i \in 1..n : flat[i] = f[i]
    <3> DEFINE S == {i \in Nat : i + 1 <= n => flat[i + 1] = f[i + 1]}
    <3>1. 0 \in S
      BY <2>1, <2>3
    <3>2. ASSUME NEW i \in S PROVE i + 1 \in S
      <4> DEFINE j == i + 2
      <4> SUFFICES ASSUME j <= n PROVE flat[j] = f[j]
        OBVIOUS
      <4>1. j \in 1..n /\ j - 1 = i + 1 /\ j # 1 /\ flat[j - 1] = f[j - 1]
        BY <1>1
      <4>2. flat[j] = Def(flat)[j]
        BY <2>3
      <4>3. Def(flat)[j] = flat[j - 1] \o ss[j]
        BY <4>1
      <4>4. f[j] = f[j - 1] \o ss[j]
        BY <1>3, <4>1
      <4> QED
        BY <4>1, <4>2, <4>3, <4>4
    <3>3. Nat \subseteq S
      <4> HIDE DEF S
      <4>1. S \in SUBSET Nat
        BY DEF S
      <4> QED
        BY <3>1, <3>2, <4>1, SetInduction
    <3>4. ASSUME NEW i \in 1..n PROVE flat[i] = f[i]
      <4>1. i - 1 \in Nat /\ (i - 1) + 1 = i /\ i <= n
        BY <1>1
      <4>2. i - 1 \in S
        BY <3>3, <4>1
      <4> QED
        BY <4>1, <4>2
    <3> QED
      BY <3>4
  <2>6. n \in 1..n
    BY <1>1, <1>5
  <2> QED
    BY <1>2, <2>4, <2>5, <2>6
<1> QED
  BY <1>4, <1>5

\* Segments put together make a text; one more segment comes last.
LEMMA FlattenAppend ==
    ASSUME NEW ss \in Seq(Seq(Letters)), NEW s \in Seq(Letters)
    PROVE  /\ FlattenSeq(ss) \in Seq(Letters)
           /\ FlattenSeq(Append(ss, s)) = FlattenSeq(ss) \o s
<1> DEFINE n == Len(ss)
           m == n + 1
           more == Append(ss, s)
           a == join(ss)
           b == join(more)
<1>1. /\ n \in Nat /\ more \in Seq(Seq(Letters)) /\ Len(more) = m /\ more[m] = s
      /\ \A i \in 1..n : more[i] = ss[i]
  BY LenProperties, AppendProperties
<1>2. PICK f \in [0..n -> Seq(Letters)] : Follows(f, a, n) /\ FlattenSeq(ss) = f[n]
  BY FlattenFollows
<1>3. PICK g \in [0..m -> Seq(Letters)] : Follows(g, b, m) /\ FlattenSeq(more) = g[m]
  BY <1>1, FlattenFollows
<1>4. f[n] \in Seq(Letters) /\ \A i \in 1..n : f[i - 1] \in Seq(Letters)
  <2> HIDE DEF n
  <2>1. n \in 0..n /\ \A i \in 1..n : i - 1 \in 0..n
    BY <1>1
  <2> QED
    BY <2>1
<1>5. SameSteps(f, a, b, n)
  <2>1. ASSUME NEW i \in 1..n PROVE a[<<i, f[i - 1]>>] = b[<<i, f[i - 1]>>]
    <3>1. i \in 1..Len(more) /\ more[i] = ss[i] /\ f[i - 1] \in Seq(Letters)
      BY <1>1, <1>4
    <3>2. a[<<i, f[i - 1]>>] = f[i - 1] \o ss[i]
      BY <3>1, JoinType
    <3>3. b[<<i, f[i - 1]>>] = f[i - 1] \o more[i]
      BY <1>1, <3>1, JoinType
    <3> QED
      BY <3>1, <3>2, <3>3
  <2> QED
    BY <2>1 DEF SameSteps
<1>6. g[m] = b[<<m, g[m - 1]>>] /\ m - 1 = n /\ m \in 1..m /\ n \in 0..n /\ n <= m /\ m \in Nat
  BY <1>1, <1>3 DEF Follows
<1>7. f[n] = g[n]
  <2> HIDE DEF n, m, more, a, b
  <2>1. Agree(f, g, n)
    BY <1>1, <1>2, <1>3, <1>5, <1>6, RecursionUnique
  <2> QED
    BY <1>6, <2>1 DEF Agree
<1>8. b[<<m, f[n]>>] = f[n] \o s
  <2>1. more \in Seq(Seq(Letters)) /\ m \in 1..Len(more) /\ f[n] \in Seq(Letters)
    BY <1>1, <1>4, <1>6
  <2>2. join(more)[<<m, f[n]>>] = f[n] \o more[m]
    <3> HIDE DEF n, m, more
    <3> QED
      BY <2>1, JoinType
  <2> QED
    BY <1>1, <2>2
<1> QED
  BY <1>2, <1>3, <1>4, <1>6, <1>7, <1>8

----------------------------------------------------------------------------
(* Types. *)

\* Every outcome has a place in CallTypes.
LEMMA ErrorTypeType ==
    ASSUME CallTypes, NEW t \in Turn, NEW site \in ErrTypes
    PROVE  streamErrorType(t, site) \in ErrTypes
BY DEF CallTypes, streamErrorType, ErrTypes

\* The turn's own moves keep the types of its request.
LEMMA CallTypeKept ==
    ASSUME CallTypes, NEW t \in Turn,
           \/ \E site \in ErrTypes : failed(t, site)
           \/ succeed(t)
           \/ end(t, "other") /\ ret' = [ret EXCEPT ![t] = "other"] /\ goto(t, "panicked"),
           UNCHANGED <<ctx, window, st, segs>>
    PROVE  CallTypes'
<1>1. ASSUME NEW site \in ErrTypes, failed(t, site) PROVE CallTypes'
  BY <1>1, ErrorTypeType DEF CallTypes, failed, end, goto
<1>2. ASSUME succeed(t) PROVE CallTypes'
  BY <1>2 DEF CallTypes, succeed, end, goto
<1>3. ASSUME end(t, "other"), ret' = [ret EXCEPT ![t] = "other"], goto(t, "panicked") PROVE CallTypes'
  BY <1>3 DEF CallTypes, end, goto, Ended, ErrTypes
<1> QED
  BY <1>1, <1>2, <1>3

\* Only t's stream is touched.
Others(t) == \A u \in Turn \ {t} : st'[u] = st[u]

\* The end of the stream empties the buffer.
LEMMA FlushEffect ==
    ASSUME st \in [Turn -> Stream], NEW t \in Turn, st' = [st EXCEPT ![t].buf = <<>>]
    PROVE  /\ st' \in [Turn -> Stream] /\ Others(t)
           /\ st'[t].buf = <<>> /\ st'[t].rest = st[t].rest
           /\ st'[t].content = st[t].content /\ st'[t].final = st[t].final
           /\ st'[t].lines = st[t].lines /\ st'[t].stat = st[t].stat
BY EmptySeq DEF Stream, Others

\* ... and marks the last segment.
LEMMA FinalEffect ==
    ASSUME st \in [Turn -> Stream], NEW t \in Turn,
           st' = [st EXCEPT ![t].buf = <<>>, ![t].final = TRUE]
    PROVE  /\ st' \in [Turn -> Stream] /\ Others(t)
           /\ st'[t].buf = <<>> /\ st'[t].rest = st[t].rest
           /\ st'[t].content = st[t].content /\ st'[t].final
           /\ st'[t].lines = st[t].lines /\ st'[t].stat = st[t].stat
BY EmptySeq DEF Stream, Others

\* A line with nothing to speak is counted.
LEMMA LineEffect ==
    ASSUME st \in [Turn -> Stream], NEW t \in Turn, st[t].lines < MaxLines,
           st' = [st EXCEPT ![t].lines = @ + 1]
    PROVE  /\ st' \in [Turn -> Stream] /\ Others(t)
           /\ st'[t].buf = st[t].buf /\ st'[t].rest = st[t].rest
           /\ st'[t].content = st[t].content /\ st'[t].final = st[t].final
           /\ st'[t].stat = st[t].stat
<1> DEFINE k == st[t].lines + 1
           L == 0..MaxLines
<1>1. k \in L
  BY DriverConstants DEF Stream
<1>2. st' = [st EXCEPT ![t].lines = k]
  OBVIOUS
<1> HIDE DEF k, L
<1>3. Stream = [content : Seq(Letters), buf : Seq(Letters), rest : Seq(Letters),
                lines : L, final : BOOLEAN, stat : Nat]
  BY DEF Stream, L
<1> QED
  BY <1>1, <1>2, <1>3 DEF Others

\* A chunk's text is kept whole and waits to be cut.
LEMMA ChunkEffect ==
    ASSUME st \in [Turn -> Stream], NEW t \in Turn, st[t].lines < MaxLines, NEW text \in Seq(Letters),
           st' = [st EXCEPT ![t].lines = @ + 1, ![t].content = @ \o text, ![t].rest = text]
    PROVE  /\ st' \in [Turn -> Stream] /\ Others(t)
           /\ st'[t].buf = st[t].buf /\ st'[t].rest = text
           /\ st'[t].content = st[t].content \o text /\ st'[t].final = st[t].final
           /\ st'[t].stat = st[t].stat
<1> DEFINE k == st[t].lines + 1
           L == 0..MaxLines
           whole == st[t].content \o text
<1>1. k \in L
  BY DriverConstants DEF Stream
<1>2. whole \in Seq(Letters)
  BY ConcatProperties DEF Stream
<1>3. st' = [st EXCEPT ![t].lines = k, ![t].content = whole, ![t].rest = text]
  OBVIOUS
<1> HIDE DEF k, L, whole
<1>4. Stream = [content : Seq(Letters), buf : Seq(Letters), rest : Seq(Letters),
                lines : L, final : BOOLEAN, stat : Nat]
  BY DEF Stream, L
<1> DEFINE s == [st[t] EXCEPT !.lines = k, !.content = whole, !.rest = text]
<1>5. st' = [st EXCEPT ![t] = s]
  BY <1>3
<1>6. /\ s \in Stream
      /\ s.buf = st[t].buf /\ s.rest = text
      /\ s.content = whole /\ s.final = st[t].final
      /\ s.stat = st[t].stat
  <2>1. st[t] \in Stream
    OBVIOUS
  <2> QED
    BY <1>1, <1>2, <1>4, <2>1
<1> HIDE DEF s
<1>7. st' \in [Turn -> Stream] /\ Others(t) /\ st'[t] = s
  BY <1>5, <1>6 DEF Others
<1> QED
  BY <1>6, <1>7 DEF whole

\* The prompt's mtime is noted, or forgotten.
LEMMA StatEffect ==
    ASSUME st \in [Turn -> Stream], NEW t \in Turn, NEW n \in Nat, st' = [st EXCEPT ![t].stat = n]
    PROVE  /\ st' \in [Turn -> Stream] /\ Others(t)
           /\ st'[t].buf = st[t].buf /\ st'[t].rest = st[t].rest
           /\ st'[t].content = st[t].content /\ st'[t].final = st[t].final
           /\ st'[t].lines = st[t].lines /\ st'[t].stat = n
BY DEF Stream, Others

\* A part of the state that stays as it is keeps its types.
LEMMA TypesKept ==
    /\ HostTypes /\ UNCHANGED <<hostVars, file>> => HostTypes'
    /\ CallTypes /\ UNCHANGED <<pc, callVars>> => CallTypes'
    /\ SpeechTypes /\ UNCHANGED speechVars => SpeechTypes'
BY DEF HostTypes, CallTypes, SpeechTypes, hostVars, callVars, speechVars

\* The end of a turn keeps the types of its request.
LEMMA EndTurnTypes ==
    ASSUME CallTypes, NEW t \in Turn, NEW how \in Ended, endTurn(t, how)
    PROVE  CallTypes'
<1>1. NoStream \in Stream /\ NoWindow \in [prompt : Nat, msgs : Seq(Message)]
  BY EmptySeq, DriverConstants DEF NoStream, NoWindow, Stream
<1>2. <<>> \in Seq(Seq(Letters))
  BY EmptySeq
<1> QED
  BY <1>1, <1>2 DEF CallTypes, endTurn, goto, Ended

\* assemble gives the lock back and keeps the types.
LEMMA AssembleTypes ==
    ASSUME TypeOK, NEW t \in Turn, NEW text \in Nat, assemble(t, text),
           st' \in [Turn -> Stream], UNCHANGED <<ctx, segs, span, ret>>
    PROVE  CallTypes' /\ histMu' \in Turn \cup {None}
<1>1. [prompt |-> text, msgs |-> history] \in [prompt : Nat, msgs : Seq(Message)]
  BY DEF TypeOK, HostTypes
<1> QED
  BY <1>1 DEF TypeOK, CallTypes, assemble, goto

\* The request keeps the types of what it touches: no outcome but an error
\* type, "" or "refused" is ever returned.
LEMMA RequestTypes ==
    ASSUME TypeOK, NEW t \in Turn,
           \/ SendStreamContext(t) \/ RefuseSend(t) \/ PostAnswered(t) \/ SilentLine(t) \/ ErrorLine(t)
           \/ ReadFails(t) \/ FoldEnds(t) \/ SegmentPanics(t) \/ CancelContext(t) \/ Timeout(t)
    PROVE  TypeOK'
<1> USE DEF TypeOK
<1>0. {"transport", "status", "decode", "upstream", "stream"} \subseteq ErrTypes
  BY DEF ErrTypes
<1>1. CASE SendStreamContext(t) \/ RefuseSend(t)
  <2>1. UNCHANGED speechVars /\ UNCHANGED <<history, histMu, prompt, file>> /\ UNCHANGED <<ctx, window, st, segs>>
    BY <1>1 DEF SendStreamContext, RefuseSend
  <2>2. since' \in [Turn -> SUBSET Nat]
    BY <1>1 DEF SendStreamContext, RefuseSend, HostTypes
  <2>3. CallTypes'
    BY <1>1, <2>1 DEF SendStreamContext, RefuseSend, CallTypes, goto
  <2> QED
    BY <2>1, <2>2, <2>3, TypesKept DEF HostTypes
<1>2. CASE PostAnswered(t)
  <2>1. UNCHANGED <<hostVars, file>> /\ UNCHANGED speechVars /\ UNCHANGED <<ctx, st, segs>>
    BY <1>2 DEF PostAnswered
  <2>2. window' \in [Turn -> [prompt : Nat, msgs : Seq(Message)]]
    BY <1>2, EmptySeq DEF PostAnswered, CallTypes, NoWindow
  <2>3. ASSUME NEW site \in {"transport", "status"}, failed(t, site) PROVE CallTypes'
    BY <1>0, <2>1, <2>2, <2>3, ErrorTypeType DEF CallTypes, failed, end, goto
  <2>4. ASSUME goto(t, "stream"), UNCHANGED <<span, ret>> PROVE CallTypes'
    BY <2>1, <2>2, <2>4 DEF CallTypes, goto
  <2> QED
    BY <1>2, <2>1, <2>3, <2>4, TypesKept DEF PostAnswered
<1>3. CASE SilentLine(t)
  <2>1. UNCHANGED <<hostVars, file>> /\ UNCHANGED speechVars /\ UNCHANGED <<ctx, window, segs>>
    BY <1>3 DEF SilentLine
  <2>2. ASSUME failed(t, "stream"), UNCHANGED st PROVE CallTypes'
    BY <1>0, <2>1, <2>2, CallTypeKept
  <2>3. ASSUME st' = [st EXCEPT ![t].lines = @ + 1], UNCHANGED <<pc, span, ret>> PROVE CallTypes'
    <3>1. st' \in [Turn -> Stream]
      BY <1>3, <2>3, LineEffect DEF SilentLine, CallTypes
    <3> QED
      BY <2>1, <2>3, <3>1 DEF CallTypes
  <2> QED
    BY <1>3, <2>1, <2>2, <2>3, TypesKept DEF SilentLine
<1>4. CASE ErrorLine(t) \/ ReadFails(t)
  <2>1. UNCHANGED <<hostVars, file>> /\ UNCHANGED speechVars /\ UNCHANGED <<ctx, window, st, segs>>
    BY <1>4 DEF ErrorLine, ReadFails
  <2>2. \E site \in ErrTypes : failed(t, site)
    BY <1>0, <1>4 DEF ErrorLine, ReadFails
  <2> QED
    BY <2>1, <2>2, CallTypeKept, TypesKept
<1>5. CASE FoldEnds(t)
  <2>1. UNCHANGED <<hostVars, file>> /\ UNCHANGED speechVars /\ UNCHANGED callVars
    BY <1>5 DEF FoldEnds
  <2>2. CallTypes'
    BY <1>5, <2>1 DEF FoldEnds, goto, CallTypes, callVars
  <2> QED
    BY <2>1, <2>2, TypesKept
<1>6. CASE SegmentPanics(t)
  <2>1. UNCHANGED <<hostVars, file>> /\ UNCHANGED speechVars /\ UNCHANGED <<ctx, window, st, segs>>
    BY <1>6 DEF SegmentPanics
  <2> QED
    BY <1>6, <2>1, CallTypeKept, TypesKept DEF SegmentPanics
<1>7. CASE CancelContext(t) \/ Timeout(t)
  <2>1. UNCHANGED <<hostVars, file>> /\ UNCHANGED speechVars /\ UNCHANGED <<pc, window, st, segs, span, ret>>
    BY <1>7 DEF CancelContext, Timeout
  <2>2. ctx' \in [Turn -> {"live", "canceled", "timeout"}]
    BY <1>7 DEF CancelContext, Timeout, CallTypes
  <2> QED
    BY <2>1, <2>2, TypesKept DEF CallTypes
<1> QED
  BY <1>1, <1>2, <1>3, <1>4, <1>5, <1>6, <1>7

\* The next byte of a chunk moves to the buffer: nothing else of the two changes.
LEMMA ByteMoves ==
    ASSUME NEW buf \in Seq(Letters), NEW rest \in Seq(Letters), rest # <<>>
    PROVE  /\ Append(buf, Head(rest)) \in Seq(Letters) /\ Tail(rest) \in Seq(Letters)
           /\ Append(buf, Head(rest)) \o Tail(rest) = buf \o rest
<1> DEFINE c == Head(rest)
           r == Tail(rest)
<1>1. c \in Letters /\ r \in Seq(Letters) /\ rest = <<c>> \o r
  BY HeadTailProperties
<1>2. Append(buf, c) = buf \o <<c>> /\ Append(buf, c) \in Seq(Letters) /\ <<c>> \in Seq(Letters)
  BY <1>1, AppendIsConcat, AppendProperties
<1> HIDE DEF c, r
<1>3. (buf \o <<c>>) \o r = buf \o (<<c>> \o r)
  BY <1>1, <1>2, ConcatAssociative
<1> QED
  BY <1>1, <1>2, <1>3 DEF c, r

\* What the cut of a byte does to its turn.
LEMMA FoldByteEffect ==
    ASSUME CallTypes, NEW t \in Turn, FoldByte(t)
    PROVE  /\ st' \in [Turn -> Stream] /\ Others(t)
           /\ st'[t].content = st[t].content /\ st'[t].final = st[t].final
           /\ st'[t].rest = Tail(st[t].rest) /\ st[t].rest # <<>>
           /\ \E buf \in Seq(Letters) :
                 /\ buf = Append(st[t].buf, Head(st[t].rest))
                 /\ \/ st'[t].buf = buf /\ UNCHANGED <<pc, segs>>
                    \/ /\ st'[t].buf = <<>> /\ UNCHANGED <<pc, segs>>
                       /\ blank(buf) \/ ctx[t] # "live"
                    \/ /\ st'[t].buf = <<>> /\ ctx[t] = "live"
                       /\ segs' = [segs EXCEPT ![t] = Append(@, buf)] /\ goto(t, "speak")
<1> DEFINE buf == Append(st[t].buf, Head(st[t].rest))
           rest == Tail(st[t].rest)
<1>1. st \in [Turn -> Stream] /\ st[t].buf \in Seq(Letters) /\ st[t].rest \in Seq(Letters)
  BY DEF CallTypes, Stream
<1>2. st[t].rest # <<>>
  BY DEF FoldByte
<1>3. buf \in Seq(Letters) /\ rest \in Seq(Letters) /\ <<>> \in Seq(Letters)
  BY <1>1, <1>2, ByteMoves, EmptySeq
<1>4. \/ st' = [st EXCEPT ![t].buf = buf, ![t].rest = rest] /\ UNCHANGED <<pc, segs>>
      \/ /\ st' = [st EXCEPT ![t].buf = <<>>, ![t].rest = rest] /\ UNCHANGED <<pc, segs>>
         /\ blank(buf) \/ ctx[t] # "live"
      \/ /\ st' = [st EXCEPT ![t].buf = <<>>, ![t].rest = rest] /\ ctx[t] = "live"
         /\ segs' = [segs EXCEPT ![t] = Append(@, buf)] /\ goto(t, "speak")
  BY DEF FoldByte, emit
<1> HIDE DEF buf, rest
<1>5. CASE st' = [st EXCEPT ![t].buf = buf, ![t].rest = rest] /\ UNCHANGED <<pc, segs>>
  <2>1. /\ st' \in [Turn -> Stream] /\ Others(t)
        /\ st'[t].buf = buf /\ st'[t].rest = rest
        /\ st'[t].content = st[t].content /\ st'[t].final = st[t].final
    BY <1>1, <1>3, <1>5 DEF Stream, Others
  <2> QED
    BY <1>2, <1>3, <1>5, <2>1 DEF buf, rest
<1>6. CASE /\ st' = [st EXCEPT ![t].buf = <<>>, ![t].rest = rest]
           /\ \/ UNCHANGED <<pc, segs>> /\ (blank(buf) \/ ctx[t] # "live")
              \/ /\ ctx[t] = "live"
                 /\ segs' = [segs EXCEPT ![t] = Append(@, buf)] /\ goto(t, "speak")
  <2>1. /\ st' \in [Turn -> Stream] /\ Others(t)
        /\ st'[t].buf = <<>> /\ st'[t].rest = rest
        /\ st'[t].content = st[t].content /\ st'[t].final = st[t].final
    BY <1>1, <1>3, <1>6 DEF Stream, Others
  <2> QED
    BY <1>2, <1>3, <1>6, <2>1 DEF buf, rest
<1> QED
  BY <1>4, <1>5, <1>6

\* A chunk, the cut of its bytes and the end of the stream keep the types.
LEMMA StreamTypes ==
    ASSUME TypeOK, NEW t \in Turn,
           \/ \E text \in Texts : ContentLine(t, text)
           \/ FoldByte(t) \/ StreamEnds(t)
    PROVE  TypeOK'
<1> USE DEF TypeOK
<1>0. st \in [Turn -> Stream] /\ st[t].buf \in Seq(Letters) /\ {"stream", "empty"} \subseteq ErrTypes
  BY DEF CallTypes, Stream, ErrTypes
<1>1. ASSUME NEW text \in Texts, ContentLine(t, text) PROVE TypeOK'
  <2>1. UNCHANGED <<hostVars, file>> /\ UNCHANGED speechVars /\ UNCHANGED <<ctx, window, segs>>
    BY <1>1 DEF ContentLine
  <2>2. text \in Seq(Letters)
    BY DriverConstants
  <2>3. ASSUME failed(t, "stream"), UNCHANGED st PROVE CallTypes'
    BY <1>0, <2>1, <2>3, CallTypeKept
  <2>4. ASSUME st' = [st EXCEPT ![t].lines = @ + 1, ![t].content = @ \o text, ![t].rest = text],
               goto(t, "fold"), UNCHANGED <<span, ret>>
        PROVE  CallTypes'
    <3>1. st' \in [Turn -> Stream]
      BY <1>0, <1>1, <2>2, <2>4, ChunkEffect DEF ContentLine
    <3> QED
      BY <2>1, <2>4, <3>1 DEF CallTypes, goto
  <2> QED
    BY <1>1, <2>1, <2>3, <2>4, TypesKept DEF ContentLine
<1>2. CASE FoldByte(t)
  <2>1. UNCHANGED <<hostVars, file>> /\ UNCHANGED speechVars /\ UNCHANGED <<ctx, window, span, ret>>
    BY <1>2 DEF FoldByte
  <2>2. st' \in [Turn -> Stream]
    BY <1>2, FoldByteEffect
  <2>3. ASSUME NEW buf \in Seq(Letters), segs' = [segs EXCEPT ![t] = Append(@, buf)], goto(t, "speak")
        PROVE  CallTypes'
    <3>1. Append(segs[t], buf) \in Seq(Seq(Letters))
      BY AppendProperties DEF CallTypes
    <3> QED
      BY <2>1, <2>2, <2>3, <3>1 DEF CallTypes, goto
  <2>4. ASSUME UNCHANGED <<pc, segs>> PROVE CallTypes'
    BY <2>1, <2>2, <2>4 DEF CallTypes
  <2>5. CallTypes'
    BY <1>2, <2>3, <2>4, FoldByteEffect
  <2> QED
    BY <2>1, <2>5, TypesKept
<1>3. CASE StreamEnds(t)
  <2>1. UNCHANGED <<hostVars, file>> /\ UNCHANGED speechVars /\ UNCHANGED <<ctx, window>>
    BY <1>3 DEF StreamEnds
  <2>2. ASSUME failed(t, "empty"), UNCHANGED <<st, segs>> PROVE CallTypes'
    BY <1>0, <2>1, <2>2, CallTypeKept
  <2>3. ASSUME st' = [st EXCEPT ![t].buf = <<>>], succeed(t), UNCHANGED segs PROVE CallTypes'
    <3>1. st' \in [Turn -> Stream]
      BY <1>0, <2>3, FlushEffect
    <3> QED
      BY <2>1, <2>3, <3>1 DEF CallTypes, succeed, end, goto
  <2>4. ASSUME st' = [st EXCEPT ![t].buf = <<>>, ![t].final = TRUE],
               segs' = [segs EXCEPT ![t] = Append(@, st[t].buf)],
               goto(t, "speak"), UNCHANGED <<span, ret>>
        PROVE  CallTypes'
    <3>1. st' \in [Turn -> Stream]
      BY <1>0, <2>4, FinalEffect
    <3>2. Append(segs[t], st[t].buf) \in Seq(Seq(Letters))
      BY <1>0, AppendProperties DEF CallTypes
    <3> QED
      BY <2>1, <2>4, <3>1, <3>2 DEF CallTypes, goto
  <2>5. CallTypes'
    BY <1>3, <2>2, <2>3, <2>4 DEF StreamEnds
  <2> QED
    BY <2>1, <2>5, TypesKept
<1> QED
  BY <1>1, <1>2, <1>3

\* What is left when the last message is taken back.
LEMMA FrontProperties ==
    ASSUME NEW A, NEW s \in Seq(A), s # <<>>
    PROVE  /\ Front(s) \in Seq(A) /\ Len(Front(s)) = Len(s) - 1 /\ Len(s) \in Nat \ {0}
           /\ \A i \in 1..Len(s) - 1 : Front(s)[i] = s[i]
<1>1. Len(s) \in Nat \ {0}
  BY EmptySeq
<1>2. 1 \in 1..Len(s) + 1 /\ Len(s) - 1 \in 0..Len(s) /\ (Len(s) - 1) - 1 + 1 = Len(s) - 1
  BY <1>1
<1> QED
  BY <1>1, <1>2, SubSeqProperties DEF Front

\* Forget leaves a conversation.
LEMMA ForgetType ==
    ASSUME history \in Seq(Message), Forget
    PROVE  history' \in Seq(Message)
BY FrontProperties DEF Forget

\* Memory and prompt keep their types.
LEMMA MemoryTypes ==
    ASSUME TypeOK, NEW t \in Turn,
           \/ BeginTurn(t) \/ ContextFor(t) \/ StatPrompt(t) \/ ReadPrompt(t)
           \/ RememberAnswer(t) \/ RollBack(t)
           \/ \E unreadable \in BOOLEAN : EditPrompt(unreadable)
    PROVE  TypeOK'
<1> USE DEF TypeOK
<1>0. st \in [Turn -> Stream] /\ file.mtime \in Nat /\ file.text \in Nat /\ fail(prompt) \in Nat
      /\ \A u \in Turn : st[u].stat \in Nat
  <2>1. st \in [Turn -> Stream] /\ file.mtime \in 0..MaxEdits /\ file.text \in Nat
    BY DEF CallTypes, HostTypes
  <2>2. file.mtime \in Nat
    BY <2>1, DriverConstants
  <2>3. fail(prompt) \in Nat
    BY DEF HostTypes, fail
  <2>4. \A u \in Turn : st[u].stat \in Nat
    BY <2>1 DEF Stream
  <2> QED
    BY <2>1, <2>2, <2>3, <2>4
<1>1. CASE BeginTurn(t)
  <2>1. UNCHANGED <<histMu, prompt, since, file>> /\ UNCHANGED callVars /\ UNCHANGED speechVars
    BY <1>1 DEF BeginTurn
  <2>2. history' \in Seq(Message)
    <3>1. [role |-> "user", turn |-> t] \in Message
      BY DEF Message
    <3> QED
      BY <1>1, <3>1, AppendProperties DEF BeginTurn, Remember, HostTypes
  <2>3. CallTypes'
    BY <1>1, <2>1 DEF BeginTurn, goto, CallTypes, callVars
  <2> QED
    BY <2>1, <2>2, <2>3, TypesKept DEF HostTypes
<1>2. CASE ContextFor(t)
  <2>1. UNCHANGED <<history, prompt, file>> /\ UNCHANGED callVars /\ UNCHANGED speechVars
    BY <1>2 DEF ContextFor
  <2>2. histMu' \in Turn \cup {None} /\ since' \in [Turn -> SUBSET Nat]
    BY <1>0, <1>2 DEF ContextFor, HostTypes
  <2>3. CallTypes'
    BY <1>2, <2>1 DEF ContextFor, goto, CallTypes, callVars
  <2> QED
    BY <2>1, <2>2, <2>3, TypesKept DEF HostTypes
<1>3. CASE StatPrompt(t)
  <2>1. UNCHANGED <<history, prompt, since, file>> /\ UNCHANGED <<ctx, segs, span, ret>> /\ UNCHANGED speechVars
    BY <1>3 DEF StatPrompt
  <2>2. ASSUME NEW text \in Nat, assemble(t, text), UNCHANGED st
        PROVE  CallTypes' /\ histMu' \in Turn \cup {None}
    <3>1. st' \in [Turn -> Stream]
      BY <1>0, <2>2
    <3> QED
      BY <2>1, <2>2, <3>1, AssembleTypes
  <2>3. ASSUME st' = [st EXCEPT ![t].stat = file.mtime], goto(t, "read"), UNCHANGED <<histMu, window>>
        PROVE  CallTypes' /\ histMu' \in Turn \cup {None}
    <3>1. st' \in [Turn -> Stream]
      BY <1>0, <2>3, StatEffect
    <3> QED
      BY <2>1, <2>3, <3>1 DEF CallTypes, HostTypes, goto
  <2>4. prompt.text \in Nat
    BY DEF HostTypes
  <2>5. CallTypes' /\ histMu' \in Turn \cup {None}
    BY <1>0, <1>3, <2>2, <2>3, <2>4 DEF StatPrompt
  <2> QED
    BY <2>1, <2>5, TypesKept DEF HostTypes
<1>4. CASE ReadPrompt(t)
  <2>1. UNCHANGED <<history, since, file>> /\ UNCHANGED <<ctx, segs, span, ret>> /\ UNCHANGED speechVars
    BY <1>4 DEF ReadPrompt
  <2>2. prompt' \in [loaded : BOOLEAN, modt : Nat, text : Nat]
    BY <1>0, <1>4 DEF ReadPrompt, HostTypes
  <2>3. fail(prompt') \in Nat /\ assemble(t, fail(prompt'))
    BY <1>4, <2>2 DEF ReadPrompt, fail
  <2>4. st' \in [Turn -> Stream]
    BY <1>0, <1>4, StatEffect DEF ReadPrompt
  <2>5. CallTypes' /\ histMu' \in Turn \cup {None}
    BY <2>1, <2>3, <2>4, AssembleTypes
  <2> QED
    BY <2>1, <2>2, <2>5, TypesKept DEF HostTypes
<1>5. CASE RememberAnswer(t)
  <2>1. UNCHANGED <<histMu, prompt, since, file>> /\ UNCHANGED speechVars
    BY <1>5 DEF RememberAnswer
  <2>2. history' \in Seq(Message)
    <3>1. [role |-> "assistant", turn |-> t] \in Message
      BY DEF Message
    <3> QED
      BY <1>5, <3>1, AppendProperties DEF RememberAnswer, Remember, HostTypes
  <2>3. CallTypes'
    BY <1>5, EndTurnTypes DEF RememberAnswer, Ended
  <2> QED
    BY <2>1, <2>2, <2>3, TypesKept DEF HostTypes
<1>6. CASE RollBack(t)
  <2>1. UNCHANGED <<histMu, prompt, since, file>> /\ UNCHANGED callVars /\ UNCHANGED speechVars
    BY <1>6 DEF RollBack
  <2>2. history' \in Seq(Message)
    BY <1>6, ForgetType DEF RollBack, HostTypes
  <2>3. CallTypes'
    BY <1>6, <2>1 DEF RollBack, goto, CallTypes, callVars
  <2> QED
    BY <2>1, <2>2, <2>3, TypesKept DEF HostTypes
<1>7. ASSUME NEW unreadable \in BOOLEAN, EditPrompt(unreadable) PROVE TypeOK'
  <2>1. UNCHANGED <<history, histMu, prompt>> /\ UNCHANGED <<pc, callVars>> /\ UNCHANGED speechVars
    BY <1>7 DEF EditPrompt
  <2>2. file' \in [mtime : 0..MaxEdits, text : Nat]
    <3>1. file.mtime + 1 \in 0..MaxEdits /\ file.mtime + 2 \in Nat
      BY <1>0, <1>7, DriverConstants DEF EditPrompt
    <3> QED
      BY <1>7, <3>1 DEF EditPrompt
  <2>3. since' \in [Turn -> SUBSET Nat]
    BY <1>7, <2>2 DEF EditPrompt, HostTypes
  <2> QED
    BY <2>1, <2>2, <2>3, TypesKept DEF HostTypes
<1> QED
  BY <1>1, <1>2, <1>3, <1>4, <1>5, <1>6, <1>7

\* The queue keeps to its depth.
LEMMA EnqueueType ==
    ASSUME SpeechTypes, NEW clip \in Clip, enqueue(clip)
    PROVE  queue' \in Seq(Clip) /\ Len(queue') <= QueueDepth
<1>1. Len(queue) \in Nat /\ queue' \in Seq(Clip) /\ Len(queue') = Len(queue) + 1
  BY AppendProperties, LenProperties DEF SpeechTypes, enqueue
<1> QED
  BY <1>1, DriverConstants DEF enqueue

\* A clip taken out leaves the queue as typed.
LEMMA DequeueType ==
    ASSUME SpeechTypes, queue # <<>>, queue' = Tail(queue)
    PROVE  queue' \in Seq(Clip) /\ Len(queue') <= QueueDepth /\ Head(queue) \in Clip
<1>1. Len(queue) \in Nat /\ queue' \in Seq(Clip) /\ Len(queue') = Len(queue) - 1 /\ Head(queue) \in Clip
  BY HeadTailProperties, LenProperties DEF SpeechTypes
<1> QED
  BY <1>1, DriverConstants DEF SpeechTypes

\* Steps that need no turn keep the types.
LEMMA HostStepTypes ==
    ASSUME TypeOK, Clear \/ SpeakSync \/ SyncEnqueues \/ SyncReturns \/ TakeClip \/ ClipEnds
    PROVE  TypeOK'
<1> USE DEF TypeOK
<1>1. CASE Clear
  <2>1. UNCHANGED <<histMu, prompt, since, file>> /\ UNCHANGED <<pc, callVars>> /\ UNCHANGED speechVars
    BY <1>1 DEF Clear
  <2>2. history' \in Seq(Message)
    BY <1>1, EmptySeq DEF Clear
  <2> QED
    BY <2>1, <2>2, TypesKept DEF HostTypes
<1>2. CASE SpeakSync \/ SyncEnqueues \/ SyncReturns \/ TakeClip \/ ClipEnds
  <2>1. UNCHANGED <<hostVars, file>> /\ UNCHANGED <<pc, callVars>>
    BY <1>2 DEF SpeakSync, SyncEnqueues, SyncReturns, TakeClip, ClipEnds
  <2>2. SpeechTypes'
    <3>1. CASE SpeakSync
      BY <3>1 DEF SpeakSync, SpeechTypes
    <3>2. CASE SyncEnqueues
      <4>1. Tester \in Clip
        BY DEF Clip
      <4> QED
        BY <3>2, <4>1, EnqueueType DEF SyncEnqueues, SpeechTypes
    <3>3. CASE SyncReturns
      BY <3>3 DEF SyncReturns, SpeechTypes
    <3>4. CASE TakeClip
      BY <3>4, DequeueType DEF TakeClip, SpeechTypes
    <3>5. CASE ClipEnds
      BY <3>5 DEF ClipEnds, closeDone, SpeechTypes
    <3> QED
      BY <1>2, <3>1, <3>2, <3>3, <3>4, <3>5
  <2> QED
    BY <2>1, <2>2, TypesKept
<1> QED
  BY <1>1, <1>2

\* A turn's steps on the queue keep the types.
LEMMA QueueStepTypes ==
    ASSUME TypeOK, NEW t \in Turn, Speak(t) \/ cancelQueued(t) \/ CancelReturns(t)
    PROVE  TypeOK'
<1> USE DEF TypeOK
<1>1. CASE Speak(t)
  <2>1. UNCHANGED <<hostVars, file>> /\ UNCHANGED <<ctx, window, st, segs>> /\ UNCHANGED <<playing, tester, done>>
    BY <1>1 DEF Speak
  <2>2. CallTypes'
    <3>1. ASSUME succeed(t) PROVE CallTypes'
      BY <2>1, <3>1, CallTypeKept
    <3>2. ASSUME goto(t, "fold"), UNCHANGED <<span, ret>> PROVE CallTypes'
      BY <2>1, <3>2 DEF CallTypes, goto
    <3> QED
      BY <1>1, <3>1, <3>2 DEF Speak, resume
  <2>3. SpeechTypes'
    <3>1. t \in Clip
      BY DEF Clip
    <3>2. ASSUME UNCHANGED queue PROVE SpeechTypes'
      BY <2>1, <3>2 DEF SpeechTypes
    <3>3. ASSUME enqueue(t) PROVE SpeechTypes'
      BY <2>1, <3>1, <3>3, EnqueueType DEF SpeechTypes
    <3> QED
      BY <1>1, <3>2, <3>3 DEF Speak
  <2> QED
    BY <2>1, <2>2, <2>3, TypesKept
<1>2. CASE cancelQueued(t)
  <2>1. UNCHANGED <<hostVars, file>> /\ UNCHANGED <<pc, callVars>>
    BY <1>2 DEF cancelQueued
  <2>2. SpeechTypes'
    BY <1>2, DequeueType DEF cancelQueued, closeDone, SpeechTypes
  <2> QED
    BY <2>1, <2>2, TypesKept
<1>3. CASE CancelReturns(t)
  <2>1. CallTypes'
    BY <1>3, EndTurnTypes DEF CancelReturns, Ended
  <2> QED
    BY <1>3, <2>1, TypesKept DEF CancelReturns
<1> QED
  BY <1>1, <1>2, <1>3

(***************************************************************************)
(* The state has its type: an answer is text and its segments are texts,   *)
(* every outcome is a known one, and the speech queue keeps to its depth   *)
(* though Speak, SpeakSync, the worker and cancelQueued share it.          *)
(***************************************************************************)
THEOREM TypeCorrect == Spec => []TypeOK
<1>1. Init => TypeOK
  <2> SUFFICES ASSUME Init PROVE TypeOK
    OBVIOUS
  <2>0. <<>> \in Seq(Message) /\ <<>> \in Seq(Letters) /\ <<>> \in Seq(Seq(Letters)) /\ <<>> \in Seq(Clip)
        /\ Len(<<>>) = 0 /\ 0 <= QueueDepth /\ 0 \in 0..MaxEdits /\ 0 \in 0..MaxLines
    BY EmptySeq, DriverConstants
  <2>1. HostTypes
    <3>1. file \in [mtime : 0..MaxEdits, text : Nat]
      <4>1. file \in [mtime : {0}, text : {0, 1}]
        BY DEF Init
      <4>2. {0} \subseteq 0..MaxEdits /\ {0, 1} \subseteq Nat
        BY <2>0
      <4> QED
        BY <4>1, <4>2, Zenon
    <3>2. history = <<>> /\ histMu = None /\ prompt = [loaded |-> FALSE, modt |-> 0, text |-> 0]
          /\ since = [t \in Turn |-> {}]
      BY DEF Init
    <3> QED
      BY <2>0, <3>1, <3>2 DEF HostTypes
  <2>2. NoStream \in Stream /\ NoWindow \in [prompt : Nat, msgs : Seq(Message)]
    BY <2>0 DEF NoStream, NoWindow, Stream
  <2>3. CallTypes
    BY <2>0, <2>2 DEF Init, CallTypes
  <2>4. SpeechTypes
    BY <2>0 DEF Init, SpeechTypes
  <2> QED
    BY <2>1, <2>3, <2>4 DEF TypeOK
<1>2. TypeOK /\ [Next]_vars => TypeOK'
  <2> SUFFICES ASSUME TypeOK, [Next]_vars PROVE TypeOK'
    OBVIOUS
  <2>1. CASE UNCHANGED vars
    BY <2>1, TypesKept DEF TypeOK, vars
  <2>2. CASE Next
    BY <2>2, RequestTypes, StreamTypes, MemoryTypes, HostStepTypes, QueueStepTypes
       DEF Next, CallStep, Upstream, Worker, EditPrompt
  <2> QED
    BY <2>1, <2>2
<1> QED
  BY <1>1, <1>2, PTL DEF Spec

----------------------------------------------------------------------------
(* The span of a call. *)

\* A step that leaves span and outcome alone and takes a turn from one place to
\* another where the same is asked of them.
LEMMA SpanKept ==
    ASSUME CallTypes, SpanTellsOutcome, NEW t \in Turn, NEW p, goto(t, p), UNCHANGED <<span, ret>>,
           \/ p \in {"context", "stat", "read", "send"}
           \/ p \in {"stream", "fold", "speak"} /\ pc[t] \in {"post", "stream", "fold", "speak"}
           \/ p = "cancel" /\ pc[t] = "failed"
    PROVE  SpanTellsOutcome'
BY DEF CallTypes, SpanTellsOutcome, goto

\* A call that returns or panics ends its span with its outcome.
LEMMA SpanEnded ==
    ASSUME CallTypes, SpanTellsOutcome, NEW t \in Turn,
           \/ \E site : failed(t, site)
           \/ succeed(t)
           \/ end(t, "other") /\ ret' = [ret EXCEPT ![t] = "other"] /\ goto(t, "panicked")
    PROVE  SpanTellsOutcome'
<1> DEFINE Ends(e, p) == /\ ret' = [ret EXCEPT ![t] = e] /\ span' = [span EXCEPT ![t] = e]
                         /\ pc' = [pc EXCEPT ![t] = p]
<1>1. \E e, p : Ends(e, p) /\ p \in {"ok", "failed", "panicked"}
  BY DEF failed, succeed, end, goto
<1>2. PICK e, p : Ends(e, p) /\ p \in {"ok", "failed", "panicked"}
  BY <1>1
<1> QED
  BY <1>2 DEF CallTypes, SpanTellsOutcome

(***************************************************************************)
(* A span is ended exactly when its call returns or panics, with that      *)
(* call's outcome, whatever ended the call: the context before any other   *)
(* cause (SendStreamContext's defer, failed).                              *)
(***************************************************************************)
THEOREM SpansTellOutcomes == Spec => []SpanTellsOutcome
<1>1. Init => SpanTellsOutcome
  BY DEF Init, SpanTellsOutcome
<1>2. TypeOK /\ SpanTellsOutcome /\ [Next]_vars => SpanTellsOutcome'
  <2> SUFFICES ASSUME TypeOK, SpanTellsOutcome, [Next]_vars PROVE SpanTellsOutcome'
    OBVIOUS
  <2>0. CallTypes
    BY DEF TypeOK
  <2>1. ASSUME UNCHANGED <<pc, span, ret>> PROVE SpanTellsOutcome'
    BY <2>1 DEF SpanTellsOutcome
  <2>2. CASE \/ UNCHANGED vars
             \/ Clear \/ (\E unreadable \in BOOLEAN : EditPrompt(unreadable))
             \/ SpeakSync \/ SyncEnqueues \/ SyncReturns \/ Worker
    BY <2>1, <2>2 DEF vars, callVars, Clear, EditPrompt, SpeakSync, SyncEnqueues, SyncReturns,
                      Worker, TakeClip, ClipEnds
  <2>3. ASSUME NEW t \in Turn, CancelContext(t) \/ Timeout(t) \/ cancelQueued(t)
        PROVE  SpanTellsOutcome'
    BY <2>1, <2>3 DEF CancelContext, Timeout, cancelQueued, callVars
  <2>4. ASSUME NEW t \in Turn, BeginTurn(t) \/ ContextFor(t) \/ FoldEnds(t) \/ RollBack(t)
        PROVE  SpanTellsOutcome'
    BY <2>0, <2>4, SpanKept DEF BeginTurn, ContextFor, FoldEnds, RollBack, callVars
  <2>5. ASSUME NEW t \in Turn, StatPrompt(t) \/ ReadPrompt(t)
        PROVE  SpanTellsOutcome'
    BY <2>0, <2>5, SpanKept DEF StatPrompt, ReadPrompt, assemble
  <2>6. ASSUME NEW t \in Turn, SendStreamContext(t) \/ RefuseSend(t)
        PROVE  SpanTellsOutcome'
    BY <2>0, <2>6 DEF SendStreamContext, RefuseSend, goto, CallTypes, SpanTellsOutcome
  <2>7. ASSUME NEW t \in Turn, PostAnswered(t) \/ SilentLine(t) \/ ErrorLine(t) \/ ReadFails(t)
        PROVE  SpanTellsOutcome'
    BY <2>0, <2>1, <2>7, SpanKept, SpanEnded DEF PostAnswered, SilentLine, ErrorLine, ReadFails
  <2>8. ASSUME NEW t \in Turn, NEW text \in Texts, ContentLine(t, text)
        PROVE  SpanTellsOutcome'
    BY <2>0, <2>8, SpanKept, SpanEnded DEF ContentLine
  <2>9. ASSUME NEW t \in Turn, FoldByte(t)
        PROVE  SpanTellsOutcome'
    <3>1. UNCHANGED <<span, ret>> /\ (UNCHANGED pc \/ (pc[t] = "fold" /\ goto(t, "speak")))
      BY <2>9 DEF FoldByte
    <3> QED
      BY <2>0, <2>1, <3>1, SpanKept
  <2>10. ASSUME NEW t \in Turn, StreamEnds(t) \/ Speak(t) \/ SegmentPanics(t)
         PROVE  SpanTellsOutcome'
    <3>1. CASE StreamEnds(t)
      BY <2>0, <3>1, SpanKept, SpanEnded DEF StreamEnds
    <3>2. CASE Speak(t)
      BY <2>0, <3>2, SpanKept, SpanEnded DEF Speak, resume
    <3>3. CASE SegmentPanics(t)
      BY <2>0, <3>3, SpanEnded DEF SegmentPanics
    <3> QED
      BY <2>10, <3>1, <3>2, <3>3
  <2>11. ASSUME NEW t \in Turn, RememberAnswer(t) \/ CancelReturns(t)
         PROVE  SpanTellsOutcome'
    <3>1. PICK how \in {"done", "undone"} : endTurn(t, how)
      BY <2>11 DEF RememberAnswer, CancelReturns
    <3>2. /\ pc' = [pc EXCEPT ![t] = how] /\ span' = [span EXCEPT ![t] = "none"]
          /\ ret' = [ret EXCEPT ![t] = ""]
      BY <3>1 DEF endTurn, goto
    <3> QED
      BY <2>0, <3>2 DEF CallTypes, SpanTellsOutcome
  <2> QED
    BY <2>2, <2>3, <2>4, <2>5, <2>6, <2>7, <2>8, <2>9, <2>10, <2>11 DEF Next, CallStep, Upstream
<1> QED
  BY <1>1, <1>2, TypeCorrect, PTL DEF Spec

----------------------------------------------------------------------------
(* Segments. *)

\* Segments change when one is handed on, which needs a live context, and when
\* the turn is over.
LEMMA SegsStep ==
    ASSUME TypeOK, [Next]_vars
    PROVE  \/ UNCHANGED segs
           \/ \E t \in Turn, s \in Seq(Letters) : ctx[t] = "live" /\ segs' = [segs EXCEPT ![t] = Append(@, s)]
           \/ \E t \in Turn : segs' = [segs EXCEPT ![t] = <<>>]
<1>1. CASE \/ UNCHANGED vars
           \/ Clear \/ (\E unreadable \in BOOLEAN : EditPrompt(unreadable))
           \/ SpeakSync \/ SyncEnqueues \/ SyncReturns \/ Worker
  BY <1>1 DEF vars, callVars, Clear, EditPrompt, SpeakSync, SyncEnqueues, SyncReturns,
              Worker, TakeClip, ClipEnds
<1>2. ASSUME NEW t \in Turn,
             \/ BeginTurn(t) \/ RefuseSend(t) \/ SegmentPanics(t) \/ CancelContext(t) \/ Timeout(t)
             \/ ContextFor(t) \/ StatPrompt(t) \/ ReadPrompt(t) \/ SendStreamContext(t)
             \/ FoldEnds(t) \/ Speak(t) \/ RollBack(t) \/ cancelQueued(t)
      PROVE  UNCHANGED segs
  BY <1>2 DEF BeginTurn, RefuseSend, SegmentPanics, CancelContext, Timeout, ContextFor, StatPrompt,
              ReadPrompt, SendStreamContext, FoldEnds, Speak, RollBack, cancelQueued, callVars
<1>3. ASSUME NEW t \in Turn,
             \/ PostAnswered(t) \/ SilentLine(t) \/ ErrorLine(t) \/ ReadFails(t)
             \/ \E text \in Texts : ContentLine(t, text)
      PROVE  UNCHANGED segs
  BY <1>3 DEF PostAnswered, SilentLine, ErrorLine, ReadFails, ContentLine
<1>4. ASSUME NEW t \in Turn, FoldByte(t)
      PROVE  \/ UNCHANGED segs
             \/ \E s \in Seq(Letters) : ctx[t] = "live" /\ segs' = [segs EXCEPT ![t] = Append(@, s)]
  BY <1>4, FoldByteEffect DEF TypeOK
<1>5. ASSUME NEW t \in Turn, StreamEnds(t)
      PROVE  \/ UNCHANGED segs
             \/ \E s \in Seq(Letters) : ctx[t] = "live" /\ segs' = [segs EXCEPT ![t] = Append(@, s)]
  <2>1. st[t].buf \in Seq(Letters)
    BY DEF TypeOK, CallTypes, Stream
  <2> QED
    BY <1>5, <2>1 DEF StreamEnds
<1>6. ASSUME NEW t \in Turn, RememberAnswer(t) \/ CancelReturns(t)
      PROVE  segs' = [segs EXCEPT ![t] = <<>>]
  BY <1>6 DEF RememberAnswer, CancelReturns, endTurn
<1> QED
  BY <1>1, <1>2, <1>3, <1>4, <1>5, <1>6 DEF Next, CallStep, Upstream

(***************************************************************************)
(* No onSegment call starts once the call's context is done, whatever the  *)
(* scanner still has buffered and wherever in a chunk the context ends     *)
(* (streamChat's emit).                                                    *)
(***************************************************************************)
THEOREM NoSegmentsAfterDone == Spec => NoSegmentAfterDone
<1> DEFINE Quiet == \A t \in Turn : ctx[t] # "live" => Len(segs'[t]) <= Len(segs[t])
<1>1. TypeOK /\ [Next]_vars => [Quiet]_vars
  <2> SUFFICES ASSUME TypeOK, [Next]_vars, NEW u \in Turn, ctx[u] # "live"
               PROVE  Len(segs'[u]) <= Len(segs[u])
    OBVIOUS
  <2>1. segs \in [Turn -> Seq(Seq(Letters))] /\ Len(segs[u]) \in Nat /\ Len(<<>>) = 0
    BY LenProperties, EmptySeq DEF TypeOK, CallTypes
  <2>2. CASE UNCHANGED segs
    BY <2>1, <2>2
  <2>3. ASSUME NEW t \in Turn, NEW s \in Seq(Letters), ctx[t] = "live",
               segs' = [segs EXCEPT ![t] = Append(@, s)]
        PROVE  segs'[u] = segs[u]
    BY <2>1, <2>3
  <2>4. ASSUME NEW t \in Turn, segs' = [segs EXCEPT ![t] = <<>>]
        PROVE  segs'[u] = <<>> \/ segs'[u] = segs[u]
    BY <2>1, <2>4
  <2> QED
    BY <2>1, <2>2, <2>3, <2>4, SegsStep
<1> QED
  BY <1>1, TypeCorrect, PTL DEF Spec, NoSegmentAfterDone

----------------------------------------------------------------------------
(* The answer, from its chunks to its segments. *)

Unsent == {"new", "context", "stat", "read", "send", "post"}

\* The answer of one turn.  Besides what AnswerIsWhole says: nothing is left of
\* a chunk when the next line is read, and only the last segment is final; when
\* it is handed on, everything has been, whatever the context does next.
WholeAt(t) ==
    /\ ctx[t] = "live" =>
          spoken(FlattenSeq(segs[t]) \o st[t].buf \o st[t].rest) = spoken(st[t].content)
    /\ pc[t] \in Unsent \cup {"stream", "fold"} => ~st[t].final
    /\ pc[t] \in Unsent \cup {"stream"} => st[t].rest = <<>>
    /\ pc[t] = "ok" \/ (pc[t] = "speak" /\ st[t].final) =>
          spoken(FlattenSeq(segs[t])) = spoken(st[t].content)

WholeInv == \A t \in Turn : WholeAt(t)

\* What is heard of three texts in a row.
LEMMA SpokenThree ==
    ASSUME NEW f \in Seq(Letters), NEW b \in Seq(Letters), NEW r \in Seq(Letters)
    PROVE  spoken(f \o b \o r) = (spoken(f) \o spoken(b)) \o spoken(r)
<1>1. f \o b \in Seq(Letters)
  BY ConcatProperties
<1>2. spoken((f \o b) \o r) = spoken(f \o b) \o spoken(r)
  BY <1>1, SpokenConcat
<1>3. spoken(f \o b) = spoken(f) \o spoken(b)
  BY SpokenConcat
<1> QED
  BY <1>2, <1>3

\* Nothing follows.
LEMMA NothingFollows ==
    ASSUME NEW f \in Seq(Letters), NEW b \in Seq(Letters)
    PROVE  f \o <<>> = f /\ (f \o b) \o <<>> = f \o b
<1>1. f \o b \in Seq(Letters)
  BY ConcatProperties
<1> QED
  BY <1>1, ConcatEmptySeq

\* A step that touches neither the segments nor the stream's text.
SameText(u) ==
    /\ segs'[u] = segs[u]
    /\ st'[u].content = st[u].content /\ st'[u].buf = st[u].buf
    /\ st'[u].rest = st[u].rest /\ st'[u].final = st[u].final

\* ... keeps the answer whole, if it goes where nothing more is asked of it.
LEMMA WholeKept ==
    ASSUME NEW u \in Turn, WholeAt(u), SameText(u), ctx'[u] = "live" => ctx[u] = "live",
           \/ pc'[u] = pc[u]
           \/ pc'[u] \in Unsent \cup {"stream"} /\ pc[u] \in Unsent \cup {"stream"}
           \/ pc'[u] = "stream" /\ pc[u] = "fold" /\ st[u].rest = <<>>
           \/ pc'[u] = "fold" /\ pc[u] = "speak" /\ ~st[u].final
           \/ pc'[u] = "ok" /\ pc[u] = "speak" /\ st[u].final
           \/ pc'[u] \in {"failed", "cancel", "panicked"}
    PROVE  WholeAt(u)'
<1>1. (ctx[u] = "live" =>
          spoken(FlattenSeq(segs[u]) \o st[u].buf \o st[u].rest) = spoken(st[u].content))'
  BY DEF WholeAt, SameText
<1>2. (pc[u] \in Unsent \cup {"stream", "fold"} => ~st[u].final)'
  BY DEF WholeAt, SameText, Unsent
<1>3. (pc[u] \in Unsent \cup {"stream"} => st[u].rest = <<>>)'
  BY DEF WholeAt, SameText, Unsent
<1>4. (pc[u] = "ok" \/ (pc[u] = "speak" /\ st[u].final) =>
          spoken(FlattenSeq(segs[u])) = spoken(st[u].content))'
  BY DEF WholeAt, SameText, Unsent
<1> QED
  BY <1>1, <1>2, <1>3, <1>4 DEF WholeAt

\* The texts of a turn are texts.
LEMMA TextTypes ==
    ASSUME CallTypes, NEW t \in Turn
    PROVE  /\ st[t].content \in Seq(Letters) /\ st[t].buf \in Seq(Letters) /\ st[t].rest \in Seq(Letters)
           /\ segs[t] \in Seq(Seq(Letters)) /\ FlattenSeq(segs[t]) \in Seq(Letters)
<1>1. /\ st[t].content \in Seq(Letters) /\ st[t].buf \in Seq(Letters) /\ st[t].rest \in Seq(Letters)
      /\ segs[t] \in Seq(Seq(Letters))
  BY DEF CallTypes, Stream
<1> QED
  BY <1>1, FlattenAppend

\* A chunk joins what arrived and what is still to be cut.
LEMMA WholeChunk ==
    ASSUME TypeOK, NEW t \in Turn, WholeAt(t), NEW text \in Texts, ContentLine(t, text), ctx[t] = "live"
    PROVE  WholeAt(t)' /\ Others(t) /\ UNCHANGED segs
<1> DEFINE f == FlattenSeq(segs[t])
           b == st[t].buf
           c == st[t].content
<1>1. f \in Seq(Letters) /\ b \in Seq(Letters) /\ c \in Seq(Letters) /\ text \in Seq(Letters)
      /\ <<>> \in Seq(Letters)
  BY TextTypes, DriverConstants, EmptySeq DEF TypeOK
<1>2. /\ Others(t) /\ st'[t].buf = b /\ st'[t].rest = text /\ st'[t].content = c \o text
      /\ st'[t].final = st[t].final
  BY <1>1, ChunkEffect DEF ContentLine, TypeOK, CallTypes
<1>3. UNCHANGED segs /\ pc[t] = "stream" /\ pc'[t] = "fold"
  BY DEF ContentLine, goto, TypeOK, CallTypes
<1>4. st[t].rest = <<>> /\ ~st[t].final /\ spoken(f \o b \o <<>>) = spoken(c)
  BY <1>3 DEF WholeAt
<1> HIDE DEF f, b, c
<1>5. spoken(f \o b \o text) = spoken(c \o text)
  <2>1. f \o b \in Seq(Letters)
    BY <1>1, ConcatProperties
  <2>2. (f \o b) \o <<>> = f \o b
    BY <2>1, ConcatEmptySeq
  <2>3. spoken((f \o b) \o text) = spoken(f \o b) \o spoken(text)
    BY <1>1, <2>1, SpokenConcat
  <2>4. spoken(c \o text) = spoken(c) \o spoken(text)
    BY <1>1, SpokenConcat
  <2> QED
    BY <1>4, <2>2, <2>3, <2>4
<1> QED
  BY <1>2, <1>3, <1>4, <1>5 DEF WholeAt, f, b, c, Unsent

\* A byte is cut off, with or without a segment behind it.
LEMMA WholeByte ==
    ASSUME TypeOK, NEW t \in Turn, WholeAt(t), FoldByte(t)
    PROVE  WholeAt(t)'
<1> DEFINE f == FlattenSeq(segs[t])
           b == st[t].buf
           r == st[t].rest
           c == st[t].content
           buf == Append(b, Head(r))
           rest == Tail(r)
<1>1. /\ f \in Seq(Letters) /\ b \in Seq(Letters) /\ r \in Seq(Letters) /\ c \in Seq(Letters)
      /\ segs[t] \in Seq(Seq(Letters)) /\ <<>> \in Seq(Letters)
  BY TextTypes, EmptySeq DEF TypeOK
<1>2. /\ st'[t].content = c /\ st'[t].final = st[t].final /\ st'[t].rest = rest /\ r # <<>>
      /\ \/ st'[t].buf = buf /\ UNCHANGED <<pc, segs>>
         \/ st'[t].buf = <<>> /\ UNCHANGED <<pc, segs>> /\ (blank(buf) \/ ctx[t] # "live")
         \/ st'[t].buf = <<>> /\ segs' = [segs EXCEPT ![t] = Append(@, buf)] /\ goto(t, "speak")
  BY FoldByteEffect DEF TypeOK
<1>3. buf \in Seq(Letters) /\ rest \in Seq(Letters) /\ buf \o rest = b \o r
  BY <1>1, <1>2, ByteMoves
<1>4. ctx' = ctx /\ pc[t] = "fold"
  BY DEF FoldByte
<1>5. ~st[t].final /\ (ctx[t] = "live" => spoken(f \o b \o r) = spoken(c))
  BY <1>4 DEF WholeAt
<1> HIDE DEF f, b, r, c, buf, rest
<1>0. buf \in Seq(Letters) /\ rest \in Seq(Letters)
  BY <1>3
<1>6. f \o buf \o rest = f \o b \o r
  <2>1. (f \o buf) \o rest = f \o (buf \o rest)
    BY <1>0, <1>1, ConcatAssociative
  <2>2. (f \o b) \o r = f \o (b \o r)
    BY <1>1, ConcatAssociative
  <2> QED
    BY <1>3, <2>1, <2>2
<1>7. CASE st'[t].buf = buf /\ UNCHANGED <<pc, segs>>
  <2>1. ctx'[t] = "live" => spoken(f \o buf \o rest) = spoken(c)
    BY <1>4, <1>5, <1>6
  <2> QED
    BY <1>2, <1>4, <1>5, <1>7, <2>1 DEF WholeAt, f, c, Unsent
<1>8. CASE st'[t].buf = <<>> /\ UNCHANGED <<pc, segs>> /\ (blank(buf) \/ ctx[t] # "live")
  <2>1. ASSUME blank(buf) PROVE spoken(f \o <<>> \o rest) = spoken(f \o buf \o rest)
    <3>1. spoken(buf) = <<>> /\ spoken(<<>>) = <<>>
      BY <1>3, <2>1, SpokenBlank, SpokenEmpty
    <3>0. f \in Seq(Letters) /\ buf \in Seq(Letters) /\ rest \in Seq(Letters) /\ <<>> \in Seq(Letters)
      BY <1>0, <1>1
    <3>2. spoken((f \o <<>>) \o rest) = (spoken(f) \o spoken(<<>>)) \o spoken(rest)
      BY <3>0, SpokenThree
    <3>3. spoken((f \o buf) \o rest) = (spoken(f) \o spoken(buf)) \o spoken(rest)
      BY <3>0, SpokenThree
    <3> QED
      BY <3>1, <3>2, <3>3
  <2>2. ctx'[t] = "live" => spoken(f \o <<>> \o rest) = spoken(c)
    BY <1>4, <1>5, <1>6, <1>8, <2>1
  <2> QED
    BY <1>2, <1>4, <1>5, <1>8, <2>2 DEF WholeAt, f, c, Unsent
<1>9. CASE st'[t].buf = <<>> /\ segs' = [segs EXCEPT ![t] = Append(@, buf)] /\ goto(t, "speak")
  <2>1. pc'[t] = "speak" /\ segs'[t] = Append(segs[t], buf)
    BY <1>9 DEF TypeOK, CallTypes, goto
  <2>2. FlattenSeq(segs'[t]) = f \o buf
    BY <1>1, <1>3, <2>1, FlattenAppend DEF f
  <2>3. f \o buf \o <<>> = f \o buf
    BY <1>0, <1>1, NothingFollows
  <2>4. ctx'[t] = "live" => spoken(f \o buf \o <<>> \o rest) = spoken(c)
    BY <1>4, <1>5, <1>6, <2>3
  <2> QED
    BY <1>2, <1>5, <1>9, <2>1, <2>2, <2>4 DEF WholeAt, c, Unsent
<1> QED
  BY <1>2, <1>7, <1>8, <1>9

\* The end of the stream hands on what is left, unless it is blank.
LEMMA WholeEnd ==
    ASSUME TypeOK, NEW t \in Turn, WholeAt(t), StreamEnds(t), st[t].content # <<>>
    PROVE  WholeAt(t)' /\ Others(t)
<1> DEFINE f == FlattenSeq(segs[t])
           b == st[t].buf
           c == st[t].content
<1>1. /\ f \in Seq(Letters) /\ b \in Seq(Letters) /\ c \in Seq(Letters) /\ <<>> \in Seq(Letters)
      /\ segs[t] \in Seq(Seq(Letters)) /\ st \in [Turn -> Stream]
  BY TextTypes, EmptySeq DEF TypeOK, CallTypes
<1>2. pc[t] = "stream" /\ ctx[t] = "live" /\ ctx' = ctx
  BY DEF StreamEnds
<1>3. st[t].rest = <<>> /\ spoken(f \o b \o <<>>) = spoken(c)
  BY <1>2 DEF WholeAt
<1>4. spoken(f \o b) = spoken(c) /\ f \o <<>> = f /\ (f \o b) \o <<>> = f \o b
  <2>1. f \o <<>> = f /\ (f \o b) \o <<>> = f \o b
    <3> HIDE DEF f, b
    <3> QED
      BY <1>1, NothingFollows
  <2> QED
    BY <1>3, <2>1
<1>5. CASE blank(b) /\ st' = [st EXCEPT ![t].buf = <<>>] /\ succeed(t) /\ UNCHANGED segs
  <2>1. /\ Others(t) /\ st'[t].buf = <<>> /\ st'[t].rest = <<>> /\ st'[t].content = c
        /\ pc'[t] = "ok"
    BY <1>1, <1>3, <1>5, FlushEffect DEF succeed, goto, TypeOK, CallTypes
  <2>2. spoken(f) = spoken(c)
    <3> HIDE DEF f, b, c
    <3>1. spoken(b) = <<>>
      BY <1>1, <1>5, SpokenBlank
    <3>2. spoken(f \o b) = spoken(f) \o <<>> /\ spoken(f) \in Seq(Letters)
      BY <1>1, <3>1, SpokenConcat, SpokenType
    <3> QED
      BY <1>4, <3>2, ConcatEmptySeq
  <2>3. spoken(f \o <<>> \o <<>>) = spoken(c)
    BY <1>4, <2>2
  <2> HIDE DEF f
  <2>4. FlattenSeq(segs'[t]) = f
    BY <1>5 DEF f
  <2> QED
    BY <2>1, <2>2, <2>3, <2>4 DEF WholeAt, Unsent
<1>6. CASE /\ st' = [st EXCEPT ![t].buf = <<>>, ![t].final = TRUE]
           /\ segs' = [segs EXCEPT ![t] = Append(@, b)] /\ goto(t, "speak")
  <2>1. /\ Others(t) /\ st'[t].buf = <<>> /\ st'[t].rest = <<>> /\ st'[t].content = c
        /\ pc'[t] = "speak"
    BY <1>1, <1>3, <1>6, FinalEffect DEF goto, TypeOK, CallTypes
  <2>2. segs'[t] = Append(segs[t], b)
    BY <1>6 DEF TypeOK, CallTypes
  <2>3. FlattenSeq(segs'[t]) = f \o b
    BY <1>1, <2>2, FlattenAppend
  <2>4. spoken(f \o b \o <<>> \o <<>>) = spoken(c)
    BY <1>4
  <2> HIDE DEF f, b
  <2> QED
    BY <1>4, <2>1, <2>3, <2>4 DEF WholeAt, Unsent
<1> QED
  BY <1>5, <1>6 DEF StreamEnds

\* A turn that is over keeps nothing.
LEMMA WholeOver ==
    ASSUME TypeOK, NEW t \in Turn, NEW how \in {"done", "undone"}, endTurn(t, how)
    PROVE  WholeAt(t)' /\ Others(t)
<1>1. /\ st'[t] = NoStream /\ segs'[t] = <<>> /\ pc'[t] = how
      /\ Others(t)
  BY DEF endTurn, goto, TypeOK, CallTypes, Others
<1>2. FlattenSeq(<<>>) = <<>> /\ <<>> \o <<>> \o <<>> = <<>>
  BY FlattenAppend, EmptySeq, ConcatEmptySeq DEF FlattenSeq
<1>3. st'[t].content = <<>> /\ st'[t].buf = <<>> /\ st'[t].rest = <<>>
  BY <1>1 DEF NoStream
<1> QED
  BY <1>1, <1>2, <1>3 DEF WholeAt, Unsent

\* Only turn t moves.
Alone(t) == \A u \in Turn \ {t} :
    pc'[u] = pc[u] /\ ctx'[u] = ctx[u] /\ st'[u] = st[u] /\ segs'[u] = segs[u]

\* It is enough to look at the turn that moves.
LEMMA WholeAlone ==
    ASSUME WholeInv, NEW t \in Turn, Alone(t), WholeAt(t)'
    PROVE  WholeInv'
<1> SUFFICES ASSUME NEW u \in Turn PROVE WholeAt(u)'
  BY DEF WholeInv
<1>1. CASE u = t
  BY <1>1
<1>2. CASE u # t
  <2>1. SameText(u) /\ pc'[u] = pc[u] /\ ctx'[u] = ctx[u]
    BY <1>2 DEF Alone, SameText
  <2> QED
    BY <2>1, WholeKept DEF WholeInv
<1> QED
  BY <1>1, <1>2

\* A turn that fails, is refused or goes on in one place keeps its text.
LEMMA WholeMove ==
    ASSUME TypeOK, WholeInv, NEW t \in Turn, NEW p, goto(t, p), UNCHANGED <<ctx, st, segs>>,
           \/ p \in Unsent \cup {"stream"} /\ pc[t] \in Unsent \cup {"stream"}
           \/ p = "stream" /\ pc[t] = "fold" /\ st[t].rest = <<>>
           \/ p = "fold" /\ pc[t] = "speak" /\ ~st[t].final
           \/ p = "ok" /\ pc[t] = "speak" /\ st[t].final
           \/ p \in {"failed", "cancel", "panicked"}
    PROVE  WholeInv'
<1>1. pc'[t] = p /\ SameText(t) /\ Alone(t) /\ ctx'[t] = ctx[t]
  BY DEF goto, TypeOK, CallTypes, SameText, Alone
<1>2. WholeAt(t)
  BY DEF WholeInv
<1>3. WholeAt(t)'
  BY <1>1, <1>2, WholeKept
<1> QED
  BY <1>1, <1>3, WholeAlone

\* WholeInv is inductive.
LEMMA WholeInvInductive == Spec => []WholeInv
<1>1. Init => WholeInv
  <2> SUFFICES ASSUME Init, NEW t \in Turn PROVE WholeAt(t)
    BY DEF WholeInv
  <2>1. st[t] = NoStream /\ segs[t] = <<>> /\ pc[t] = "new"
    BY DEF Init
  <2>2. FlattenSeq(<<>>) = <<>> /\ <<>> \o <<>> \o <<>> = <<>>
    BY FlattenAppend, EmptySeq, ConcatEmptySeq DEF FlattenSeq
  <2>3. st[t].content = <<>> /\ st[t].buf = <<>> /\ st[t].rest = <<>> /\ ~st[t].final
    BY <2>1 DEF NoStream
  <2> QED
    BY <2>1, <2>2, <2>3 DEF WholeAt, Unsent
<1>2. TypeOK /\ WholeInv /\ [Next]_vars => WholeInv'
  <2> SUFFICES ASSUME TypeOK, WholeInv, [Next]_vars PROVE WholeInv'
    OBVIOUS
  <2>0. CallTypes /\ \A t \in Turn : WholeAt(t)
    BY DEF TypeOK, WholeInv
  <2>1. ASSUME UNCHANGED <<pc, ctx, st, segs>> PROVE WholeInv'
    BY <2>1 DEF WholeInv, WholeAt
  <2>2. CASE \/ UNCHANGED vars
             \/ Clear \/ (\E unreadable \in BOOLEAN : EditPrompt(unreadable))
             \/ SpeakSync \/ SyncEnqueues \/ SyncReturns \/ Worker
             \/ \E t \in Turn : cancelQueued(t)
    BY <2>1, <2>2 DEF vars, callVars, Clear, EditPrompt, SpeakSync, SyncEnqueues, SyncReturns,
                      Worker, TakeClip, ClipEnds, cancelQueued
  <2>3. ASSUME NEW t \in Turn, BeginTurn(t) \/ ContextFor(t) \/ FoldEnds(t) \/ RollBack(t)
        PROVE  WholeInv'
    BY <2>3, WholeMove DEF BeginTurn, mayBegin, ContextFor, FoldEnds, RollBack, callVars, Unsent
  <2>4. ASSUME NEW t \in Turn, StatPrompt(t) \/ ReadPrompt(t)
        PROVE  WholeInv'
    <3>1. UNCHANGED <<ctx, segs>> /\ pc[t] \in {"stat", "read"}
      BY <2>4 DEF StatPrompt, ReadPrompt
    <3>2. \E p \in {"read", "send"} : goto(t, p)
      BY <2>4 DEF StatPrompt, ReadPrompt, assemble
    <3>3. UNCHANGED st \/ \E n \in Nat : st' = [st EXCEPT ![t].stat = n]
      <4>1. file.mtime \in Nat
        BY DriverConstants DEF TypeOK, HostTypes
      <4> QED
        BY <2>4, <4>1 DEF StatPrompt, ReadPrompt
    <3>4. Others(t) /\ st'[t].content = st[t].content /\ st'[t].buf = st[t].buf
          /\ st'[t].rest = st[t].rest /\ st'[t].final = st[t].final
      BY <2>0, <3>3, StatEffect DEF CallTypes, Others
    <3>5. SameText(t) /\ Alone(t) /\ ctx'[t] = ctx[t] /\ pc'[t] \in {"read", "send"}
      BY <2>0, <3>1, <3>2, <3>4 DEF CallTypes, SameText, Alone, Others, goto
    <3>6. WholeAt(t)'
      BY <2>0, <3>1, <3>5, WholeKept DEF Unsent
    <3> QED
      BY <3>5, <3>6, WholeAlone
  <2>5. ASSUME NEW t \in Turn,
               \/ SendStreamContext(t) \/ RefuseSend(t) \/ PostAnswered(t) \/ ErrorLine(t)
               \/ ReadFails(t) \/ SegmentPanics(t)
        PROVE  WholeInv'
    <3>1. UNCHANGED <<ctx, st, segs>>
      BY <2>5 DEF SendStreamContext, RefuseSend, PostAnswered, ErrorLine, ReadFails, SegmentPanics
    <3>2. \/ goto(t, "post") /\ pc[t] = "send"
          \/ goto(t, "stream") /\ pc[t] = "post"
          \/ goto(t, "failed") \/ goto(t, "panicked")
      BY <2>5 DEF SendStreamContext, RefuseSend, PostAnswered, ErrorLine, ReadFails, SegmentPanics, failed
    <3> QED
      BY <3>1, <3>2, WholeMove DEF Unsent
  <2>6. ASSUME NEW t \in Turn, SilentLine(t)
        PROVE  WholeInv'
    <3>1. ASSUME failed(t, "stream"), UNCHANGED st PROVE WholeInv'
      BY <2>6, <3>1, WholeMove DEF SilentLine, failed
    <3>2. ASSUME st' = [st EXCEPT ![t].lines = @ + 1], UNCHANGED pc PROVE WholeInv'
      <4>1. Others(t) /\ st'[t].content = st[t].content /\ st'[t].buf = st[t].buf
            /\ st'[t].rest = st[t].rest /\ st'[t].final = st[t].final
        BY <2>0, <2>6, <3>2, LineEffect DEF SilentLine, CallTypes
      <4>2. SameText(t) /\ Alone(t) /\ ctx'[t] = ctx[t] /\ pc'[t] = pc[t]
        BY <2>6, <3>2, <4>1 DEF SilentLine, SameText, Alone, Others
      <4>3. WholeAt(t)'
        BY <2>0, <4>2, WholeKept
      <4> QED
        BY <4>2, <4>3, WholeAlone
    <3> QED
      BY <2>6, <3>1, <3>2 DEF SilentLine
  <2>7. ASSUME NEW t \in Turn, NEW text \in Texts, ContentLine(t, text)
        PROVE  WholeInv'
    <3>1. CASE ctx[t] # "live"
      BY <2>7, <3>1, WholeMove DEF ContentLine, failed
    <3>2. CASE ctx[t] = "live"
      <4>1. WholeAt(t)' /\ Others(t) /\ UNCHANGED segs
        BY <2>0, <2>7, <3>2, WholeChunk
      <4>2. Alone(t)
        BY <2>0, <2>7, <3>2, <4>1 DEF ContentLine, Alone, Others, goto, CallTypes
      <4> QED
        BY <4>1, <4>2, WholeAlone
    <3> QED
      BY <3>1, <3>2
  <2>8. ASSUME NEW t \in Turn, FoldByte(t)
        PROVE  WholeInv'
    <3>1. WholeAt(t)'
      BY <2>0, <2>8, WholeByte
    <3>2. Others(t) /\ UNCHANGED ctx
          /\ \/ UNCHANGED <<pc, segs>>
             \/ \E s : segs' = [segs EXCEPT ![t] = s] /\ goto(t, "speak")
      BY <2>0, <2>8, FoldByteEffect DEF FoldByte
    <3>3. Alone(t)
      BY <2>0, <3>2 DEF Alone, Others, goto, CallTypes
    <3> QED
      BY <3>1, <3>3, WholeAlone
  <2>9. ASSUME NEW t \in Turn, StreamEnds(t)
        PROVE  WholeInv'
    <3>1. CASE st[t].content = <<>>
      BY <2>9, <3>1, WholeMove DEF StreamEnds, failed
    <3>2. CASE st[t].content # <<>>
      <4>1. WholeAt(t)' /\ Others(t)
        BY <2>0, <2>9, <3>2, WholeEnd
      <4>2. UNCHANGED ctx /\ \E p : goto(t, p)
        BY <2>9, <3>2 DEF StreamEnds, succeed
      <4>3. UNCHANGED segs \/ \E s : segs' = [segs EXCEPT ![t] = s]
        BY <2>9, <3>2 DEF StreamEnds
      <4>4. Alone(t)
        BY <2>0, <4>1, <4>2, <4>3 DEF Alone, Others, goto, CallTypes
      <4> QED
        BY <4>1, <4>4, WholeAlone
    <3> QED
      BY <3>1, <3>2
  <2>10. ASSUME NEW t \in Turn, Speak(t)
         PROVE  WholeInv'
    BY <2>10, WholeMove DEF Speak, resume, succeed
  <2>11. ASSUME NEW t \in Turn, CancelContext(t) \/ Timeout(t)
         PROVE  WholeInv'
    <3>1. UNCHANGED <<pc, st, segs>> /\ \E c \in {"canceled", "timeout"} : ctx' = [ctx EXCEPT ![t] = c]
      BY <2>11 DEF CancelContext, Timeout
    <3>2. SameText(t) /\ Alone(t) /\ ctx'[t] # "live" /\ pc'[t] = pc[t]
      BY <2>0, <3>1 DEF SameText, Alone, CallTypes
    <3>3. WholeAt(t)'
      BY <2>0, <3>2, WholeKept
    <3> QED
      BY <3>2, <3>3, WholeAlone
  <2>12. ASSUME NEW t \in Turn, RememberAnswer(t) \/ CancelReturns(t)
         PROVE  WholeInv'
    <3>1. PICK how \in {"done", "undone"} : endTurn(t, how)
      BY <2>12 DEF RememberAnswer, CancelReturns
    <3>2. WholeAt(t)' /\ Others(t)
      BY <3>1, WholeOver
    <3>3. Alone(t)
      BY <2>0, <3>1, <3>2 DEF Alone, Others, endTurn, goto, CallTypes
    <3> QED
      BY <3>2, <3>3, WholeAlone
  <2> QED
    BY <2>2, <2>3, <2>4, <2>5, <2>6, <2>7, <2>8, <2>9, <2>10, <2>11, <2>12 DEF Next, CallStep, Upstream
<1> QED
  BY <1>1, <1>2, TypeCorrect, PTL DEF Spec

(***************************************************************************)
(* Nothing of an answer is lost or said twice, for every split of it into  *)
(* chunks, every segment length and every moment a context may end: what   *)
(* was cut and what is buffered make up what arrived, and an answer that   *)
(* is remembered has been handed to speech to its last letter              *)
(* (segmentAccumulator, streamChat).                                       *)
(***************************************************************************)
THEOREM AnswersAreWhole == Spec => []AnswerIsWhole
<1>1. WholeInv => AnswerIsWhole
  BY DEF WholeInv, WholeAt, AnswerIsWhole
<1> QED
  BY <1>1, WholeInvInductive, PTL

----------------------------------------------------------------------------
(* What a step does to memory, the prompt and where the turns are. *)

Sent == {"post", "stream", "fold", "speak", "ok", "failed"}

\* Nothing of it moves.
Idle == UNCHANGED <<history, histMu, prompt, file, pc, window, st, since>>

\* Turn t goes on with its request, or comes back from dropping its clips;
\* memory, the prompt and the other turns are left alone.
Onward(t) ==
    /\ UNCHANGED <<history, histMu, prompt, file>>
    /\ \/ pc[t] \in Sent \cup {"send"} /\ pc'[t] \in Sent \cup {"panicked"}
       \/ pc[t] = "cancel" /\ pc'[t] = "undone"
    /\ pc'[t] = "post" => pc[t] = "send" /\ window'[t] = window[t]
    /\ \A u \in Turn \ {t} : /\ pc'[u] = pc[u] /\ window'[u] = window[u]
                             /\ st'[u] = st[u] /\ since'[u] = since[u]

\* The steps of a request, once its window is built, go onward.
LEMMA RequestOnward ==
    ASSUME TypeOK, NEW t \in Turn,
           \/ RefuseSend(t) \/ SegmentPanics(t) \/ SendStreamContext(t) \/ FoldByte(t) \/ FoldEnds(t)
           \/ Speak(t) \/ CancelReturns(t) \/ Upstream(t)
    PROVE  Onward(t)
<1>0. CallTypes /\ since \in [Turn -> SUBSET Nat]
  BY DEF TypeOK, HostTypes
<1>1. ASSUME NEW p, goto(t, p)
      PROVE  pc'[t] = p /\ \A u \in Turn \ {t} : pc'[u] = pc[u]
  BY <1>0, <1>1 DEF goto, CallTypes
<1>a. ASSUME NEW r, window' = [window EXCEPT ![t] = r]
      PROVE  \A u \in Turn \ {t} : window'[u] = window[u]
  BY <1>0, <1>a DEF CallTypes
<1>b. ASSUME NEW r, st' = [st EXCEPT ![t] = r]
      PROVE  \A u \in Turn \ {t} : st'[u] = st[u]
  BY <1>0, <1>b DEF CallTypes
<1>2. CASE RefuseSend(t) \/ SendStreamContext(t)
  <2>1. /\ UNCHANGED <<history, histMu, prompt, file, window, st>> /\ pc[t] = "send"
        /\ since' = [since EXCEPT ![t] = {}]
        /\ goto(t, "failed") \/ goto(t, "post")
    BY <1>2 DEF RefuseSend, SendStreamContext
  <2> QED
    BY <1>0, <1>1, <2>1 DEF Onward, Sent
<1>3. CASE SegmentPanics(t) \/ FoldEnds(t) \/ Speak(t)
  <2>1. /\ UNCHANGED <<history, histMu, prompt, file, window, st, since>> /\ pc[t] \in {"fold", "speak"}
        /\ \E p \in {"panicked", "stream", "fold", "ok"} : goto(t, p)
    BY <1>3 DEF SegmentPanics, FoldEnds, Speak, resume, succeed, hostVars, callVars
  <2> QED
    BY <1>0, <1>1, <2>1 DEF Onward, Sent
<1>4. CASE FoldByte(t)
  <2>1. Others(t) /\ UNCHANGED <<history, histMu, prompt, file, window, since>> /\ pc[t] = "fold"
    BY <1>0, <1>4, FoldByteEffect DEF FoldByte, hostVars
  <2>2. UNCHANGED pc \/ goto(t, "speak")
    BY <1>4 DEF FoldByte
  <2> QED
    BY <1>1, <2>1, <2>2 DEF Onward, Sent, Others
<1>5. CASE CancelReturns(t)
  <2>1. /\ UNCHANGED <<history, histMu, prompt, file, since>> /\ pc[t] = "cancel" /\ goto(t, "undone")
        /\ window' = [window EXCEPT ![t] = NoWindow] /\ st' = [st EXCEPT ![t] = NoStream]
    BY <1>5 DEF CancelReturns, endTurn, hostVars
  <2> QED
    BY <1>1, <1>a, <1>b, <2>1 DEF Onward
<1>6. CASE PostAnswered(t)
  <2>1. /\ UNCHANGED <<history, histMu, prompt, file, since, st>> /\ pc[t] = "post"
        /\ window' = [window EXCEPT ![t] = NoWindow]
        /\ goto(t, "stream") \/ goto(t, "failed")
    BY <1>6 DEF PostAnswered, failed, hostVars
  <2> QED
    BY <1>1, <1>a, <1>b, <2>1 DEF Onward, Sent
<1>7. CASE ErrorLine(t) \/ ReadFails(t)
  <2>1. /\ UNCHANGED <<history, histMu, prompt, file, since, st, window>> /\ pc[t] = "stream"
        /\ goto(t, "failed")
    BY <1>7 DEF ErrorLine, ReadFails, failed, hostVars
  <2> QED
    BY <1>0, <1>1, <2>1 DEF Onward, Sent
<1>8. CASE SilentLine(t)
  <2>1. /\ UNCHANGED <<history, histMu, prompt, file, since, window>> /\ pc[t] = "stream"
        /\ UNCHANGED pc \/ goto(t, "failed")
        /\ UNCHANGED st \/ \E r : st' = [st EXCEPT ![t] = r]
    BY <1>8 DEF SilentLine, failed, hostVars
  <2> QED
    BY <1>1, <1>a, <1>b, <2>1 DEF Onward, Sent
<1>9. ASSUME NEW text \in Texts, ContentLine(t, text) PROVE Onward(t)
  <2>1. /\ UNCHANGED <<history, histMu, prompt, file, since, window>> /\ pc[t] = "stream"
        /\ goto(t, "fold") \/ goto(t, "failed")
    BY <1>9 DEF ContentLine, failed, hostVars
  <2>2. Others(t)
    <3>1. CASE UNCHANGED st
      BY <3>1 DEF Others
    <3>2. CASE ~UNCHANGED st
      <4>1. st \in [Turn -> Stream] /\ text \in Seq(Letters)
        BY <1>0, DriverConstants DEF CallTypes
      <4>2. st[t].lines < MaxLines
            /\ st' = [st EXCEPT ![t].lines = @ + 1, ![t].content = @ \o text, ![t].rest = text]
        BY <1>9, <3>2 DEF ContentLine
      <4> QED
        BY <4>1, <4>2, ChunkEffect
    <3> QED
      BY <3>1, <3>2
  <2> QED
    BY <1>1, <2>1, <2>2 DEF Onward, Sent, Others
<1>10. CASE StreamEnds(t)
  <2>1. /\ UNCHANGED <<history, histMu, prompt, file, since, window>> /\ pc[t] = "stream"
        /\ \E p \in {"failed", "ok", "speak"} : goto(t, p)
    BY <1>10 DEF StreamEnds, failed, succeed, hostVars
  <2>2. UNCHANGED st \/ \E r : st' = [st EXCEPT ![t] = r]
    BY <1>10 DEF StreamEnds
  <2> QED
    BY <1>1, <1>b, <2>1, <2>2 DEF Onward, Sent
<1> QED
  BY <1>2, <1>3, <1>4, <1>5, <1>6, <1>7, <1>8, <1>9, <1>10 DEF Upstream

\* The steps that matter to memory and to the prompt.
LEMMA StepKinds ==
    ASSUME TypeOK, [Next]_vars
    PROVE  \/ Idle \/ Clear \/ \E unreadable \in BOOLEAN : EditPrompt(unreadable)
           \/ \E t \in Turn : \/ BeginTurn(t) \/ ContextFor(t) \/ StatPrompt(t) \/ ReadPrompt(t)
                              \/ RememberAnswer(t) \/ RollBack(t) \/ Onward(t)
<1>1. CASE UNCHANGED vars \/ SpeakSync \/ SyncEnqueues \/ SyncReturns \/ Worker
  BY <1>1 DEF vars, hostVars, callVars, SpeakSync, SyncEnqueues, SyncReturns, Worker, TakeClip,
              ClipEnds, Idle
<1>2. ASSUME NEW t \in Turn, CancelContext(t) \/ Timeout(t) \/ cancelQueued(t) PROVE Idle
  BY <1>2 DEF CancelContext, Timeout, cancelQueued, hostVars, callVars, Idle
<1> QED
  BY <1>1, <1>2, RequestOnward DEF Next, CallStep

----------------------------------------------------------------------------
(* The system prompt. *)

\* Who is in promptFile.get holds the lock, and nobody else does across steps.
MuInv == \A t \in Turn : pc[t] \in {"stat", "read"} <=> histMu = t

\* What is kept was read no earlier than the mtime it is kept under: when that
\* is still the file's, the text is the file's too.
CacheIsFresh ==
    /\ prompt.loaded => prompt.modt <= file.mtime
    /\ prompt.loaded /\ prompt.modt = file.mtime /\ file.text # 0 => prompt.text = file.text

\* A turn that looks at the file: its text now is one it has held since the look
\* began, the mtime that was seen is not from the future, and the window that
\* came of it is fresh.
LookAt(t) ==
    /\ pc[t] \in {"stat", "read"} => file.text \in since[t]
    /\ pc[t] = "read" => st[t].stat <= file.mtime
    /\ pc[t] = "send" => 0 \in since[t] \/ window[t].prompt \in since[t]

PromptInv == MuInv /\ CacheIsFresh /\ \A t \in Turn : LookAt(t)

\* Turn u is as it was.
Same(u) == pc'[u] = pc[u] /\ window'[u] = window[u] /\ st'[u] = st[u] /\ since'[u] = since[u]

\* A step of one turn that leaves the file alone.
LEMMA PromptStep ==
    ASSUME PromptInv, NEW t \in Turn, UNCHANGED file, \A u \in Turn \ {t} : Same(u),
           pc'[t] \in {"stat", "read"} <=> histMu' = t,
           histMu' \in {histMu, t, None}, histMu \in {t, None} \/ UNCHANGED histMu,
           CacheIsFresh', LookAt(t)'
    PROVE  PromptInv'
<1>1. ASSUME NEW u \in Turn PROVE LookAt(u)'
  <2>1. CASE u = t
    BY <2>1
  <2>2. CASE u # t
    BY <2>2 DEF PromptInv, LookAt, Same
  <2> QED
    BY <2>1, <2>2
<1>2. ASSUME NEW u \in Turn PROVE pc'[u] \in {"stat", "read"} <=> histMu' = u
  <2>1. CASE u = t
    BY <2>1
  <2>2. CASE u # t
    BY <2>2, DriverConstants DEF PromptInv, MuInv, Same
  <2> QED
    BY <2>1, <2>2
<1> QED
  BY <1>1, <1>2 DEF PromptInv, MuInv

\* PromptInv is inductive.
LEMMA PromptInvInductive == Spec => []PromptInv
<1>1. Init => PromptInv
  <2> SUFFICES ASSUME Init PROVE PromptInv
    OBVIOUS
  <2>1. /\ histMu = None /\ pc = [t \in Turn |-> "new"]
        /\ prompt = [loaded |-> FALSE, modt |-> 0, text |-> 0]
    BY DEF Init
  <2> QED
    BY <2>1, DriverConstants DEF PromptInv, MuInv, CacheIsFresh, LookAt
<1>2. TypeOK /\ PromptInv /\ [Next]_vars => PromptInv'
  <2> SUFFICES ASSUME TypeOK, PromptInv, [Next]_vars PROVE PromptInv'
    OBVIOUS
  <2>0. HostTypes /\ CallTypes /\ MuInv /\ CacheIsFresh /\ \A t \in Turn : LookAt(t)
    BY DEF TypeOK, PromptInv
  <2>a. ASSUME NEW t \in Turn, NEW p, goto(t, p)
        PROVE  pc'[t] = p /\ \A u \in Turn \ {t} : pc'[u] = pc[u]
    BY <2>0, <2>a DEF goto, CallTypes
  <2>b. ASSUME UNCHANGED <<prompt, file>> PROVE CacheIsFresh'
    BY <2>0, <2>b DEF CacheIsFresh
  <2>1. CASE Idle
    BY <2>1 DEF Idle, PromptInv, MuInv, CacheIsFresh, LookAt
  <2>2. CASE Clear
    BY <2>2 DEF Clear, callVars, PromptInv, MuInv, CacheIsFresh, LookAt
  <2>3. ASSUME NEW unreadable \in BOOLEAN, EditPrompt(unreadable) PROVE PromptInv'
    <3>1. /\ UNCHANGED <<histMu, prompt, pc, window, st>>
          /\ file'.mtime = file.mtime + 1
          /\ since' = [t \in Turn |-> IF t = histMu THEN since[t] \cup {file'.text} ELSE since[t]]
      BY <2>3 DEF EditPrompt, callVars
    <3>2. file.mtime \in Nat /\ prompt.modt \in Nat /\ \A t \in Turn : st[t].stat \in Nat
      <4>1. file.mtime \in Nat /\ prompt.modt \in Nat
        BY <2>0, DriverConstants DEF HostTypes
      <4>2. \A t \in Turn : st[t].stat \in Nat
        BY <2>0 DEF CallTypes, Stream
      <4> QED
        BY <4>1, <4>2
    <3>3. MuInv'
      BY <2>0, <3>1 DEF MuInv
    <3>4. CacheIsFresh'
      BY <2>0, <3>1, <3>2 DEF CacheIsFresh
    <3>5. ASSUME NEW t \in Turn PROVE LookAt(t)'
      <4>1. CASE histMu = t
        BY <2>0, <3>1, <3>2, <4>1 DEF MuInv, LookAt
      <4>2. CASE histMu # t
        BY <2>0, <3>1, <3>2, <4>2 DEF MuInv, LookAt
      <4> QED
        BY <4>1, <4>2
    <3> QED
      BY <3>3, <3>4, <3>5 DEF PromptInv
  <2>4. ASSUME NEW t \in Turn, Onward(t) PROVE PromptInv'
    <3>1. pc[t] \notin {"stat", "read"} /\ pc'[t] \notin {"stat", "read", "send"}
      BY <2>4 DEF Onward, Sent
    <3>2. histMu # t /\ LookAt(t)'
      BY <2>0, <3>1 DEF MuInv, LookAt
    <3>3. UNCHANGED <<file, histMu, prompt>> /\ \A u \in Turn \ {t} : Same(u)
      BY <2>4 DEF Onward, Same
    <3> QED
      BY <2>b, <3>1, <3>2, <3>3, PromptStep
  <2>5. ASSUME NEW t \in Turn, BeginTurn(t) \/ RollBack(t) \/ RememberAnswer(t) PROVE PromptInv'
    <3>1. /\ pc[t] \in {"new", "failed", "ok"} /\ UNCHANGED <<histMu, prompt, file, since>>
          /\ \E p \in {"context", "cancel", "done"} : goto(t, p)
          /\ \/ UNCHANGED <<window, st>>
             \/ window' = [window EXCEPT ![t] = NoWindow] /\ st' = [st EXCEPT ![t] = NoStream]
      <4>1. CASE BeginTurn(t)
        BY <4>1 DEF BeginTurn, mayBegin, callVars
      <4>2. CASE RollBack(t)
        BY <4>2 DEF RollBack, callVars
      <4>3. CASE RememberAnswer(t)
        BY <4>3 DEF RememberAnswer, endTurn
      <4> QED
        BY <2>5, <4>1, <4>2, <4>3
    <3>2. \A u \in Turn \ {t} : Same(u)
      <4>1. \A u \in Turn \ {t} : window'[u] = window[u] /\ st'[u] = st[u]
        BY <2>0, <3>1 DEF CallTypes
      <4> QED
        BY <2>a, <3>1, <4>1 DEF Same
    <3>3. pc[t] \notin {"stat", "read"} /\ pc'[t] \notin {"stat", "read", "send"}
      BY <2>a, <3>1
    <3>4. histMu # t /\ LookAt(t)'
      BY <2>0, <3>3 DEF MuInv, LookAt
    <3> QED
      BY <2>b, <3>1, <3>2, <3>3, <3>4, PromptStep
  <2>6. ASSUME NEW t \in Turn, ContextFor(t) PROVE PromptInv'
    <3>1. /\ histMu = None /\ histMu' = t /\ UNCHANGED <<prompt, file, window, st>>
          /\ since' = [since EXCEPT ![t] = {file.text}] /\ goto(t, "stat")
      BY <2>6 DEF ContextFor, callVars
    <3>2. since'[t] = {file.text} /\ \A u \in Turn \ {t} : since'[u] = since[u]
      BY <2>0, <3>1 DEF HostTypes
    <3>3. pc'[t] = "stat" /\ \A u \in Turn \ {t} : Same(u)
      BY <2>a, <3>1, <3>2 DEF Same
    <3>4. LookAt(t)'
      BY <3>1, <3>2, <3>3 DEF LookAt
    <3> QED
      BY <2>b, <3>1, <3>3, <3>4, PromptStep
  <2>7. ASSUME NEW t \in Turn, StatPrompt(t) PROVE PromptInv'
    <3>1. pc[t] = "stat" /\ histMu = t /\ file.text \in since[t] /\ UNCHANGED <<prompt, file, since>>
      BY <2>0, <2>7 DEF StatPrompt, MuInv, LookAt
    <3>2. file.mtime \in Nat
      BY <2>0, DriverConstants DEF HostTypes
    <3>3. ASSUME NEW text, assemble(t, text), UNCHANGED st, 0 \in since[t] \/ text \in since[t]
          PROVE  PromptInv'
      <4>1. window'[t].prompt = text /\ \A u \in Turn \ {t} : window'[u] = window[u]
        BY <2>0, <3>3 DEF assemble, CallTypes
      <4>2. pc'[t] = "send" /\ histMu' = None /\ \A u \in Turn \ {t} : Same(u)
        BY <2>a, <3>1, <3>3, <4>1 DEF assemble, Same
      <4>3. LookAt(t)'
        BY <3>1, <3>3, <4>1, <4>2 DEF LookAt
      <4> QED
        BY <2>b, <3>1, <4>2, <4>3, DriverConstants, PromptStep
    <3>4. CASE st' = [st EXCEPT ![t].stat = file.mtime] /\ goto(t, "read") /\ UNCHANGED <<histMu, window>>
      <4>1. Others(t) /\ st'[t].stat = file.mtime
        BY <2>0, <3>2, <3>4, StatEffect DEF CallTypes
      <4>2. pc'[t] = "read" /\ \A u \in Turn \ {t} : Same(u)
        BY <2>a, <3>1, <3>4, <4>1 DEF Others, Same
      <4>3. LookAt(t)'
        BY <3>1, <3>2, <4>1, <4>2 DEF LookAt
      <4> QED
        BY <2>b, <3>1, <3>4, <4>2, <4>3, PromptStep
    <3>5. CASE file.text = 0 /\ assemble(t, fail(prompt)) /\ UNCHANGED st
      BY <3>1, <3>3, <3>5
    <3>6. CASE /\ file.text # 0 /\ prompt.loaded /\ prompt.modt = file.mtime
               /\ assemble(t, prompt.text) /\ UNCHANGED st
      <4>1. prompt.text = file.text
        BY <2>0, <3>6 DEF CacheIsFresh
      <4> QED
        BY <3>1, <3>3, <3>6, <4>1
    <3> QED
      BY <2>7, <3>4, <3>5, <3>6 DEF StatPrompt
  <2>8. ASSUME NEW t \in Turn, ReadPrompt(t) PROVE PromptInv'
    <3>1. /\ pc[t] = "read" /\ histMu = t /\ file.text \in since[t] /\ st[t].stat <= file.mtime
          /\ UNCHANGED <<file, since>>
      BY <2>0, <2>8 DEF ReadPrompt, MuInv, LookAt
    <3>2. /\ prompt' = IF file.text = 0 THEN prompt
                       ELSE [loaded |-> TRUE, modt |-> st[t].stat, text |-> file.text]
          /\ assemble(t, fail(prompt')) /\ st' = [st EXCEPT ![t].stat = 0]
      BY <2>8 DEF ReadPrompt
    <3>3. CacheIsFresh'
      BY <2>0, <3>1, <3>2 DEF CacheIsFresh
    <3>4. 0 \in since[t] \/ fail(prompt') \in since[t]
      BY <3>1, <3>2 DEF fail
    <3>5. window'[t].prompt = fail(prompt') /\ \A u \in Turn \ {t} : window'[u] = window[u]
      BY <2>0, <3>2 DEF assemble, CallTypes
    <3>6. Others(t)
      BY <2>0, <3>2, StatEffect DEF CallTypes
    <3>7. pc'[t] = "send" /\ histMu' = None /\ \A u \in Turn \ {t} : Same(u)
      BY <2>a, <3>1, <3>2, <3>5, <3>6 DEF assemble, Same, Others
    <3>8. LookAt(t)'
      BY <3>1, <3>4, <3>5, <3>7 DEF LookAt
    <3> QED
      BY <3>1, <3>3, <3>7, <3>8, DriverConstants, PromptStep
  <2> QED
    BY <2>1, <2>2, <2>3, <2>4, <2>5, <2>6, <2>7, <2>8, StepKinds
<1> QED
  BY <1>1, <1>2, TypeCorrect, PTL DEF Spec

(***************************************************************************)
(* The prompt a window is sent with was in the file at some moment of the  *)
(* call that built it, or is the last good one while the file cannot be    *)
(* read, for any number of turns and edits and wherever an edit falls      *)
(* between the stat and the read (promptFile.get).                         *)
(***************************************************************************)
THEOREM PromptsAreFresh == Spec => []PromptIsFresh
<1>1. PromptInv => PromptIsFresh
  BY DEF PromptInv, LookAt, PromptIsFresh
<1> QED
  BY <1>1, PromptInvInductive, PTL

----------------------------------------------------------------------------
(* The SpeakSync caller's clip. *)

Queued == \E i \in 1..Len(queue) : queue[i] = Tester

\* While it waits its clip is in one place: queued, once; being rendered; or
\* behind it, with the done channel closed.  Before and after there is none.
OneClip ==
    /\ tester = "wait" => Queued \/ playing = Tester \/ done
    /\ tester # "wait" => ~Queued /\ playing # Tester /\ ~done
    /\ Queued => playing # Tester /\ ~done
    /\ playing = Tester => ~done
    /\ \A i, j \in 1..Len(queue) : queue[i] = Tester /\ queue[j] = Tester => i = j

\* A clip of a turn is queued behind the others.
LEMMA ClipOfTurn ==
    ASSUME TypeOK, OneClip, NEW t \in Turn, enqueue(t), UNCHANGED <<playing, tester, done>>
    PROVE  OneClip'
<1>1. queue \in Seq(Clip) /\ t \in Clip /\ t # Tester
  BY DriverConstants DEF TypeOK, SpeechTypes, Clip
<1>2. /\ Len(queue') = Len(queue) + 1 /\ Len(queue) \in Nat /\ queue'[Len(queue) + 1] = t
      /\ \A i \in 1..Len(queue) : queue'[i] = queue[i]
  BY <1>1, AppendProperties, LenProperties DEF enqueue
<1>3. \A i \in 1..Len(queue') : queue'[i] = Tester => i \in 1..Len(queue) /\ queue[i] = Tester
  BY <1>1, <1>2
<1>4. Queued <=> Queued'
  BY <1>2, <1>3 DEF Queued
<1> QED
  BY <1>3, <1>4 DEF OneClip

\* Taking the first clip out leaves the caller's, if it was another one.
LEMMA ClipTaken ==
    ASSUME TypeOK, OneClip, queue # <<>>, queue' = Tail(queue)
    PROVE  /\ Head(queue) = Tester => Queued /\ ~Queued'
           /\ Head(queue) # Tester => (Queued <=> Queued')
           /\ \A i, j \in 1..Len(queue') : queue'[i] = Tester /\ queue'[j] = Tester => i = j
<1>1. queue \in Seq(Clip)
  BY DEF TypeOK, SpeechTypes
<1>2. /\ Len(queue) \in Nat \ {0} /\ Len(queue') = Len(queue) - 1 /\ Head(queue) = queue[1]
      /\ \A i \in 1..Len(queue') : queue'[i] = queue[i + 1]
  BY <1>1, EmptySeq, HeadTailProperties
<1>3. \A i \in 1..Len(queue') : i + 1 \in 1..Len(queue) /\ i + 1 # 1
  BY <1>2
<1>4. \A k \in 1..Len(queue) \ {1} : k - 1 \in 1..Len(queue') /\ (k - 1) + 1 = k
  BY <1>2
<1>5. \A i, j \in 1..Len(queue) : queue[i] = Tester /\ queue[j] = Tester => i = j
  BY DEF OneClip
<1>6. 1 \in 1..Len(queue)
  BY <1>2
<1>7. \A i, j \in 1..Len(queue') : queue'[i] = Tester /\ queue'[j] = Tester => i = j
  BY <1>2, <1>3, <1>5
<1>8. Head(queue) = Tester => Queued /\ ~Queued'
  BY <1>2, <1>3, <1>5, <1>6 DEF Queued
<1>9. Queued' => Queued
  BY <1>2, <1>3 DEF Queued
<1>10. ASSUME Head(queue) # Tester, Queued PROVE Queued'
  <2>1. PICK k \in 1..Len(queue) : queue[k] = Tester
    BY <1>10 DEF Queued
  <2>2. k \in 1..Len(queue) \ {1}
    BY <1>2, <1>10, <2>1
  <2> QED
    BY <1>2, <1>4, <2>1, <2>2 DEF Queued
<1> QED
  BY <1>7, <1>8, <1>9, <1>10

(***************************************************************************)
(* A SpeakSync caller is never left without a clip to wait for, though the *)
(* worker and any number of cancelQueued calls take clips out at the same  *)
(* time, and its done channel is closed once: whoever has the clip is the  *)
(* only one (speechQueue, cancelQueued).  EveryCallReturns needs it.       *)
(***************************************************************************)
THEOREM WaiterHasOneClip == Spec => []OneClip
<1>1. Init => OneClip
  <2> SUFFICES ASSUME Init PROVE OneClip
    OBVIOUS
  <2>1. queue = <<>> /\ playing = None /\ tester = "idle" /\ done = FALSE
    BY DEF Init
  <2>2. 1..Len(queue) = {}
    BY <2>1, EmptySeq
  <2>3. None # Tester
    BY DriverConstants
  <2> QED
    BY <2>1, <2>2, <2>3 DEF OneClip, Queued
<1>2. TypeOK /\ OneClip /\ [Next]_vars => OneClip'
  <2> SUFFICES ASSUME TypeOK, OneClip, [Next]_vars PROVE OneClip'
    OBVIOUS
  <2>1. ASSUME UNCHANGED speechVars PROVE OneClip'
    BY <2>1 DEF OneClip, Queued, speechVars
  <2>2. CASE UNCHANGED vars \/ Clear \/ (\E unreadable \in BOOLEAN : EditPrompt(unreadable))
    BY <2>1, <2>2 DEF vars, Clear, EditPrompt
  <2>3. ASSUME NEW t \in Turn,
               \/ BeginTurn(t) \/ RefuseSend(t) \/ SegmentPanics(t) \/ CancelContext(t) \/ Timeout(t)
               \/ ContextFor(t) \/ StatPrompt(t) \/ ReadPrompt(t) \/ SendStreamContext(t)
               \/ FoldByte(t) \/ FoldEnds(t) \/ RememberAnswer(t) \/ RollBack(t) \/ CancelReturns(t)
        PROVE  UNCHANGED speechVars
    BY <2>3 DEF BeginTurn, RefuseSend, SegmentPanics, CancelContext, Timeout, ContextFor, StatPrompt,
                ReadPrompt, SendStreamContext, FoldByte, FoldEnds, RememberAnswer, RollBack, CancelReturns
  <2>4. ASSUME NEW t \in Turn, Upstream(t) PROVE UNCHANGED speechVars
    BY <2>4 DEF Upstream, PostAnswered, SilentLine, ErrorLine, ReadFails, StreamEnds, ContentLine
  <2>5. ASSUME NEW t \in Turn, Speak(t) PROVE OneClip'
    <3>1. UNCHANGED <<playing, tester, done>> /\ (UNCHANGED queue \/ enqueue(t))
      BY <2>5 DEF Speak
    <3> QED
      BY <2>1, <3>1, ClipOfTurn DEF speechVars
  <2>6. ASSUME NEW t \in Turn, cancelQueued(t) PROVE OneClip'
    <3>1. /\ queue # <<>> /\ queue' = Tail(queue) /\ UNCHANGED <<playing, tester>>
          /\ done' = IF Head(queue) = Tester THEN TRUE ELSE done
      BY <2>6 DEF cancelQueued, closeDone
    <3> QED
      BY <3>1, ClipTaken DEF OneClip
  <2>7. CASE TakeClip
    <3>1. /\ queue # <<>> /\ queue' = Tail(queue) /\ UNCHANGED <<done, tester>>
          /\ playing = None /\ playing' = Head(queue)
      BY <2>7 DEF TakeClip
    <3> QED
      BY <3>1, ClipTaken, DriverConstants DEF OneClip
  <2>8. CASE ClipEnds
    <3>1. /\ UNCHANGED <<queue, tester>> /\ playing' = None
          /\ done' = IF playing = Tester THEN TRUE ELSE done
      BY <2>8 DEF ClipEnds, closeDone
    <3> QED
      BY <3>1, DriverConstants DEF OneClip, Queued
  <2>9. CASE SpeakSync
    BY <2>9 DEF SpeakSync, OneClip, Queued
  <2>10. CASE SyncReturns
    BY <2>10 DEF SyncReturns, OneClip, Queued
  <2>11. CASE SyncEnqueues
    <3>1. /\ tester = "enqueue" /\ tester' = "wait" /\ UNCHANGED <<playing, done>>
          /\ queue' = Append(queue, Tester)
      BY <2>11 DEF SyncEnqueues, enqueue
    <3>2. queue \in Seq(Clip) /\ Tester \in Clip
      BY DEF TypeOK, SpeechTypes, Clip
    <3>3. /\ Len(queue') = Len(queue) + 1 /\ Len(queue) \in Nat /\ queue'[Len(queue) + 1] = Tester
          /\ \A i \in 1..Len(queue) : queue'[i] = queue[i]
      BY <3>1, <3>2, AppendProperties, LenProperties
    <3>4. ~Queued /\ playing # Tester /\ ~done
      BY <3>1 DEF OneClip
    <3>5. \A i \in 1..Len(queue') : queue'[i] = Tester => i = Len(queue) + 1
      BY <3>3, <3>4 DEF Queued
    <3>6. Queued'
      BY <3>3 DEF Queued
    <3> QED
      BY <3>1, <3>4, <3>5, <3>6 DEF OneClip
  <2> QED
    BY <2>1, <2>2, <2>3, <2>4, <2>5, <2>6, <2>7, <2>8, <2>9, <2>10, <2>11
       DEF Next, CallStep, Worker
<1> QED
  BY <1>1, <1>2, TypeCorrect, PTL DEF Spec
============================================================================
