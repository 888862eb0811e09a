--------------------------- MODULE SequenceFacts ---------------------------
(***************************************************************************)
(* Facts about sequences that the proofs of this project share: how the    *)
(* pieces of a log are put together, and how they are cut.                 *)
(***************************************************************************)
EXTENDS Integers, Sequences, SequencesExt, SequenceTheorems, WellFoundedInduction, TLAPS

\* Two pieces over one set are a piece over that set.
LEMMA Joined ==
  ASSUME NEW S, NEW a \in Seq(S), NEW b \in Seq(S)
  PROVE  a \o b \in Seq(S)
BY ConcatProperties

\* What is where in them.
LEMMA Places ==
  ASSUME NEW S, NEW a \in Seq(S), NEW b \in Seq(S), NEW n, NEW m,
         n = Len(a), m = Len(b)
  PROVE  /\ n \in Nat /\ m \in Nat /\ a \o b \in Seq(S) /\ Len(a \o b) = n + m
         /\ \A i \in 1 .. n + m : (a \o b)[i] = IF i <= n THEN a[i] ELSE b[i - n]
BY ConcatProperties, LenProperties

\* Behind the first piece is the second.
LEMMA Behind ==
  ASSUME NEW S, NEW a \in Seq(S), NEW b \in Seq(S), NEW j \in 1 .. Len(b)
  PROVE  (a \o b)[Len(a) + j] = b[j]
<1>1. PICK n \in Nat, m \in Nat : n = Len(a) /\ m = Len(b)
  BY LenProperties
<1>2. \A i \in 1 .. n + m : (a \o b)[i] = IF i <= n THEN a[i] ELSE b[i - n]
  BY <1>1, ConcatProperties
<1>3. PICK i \in 1 .. n + m : i = n + j
  BY <1>1
<1>4. (a \o b)[i] = IF i <= n THEN a[i] ELSE b[i - n]
  BY <1>2
<1>5. ~(i <= n) /\ i - n = j
  BY <1>1, <1>3
<1> QED
  BY <1>1, <1>3, <1>4, <1>5

\* A function on 1 .. n is a sequence.
LEMMA FunctionIsSeq ==
  ASSUME NEW S, NEW n \in Nat, NEW f \in [1 .. n -> S]
  PROVE  f \in Seq(S) /\ Len(f) = n
OBVIOUS

\* The same as an operator of its own, so that a proof can reason about where
\* the pieces are without looking into them.
Joint(a, b) == a \o b

LEMMA JointTyped ==
  ASSUME NEW S
  PROVE  \A a, b \in Seq(S) : Joint(a, b) \in Seq(S)
BY Joined DEF Joint

\* It does not matter which pieces are put together first.
LEMMA JointAssociative ==
  ASSUME NEW S
  PROVE  \A a, b, c \in Seq(S) : Joint(Joint(a, b), c) = Joint(a, Joint(b, c))
<1> SUFFICES ASSUME NEW a \in Seq(S), NEW b \in Seq(S), NEW c \in Seq(S)
             PROVE  a \o b \o c = a \o (b \o c)
  BY DEF Joint
<1> QED
  BY ConcatAssociative

LEMMA Regrouped ==
  ASSUME NEW S, NEW a \in Seq(S), NEW b \in Seq(S), NEW c \in Seq(S)
  PROVE  a \o b \o c = a \o (b \o c)
BY JointAssociative DEF Joint

\* A sequence that is not empty is its head followed by its tail.
LEMMA HeadThenTail ==
  ASSUME NEW S, NEW s \in Seq(S), s # <<>>
  PROVE  /\ Head(s) \in S /\ Tail(s) \in Seq(S) /\ <<Head(s)>> \in Seq(S)
         /\ s = <<Head(s)>> \o Tail(s)
<1>1. Head(s) \in S /\ Tail(s) \in Seq(S)
  BY HeadTailProperties
<1>2. <<Head(s)>> \in Seq(S)
  BY <1>1
<1>3. 1 \in 1 .. Len(s) /\ Len(s) \in 1 .. Len(s)
  BY EmptySeq, LenProperties
<1>4. SubSeq(s, 1, Len(s)) = <<s[1]>> \o SubSeq(s, 1 + 1, Len(s))
  BY <1>3, SubSeqRecursiveFirst
<1>5. SubSeq(s, 1, Len(s)) = s
  BY SubSeqFull
<1>6. Tail(s) = SubSeq(s, 1 + 1, Len(s))
  BY TailIsSubSeq
<1>7. Head(s) = s[1]
  OBVIOUS
<1> QED
  BY <1>1, <1>2, <1>4, <1>5, <1>6, <1>7, Zenon

\* A sequence cut in two is its first part followed by the second.
LEMMA CutInTwo ==
  ASSUME NEW S, NEW x \in Seq(S), NEW n \in 0 .. Len(x)
  PROVE  /\ SubSeq(x, 1, n) \in Seq(S) /\ SubSeq(x, n + 1, Len(x)) \in Seq(S)
         /\ SubSeq(x, 1, n) \o SubSeq(x, n + 1, Len(x)) = x
<1>1. Len(x) \in Nat /\ n \in Int
  BY LenProperties
<1>2. \A i \in 1 .. n : x[i] \in S
  BY <1>1, ElementOfSeq
<1>3. SubSeq(x, 1, n) \in Seq(S)
  BY <1>1, <1>2, SubSeqProperties
<1>4. \A i \in n + 1 .. Len(x) : x[i] \in S
  BY <1>1, ElementOfSeq
<1>5. n + 1 \in Int /\ Len(x) \in Int
  BY <1>1
<1>6. SubSeq(x, n + 1, Len(x)) \in Seq(S)
  BY <1>4, <1>5, SubSeqProperties
<1>7. /\ 1 \in 1 .. Len(x) + 1
      /\ n \in 1 - 1 .. Len(x) /\ Len(x) \in n .. Len(x)
  BY <1>1
<1>8. SubSeq(x, 1, n) \o SubSeq(x, n + 1, Len(x)) = SubSeq(x, 1, Len(x))
  BY <1>7, ConcatAdjacentSubSeq
<1>9. SubSeq(x, 1, Len(x)) = x
  BY SubSeqFull
<1> QED
  BY <1>3, <1>6, <1>8, <1>9, Zenon

\* A middle piece that is two: the second may be put with what follows.
LEMMA JointSplit ==
  ASSUME NEW S
  PROVE  \A a, b, c, d \in Seq(S) :
            Joint(Joint(a, Joint(b, c)), d) = Joint(Joint(a, b), Joint(c, d))
<1> SUFFICES ASSUME NEW a \in Seq(S), NEW b \in Seq(S), NEW c \in Seq(S), NEW d \in Seq(S)
             PROVE  Joint(Joint(a, Joint(b, c)), d) = Joint(Joint(a, b), Joint(c, d))
  OBVIOUS
<1>1. Joint(Joint(a, b), c) = Joint(a, Joint(b, c))
  BY JointAssociative
<1>2. Joint(a, b) \in Seq(S)
  BY JointTyped
<1>3. Joint(Joint(Joint(a, b), c), d) = Joint(Joint(a, b), Joint(c, d))
  BY <1>2, JointAssociative
<1> QED
  BY <1>1, <1>3

\* Cutting a middle piece in two leaves a beginning and a rest.
LEMMA CutPiece ==
  ASSUME NEW S, NEW a \in Seq(S), NEW x \in Seq(S), NEW t \in Seq(S),
         NEW n \in 0 .. Len(x)
  PROVE  \E rest \in Seq(S) :
            Joint(Joint(a, x), t) = Joint(Joint(a, SubSeq(x, 1, n)), rest)
<1> DEFINE first == SubSeq(x, 1, n)
           second == SubSeq(x, n + 1, Len(x))
<1>1. first \in Seq(S) /\ second \in Seq(S)
  BY CutInTwo
<1>2. Joint(first, second) = x
  BY CutInTwo DEF Joint
<1> HIDE DEF first, second
<1>3. Joint(Joint(a, Joint(first, second)), t) = Joint(Joint(a, first), Joint(second, t))
  BY <1>1, JointSplit
<1>4. Joint(second, t) \in Seq(S)
  BY <1>1, JointTyped
<1>5. \E rest \in Seq(S) : Joint(Joint(a, x), t) = Joint(Joint(a, first), rest)
  BY <1>2, <1>3, <1>4
<1> QED
  BY <1>5 DEF first

-----------------------------------------------------------------------------
(* Induction on natural numbers.  NaturalsInduction states it for a        *)
(* predicate, this is the same for a set.                                  *)

LEMMA LessIsWellFounded == IsWellFoundedOn({p \in Nat \X Nat : p[1] < p[2]}, Nat)
BY NatLessThanWellFounded DEF OpToRel

LEMMA LeastElement ==
  ASSUME NEW T \in SUBSET Nat, T # {}
  PROVE  \E n \in T : \A m \in T : ~(m < n)
<1> DEFINE R == {p \in Nat \X Nat : p[1] < p[2]}
<1>1. IsWellFoundedOn(R, Nat)
  BY LessIsWellFounded
<1>2. \A m, n \in Nat : m < n => <<m, n>> \in R
  OBVIOUS
<1> HIDE DEF R
<1>3. \E n \in T : \A m \in T : <<m, n>> \notin R
  BY <1>1, WFMin
<1> QED
  BY <1>2, <1>3

LEMMA Induction ==
  ASSUME NEW T \in SUBSET Nat, 0 \in T, \A n \in T : n + 1 \in T
  PROVE  T = Nat
<1>1. SUFFICES ASSUME Nat \ T # {} PROVE FALSE
  OBVIOUS
<1>2. PICK n \in Nat \ T : \A m \in Nat \ T : ~(m < n)
  BY <1>1, LeastElement
<1>3. n # 0 /\ n - 1 \in Nat /\ n - 1 < n
  BY <1>2
<1>4. n - 1 \in T
  BY <1>2, <1>3
<1> QED
  BY <1>2, <1>4

-----------------------------------------------------------------------------
(* FlattenSeq is a recursive function; these facts say what it returns.    *)

Sums(f, seqs, n) ==
  f = [i \in 1 .. n |-> IF i = 1 THEN seqs[i] ELSE f[i - 1] \o seqs[i]]

LEMMA FlattenIsSum ==
  ASSUME NEW seqs, Len(seqs) # 0
  PROVE  FlattenSeq(seqs) = (CHOOSE f : Sums(f, seqs, Len(seqs)))[Len(seqs)]
BY DEF FlattenSeq, Sums

LEMMA SumsExtend ==
  ASSUME NEW S, NEW seqs, NEW n \in Nat, NEW f \in [1 .. n -> Seq(S)],
         Sums(f, seqs, n), \A i \in 1 .. n + 1 : seqs[i] \in Seq(S)
  PROVE  \E g \in [1 .. n + 1 -> Seq(S)] : Sums(g, seqs, n + 1)
<1> DEFINE new == IF n = 0 THEN seqs[1] ELSE f[n] \o seqs[n + 1]
           g == [i \in 1 .. n + 1 |-> IF i = n + 1 THEN new ELSE f[i]]
<1>1. new \in Seq(S)
  <2>1. CASE n = 0
    BY <2>1
  <2>2. CASE n # 0
    <3>1. f[n] \in Seq(S) /\ seqs[n + 1] \in Seq(S)
      BY <2>2
    <3> QED
      BY <2>2, <3>1, Joined
  <2> QED
    BY <2>1, <2>2
<1>2. \A i \in 1 .. n : f[i] = IF i = 1 THEN seqs[i] ELSE f[i - 1] \o seqs[i]
  BY DEF Sums
<1>3. new = IF n + 1 = 1 THEN seqs[n + 1] ELSE f[n + 1 - 1] \o seqs[n + 1]
  OBVIOUS
<1> HIDE DEF new
<1>4. g \in [1 .. n + 1 -> Seq(S)]
  BY <1>1
<1>5. \A i \in 1 .. n : g[i] = f[i]
  OBVIOUS
<1>6. g[n + 1] = new
  OBVIOUS
<1>7. g = [i \in 1 .. n + 1 |-> g[i]]
  BY <1>4
<1> HIDE DEF g
<1>8. \A i \in 1 .. n + 1 : g[i] = IF i = 1 THEN seqs[i] ELSE g[i - 1] \o seqs[i]
  <2> SUFFICES ASSUME NEW i \in 1 .. n + 1
               PROVE  g[i] = IF i = 1 THEN seqs[i] ELSE g[i - 1] \o seqs[i]
    OBVIOUS
  <2>1. i # 1 => i - 1 \in 1 .. n
    OBVIOUS
  <2>2. i # 1 => g[i - 1] = f[i - 1]
    BY <1>5, <2>1
  <2>3. CASE i \in 1 .. n
    BY <1>2, <1>5, <2>2, <2>3
  <2>4. CASE i = n + 1
    BY <1>3, <1>6, <2>2, <2>4
  <2> QED
    BY <2>3, <2>4
<1>9. g = [i \in 1 .. n + 1 |-> IF i = 1 THEN seqs[i] ELSE g[i - 1] \o seqs[i]]
  BY <1>7, <1>8, Zenon
<1> QED
  BY <1>4, <1>9 DEF Sums

LEMMA SumsExist ==
  ASSUME NEW S, NEW seqs \in Seq(Seq(S))
  PROVE  \E f \in [1 .. Len(seqs) -> Seq(S)] : Sums(f, seqs, Len(seqs))
<1> DEFINE T == {n \in Nat : n <= Len(seqs) =>
                               \E f \in [1 .. n -> Seq(S)] : Sums(f, seqs, n)}
<1>0. Len(seqs) \in Nat /\ \A i \in 1 .. Len(seqs) : seqs[i] \in Seq(S)
  BY LenProperties, ElementOfSeq
<1>1. 0 \in T
  <2> DEFINE f == [i \in 1 .. 0 |-> <<>>]
  <2>1. f \in [1 .. 0 -> Seq(S)] /\ Sums(f, seqs, 0)
    BY DEF Sums
  <2> QED
    BY <2>1
<1>2. ASSUME NEW n \in T PROVE n + 1 \in T
  <2>1. SUFFICES ASSUME n + 1 <= Len(seqs)
                 PROVE  \E g \in [1 .. n + 1 -> Seq(S)] : Sums(g, seqs, n + 1)
    BY <1>2
  <2>2. n \in Nat /\ n <= Len(seqs)
    BY <1>0, <1>2, <2>1
  <2>3. PICK f \in [1 .. n -> Seq(S)] : Sums(f, seqs, n)
    BY <1>2, <2>2
  <2>4. \A i \in 1 .. n + 1 : seqs[i] \in Seq(S)
    BY <1>0, <2>1, <2>2
  <2> QED
    BY <2>2, <2>3, <2>4, SumsExtend
<1> HIDE DEF T
<1>3. T \in SUBSET Nat
  BY DEF T
<1>4. T = Nat
  BY <1>1, <1>2, <1>3, Induction
<1> QED
  BY <1>0, <1>4 DEF T

\* The sums of the same pieces are the same.
LEMMA SumsAgree ==
  ASSUME NEW f, NEW g, NEW a, NEW b, NEW n \in Nat, NEW m \in Nat, n <= m,
         Sums(f, a, n), Sums(g, b, m), \A i \in 1 .. n : a[i] = b[i]
  PROVE  \A i \in 1 .. n : f[i] = g[i]
<1>1. \A i \in 1 .. n : f[i] = IF i = 1 THEN a[i] ELSE f[i - 1] \o a[i]
  BY DEF Sums
<1>2. \A i \in 1 .. n : g[i] = IF i = 1 THEN b[i] ELSE g[i - 1] \o b[i]
  <2>1. \A i \in 1 .. m : g[i] = IF i = 1 THEN b[i] ELSE g[i - 1] \o b[i]
    BY DEF Sums
  <2> QED
    BY <2>1
<1> DEFINE T == {i \in Nat : i \in 1 .. n => f[i] = g[i]}
<1>3. 0 \in T
  OBVIOUS
<1>4. ASSUME NEW i \in T PROVE i + 1 \in T
  <2> SUFFICES ASSUME i + 1 \in 1 .. n PROVE f[i + 1] = g[i + 1]
    OBVIOUS
  <2>1. i + 1 # 1 => f[i + 1 - 1] = g[i + 1 - 1]
    BY <1>4
  <2> QED
    BY <1>1, <1>2, <2>1
<1> HIDE DEF T
<1>5. T = Nat
  BY <1>3, <1>4, Induction DEF T
<1> QED
  BY <1>5 DEF T

LEMMA FlattenEmpty == FlattenSeq(<<>>) = <<>>
BY DEF FlattenSeq

LEMMA FlattenTyped ==
  ASSUME NEW S, NEW seqs \in Seq(Seq(S))
  PROVE  FlattenSeq(seqs) \in Seq(S)
<1>1. CASE Len(seqs) = 0
  BY <1>1, EmptySeq, FlattenEmpty
<1>2. CASE Len(seqs) # 0
  <2>1. PICK f \in [1 .. Len(seqs) -> Seq(S)] : Sums(f, seqs, Len(seqs))
    BY SumsExist
  <2> DEFINE g == CHOOSE h : Sums(h, seqs, Len(seqs))
  <2>2. Sums(g, seqs, Len(seqs))
    BY <2>1
  <2>3. FlattenSeq(seqs) = g[Len(seqs)]
    BY <1>2, FlattenIsSum
  <2> HIDE DEF g
  <2>4. Len(seqs) \in Nat /\ Len(seqs) \in 1 .. Len(seqs)
    BY <1>2, LenProperties
  <2>5. f[Len(seqs)] = g[Len(seqs)]
    BY <2>1, <2>2, <2>4, SumsAgree
  <2> QED
    BY <2>3, <2>4, <2>5
<1> QED
  BY <1>1, <1>2

LEMMA FlattenAppend ==
  ASSUME NEW S, NEW seqs \in Seq(Seq(S)), NEW x \in Seq(S)
  PROVE  FlattenSeq(Append(seqs, x)) = FlattenSeq(seqs) \o x
<1>1. PICK more : more = Append(seqs, x)
  OBVIOUS
<1>2. PICK n : n = Len(seqs)
  OBVIOUS
<1>3. /\ n \in Nat /\ more \in Seq(Seq(S)) /\ Len(more) = n + 1 /\ more[n + 1] = x
      /\ \A i \in 1 .. n : seqs[i] = more[i]
  BY <1>1, <1>2, AppendProperties, LenProperties
<1>4. PICK g : g = CHOOSE h : Sums(h, more, Len(more))
  OBVIOUS
<1>5. PICK f : f = CHOOSE h : Sums(h, seqs, Len(seqs))
  OBVIOUS
<1>6. Sums(g, more, n + 1)
  <2>1. \E h : Sums(h, more, Len(more))
    BY <1>3, SumsExist
  <2>2. Sums(g, more, Len(more))
    BY <1>4, <2>1
  <2> QED
    BY <1>3, <2>2
<1>7. FlattenSeq(more) = g[n + 1]
  BY <1>3, <1>4, FlattenIsSum
<1>8. Sums(f, seqs, n)
  <2>1. \E h : Sums(h, seqs, Len(seqs))
    BY SumsExist
  <2> QED
    BY <1>2, <1>5, <2>1
<1>9. n # 0 => FlattenSeq(seqs) = f[n]
  BY <1>2, <1>5, FlattenIsSum
<1>10. g[n + 1] = IF n = 0 THEN x ELSE g[n] \o x
  <2>1. \A i \in 1 .. n + 1 : g[i] = IF i = 1 THEN more[i] ELSE g[i - 1] \o more[i]
    BY <1>6 DEF Sums
  <2>2. n + 1 \in 1 .. n + 1 /\ n + 1 - 1 = n /\ (n + 1 = 1 <=> n = 0)
    BY <1>3
  <2> QED
    BY <1>3, <2>1, <2>2
<1>11. CASE n = 0
  <2>1. FlattenSeq(seqs) = <<>>
    BY <1>2, <1>11, EmptySeq, FlattenEmpty
  <2> QED
    BY <1>1, <1>7, <1>10, <1>11, <2>1, ConcatEmptySeq
<1>12. CASE n # 0
  <2>1. \A i \in 1 .. n : f[i] = g[i]
    <3>1. n \in Nat /\ n + 1 \in Nat /\ n <= n + 1
      BY <1>3
    <3>2. \A i \in 1 .. n : seqs[i] = more[i]
      BY <1>3
    <3>3. \A m \in Nat : n <= m /\ Sums(g, more, m) => \A i \in 1 .. n : f[i] = g[i]
      BY <1>8, <3>1, <3>2, SumsAgree
    <3> QED
      BY <1>6, <3>1, <3>3
  <2>2. f[n] = g[n]
    <3>1. n \in 1 .. n
      BY <1>3, <1>12
    <3> QED
      BY <2>1, <3>1, Zenon
  <2> QED
    BY <1>1, <1>7, <1>9, <1>10, <1>12, <2>2
<1> QED
  BY <1>11, <1>12

LEMMA FlattenConcatAppend ==
  ASSUME NEW S
  PROVE  \A a, d \in Seq(Seq(S)), x \in Seq(S) :
           FlattenSeq(a \o d) = FlattenSeq(a) \o FlattenSeq(d) =>
             FlattenSeq(a \o Append(d, x)) = FlattenSeq(a) \o FlattenSeq(Append(d, x))
<1> SUFFICES ASSUME NEW a \in Seq(Seq(S)), NEW d \in Seq(Seq(S)), NEW x \in Seq(S),
                    FlattenSeq(a \o d) = FlattenSeq(a) \o FlattenSeq(d)
             PROVE  FlattenSeq(a \o Append(d, x)) = FlattenSeq(a) \o FlattenSeq(Append(d, x))
  OBVIOUS
<1>1. a \o d \in Seq(Seq(S)) /\ <<x>> \in Seq(Seq(S))
  <2>1. <<x>> \in Seq(Seq(S))
    OBVIOUS
  <2> QED
    BY <2>1, Joined, Zenon
<1>2. a \o Append(d, x) = Append(a \o d, x)
  <2>1. Append(d, x) = d \o <<x>>
    BY AppendIsConcat, Zenon
  <2>2. Append(a \o d, x) = a \o d \o <<x>>
    BY <1>1, AppendIsConcat, Zenon
  <2>3. a \o d \o <<x>> = a \o (d \o <<x>>)
    <3>1. \A W : \A p, q, r \in Seq(W) : p \o q \o r = p \o (q \o r)
      BY Regrouped
    <3> QED
      BY <1>1, <3>1
  <2> QED
    BY <2>1, <2>2, <2>3, Zenon
<1>3. FlattenSeq(Append(a \o d, x)) = FlattenSeq(a \o d) \o x
  BY <1>1, FlattenAppend, Zenon
<1>4. FlattenSeq(Append(d, x)) = FlattenSeq(d) \o x
  BY FlattenAppend, Zenon
<1>5. FlattenSeq(a) \in Seq(S) /\ FlattenSeq(d) \in Seq(S)
  BY FlattenTyped, Zenon
<1>6. FlattenSeq(a) \o FlattenSeq(d) \o x = FlattenSeq(a) \o (FlattenSeq(d) \o x)
  BY <1>5, Regrouped
<1> QED
  BY <1>2, <1>3, <1>4, <1>6, Zenon

LEMMA FlattenConcat ==
  ASSUME NEW S, NEW a \in Seq(Seq(S)), NEW b \in Seq(Seq(S))
  PROVE  FlattenSeq(a \o b) = FlattenSeq(a) \o FlattenSeq(b)
<1> DEFINE P(c) == FlattenSeq(a \o c) = FlattenSeq(a) \o FlattenSeq(c)
           T == {n \in Nat : \A c \in Seq(Seq(S)) : Len(c) = n => P(c)}
<1>1. FlattenSeq(a) \in Seq(S)
  BY FlattenTyped
<1>2. 0 \in T
  <2> SUFFICES ASSUME NEW c \in Seq(Seq(S)), Len(c) = 0 PROVE P(c)
    OBVIOUS
  <2>1. c = <<>>
    BY EmptySeq
  <2> QED
    BY <1>1, <2>1, FlattenEmpty, ConcatEmptySeq
<1>3. ASSUME NEW n \in T PROVE n + 1 \in T
  <2>1. n \in Nat /\ \A c \in Seq(Seq(S)) : Len(c) = n => P(c)
    BY <1>3
  <2> SUFFICES ASSUME NEW c \in Seq(Seq(S)), Len(c) = n + 1 PROVE P(c)
    BY <2>1
  <2>2. c # <<>>
    BY <2>1
  <2>3. PICK d \in Seq(Seq(S)), x \in Seq(S) : c = Append(d, x)
    BY <2>2, SequenceEmptyOrAppend, Zenon
  <2>4. Len(d) = n
    <3>1. Len(c) = Len(d) + 1 /\ Len(d) \in Nat
      BY <2>3, AppendProperties, LenProperties
    <3> QED
      BY <2>1, <3>1
  <2>5. FlattenSeq(a \o d) = FlattenSeq(a) \o FlattenSeq(d)
    BY <2>1, <2>4
  <2> HIDE DEF P
  <2> QED
    <3>1. FlattenSeq(a \o Append(d, x)) = FlattenSeq(a) \o FlattenSeq(Append(d, x))
      BY <2>5, FlattenConcatAppend, Zenon
    <3> QED
      BY <2>3, <3>1 DEF P
<1> HIDE DEF T
<1>4. T \in SUBSET Nat
  BY DEF T
<1>5. T = Nat
  BY <1>2, <1>3, <1>4, Induction
<1> QED
  BY <1>5, LenProperties DEF T

-----------------------------------------------------------------------------
(* Beginnings *)

\* One more element leaves the first ones where they are.
LEMMA FirstOnes ==
  ASSUME NEW S, NEW s \in Seq(S), NEW e \in S, NEW n \in 0 .. Len(s)
  PROVE  SubSeq(Append(s, e), 1, n) = SubSeq(s, 1, n)
<1>1. CASE n = 0
  BY <1>1, SubSeqEmpty
<1>2. CASE n # 0
  <2>1. Append(s, e) = s \o <<e>> /\ <<e>> \in Seq(S)
    BY AppendIsConcat
  <2>2. 1 \in 1 .. Len(s) /\ n \in 1 .. Len(s)
    BY <1>2, LenProperties
  <2> QED
    BY <2>1, <2>2, SubSeqOfConcat1
<1> QED
  BY <1>1, <1>2

LEMMA FirstOnesLength ==
  ASSUME NEW S, NEW s \in Seq(S), NEW n \in 0 .. Len(s)
  PROVE  Len(SubSeq(s, 1, n)) = n
<1>1. Len(s) \in Nat
  BY LenProperties
<1>2. 1 \in Int /\ n \in Int /\ \A i \in 1 .. n : s[i] \in S
  BY <1>1, ElementOfSeq
<1>3. Len(SubSeq(s, 1, n)) = IF 1 <= n THEN n - 1 + 1 ELSE 0
  BY <1>2, SubSeqProperties
<1>4. (IF 1 <= n THEN n - 1 + 1 ELSE 0) = n
  BY <1>1
<1> QED
  BY <1>3, <1>4

\* The longest common beginning of two sequences is a beginning of the second,
\* no longer than the first, and no common beginning is longer.
LEMMA LongestCommon ==
  ASSUME NEW S, NEW a \in Seq(S), NEW b \in Seq(S)
  PROVE  \E m \in 0 .. Len(b) :
           /\ m <= Len(a)
           /\ LongestCommonPrefix({a, b}) = SubSeq(b, 1, m)
           /\ \A k \in 0 .. Len(b) : IsPrefix(SubSeq(b, 1, k), a) => k <= m
<1> DEFINE C == CommonPrefixes({a, b})
<1>1. Len(a) \in Nat /\ Len(b) \in Nat
  BY LenProperties
<1>2. ASSUME NEW c \in C
      PROVE  /\ Len(c) \in 0 .. Len(b) /\ Len(c) <= Len(a)
             /\ c = SubSeq(b, 1, Len(c))
  <2>1. IsPrefix(c, a) /\ IsPrefix(c, b)
    BY <1>2 DEF CommonPrefixes
  <2>2. c \in Prefixes(a) \/ c \in Prefixes(b)
    BY <1>2 DEF CommonPrefixes
  <2>3. c \in Seq(S)
    <3>1. \A s \in Seq(S) : \A n \in 0 .. Len(s) : SubSeq(s, 1, n) \in Seq(S)
      BY CutInTwo
    <3> QED
      BY <2>2, <3>1 DEF Prefixes
  <2>4. SubSeq(c, 1, Len(c)) = c /\ Len(c) \in Nat
    BY <2>3, SubSeqFull, LenProperties
  <2> QED
    BY <1>1, <2>1, <2>4 DEF IsPrefix
<1>3. ASSUME NEW k \in 0 .. Len(b), IsPrefix(SubSeq(b, 1, k), a)
      PROVE  SubSeq(b, 1, k) \in C /\ Len(SubSeq(b, 1, k)) = k
  <2>1. PICK c : c = SubSeq(b, 1, k)
    OBVIOUS
  <2>2. c \in Seq(S) /\ Len(c) = k
    <3>1. c \in Seq(S)
      BY <2>1, CutInTwo
    <3>2. \A i \in 1 .. k : b[i] \in S
      BY <1>1, ElementOfSeq
    <3>3. 1 \in Int /\ k \in Int
      BY <1>1
    <3>4. Len(SubSeq(b, 1, k)) = IF 1 <= k THEN k - 1 + 1 ELSE 0
      BY <3>2, <3>3, SubSeqProperties
    <3>5. (IF 1 <= k THEN k - 1 + 1 ELSE 0) = k
      BY <1>1
    <3> QED
      BY <2>1, <3>1, <3>4, <3>5
  <2>3. IsPrefix(c, b)
    <3>1. SubSeq(c, 1, k) = c
      BY <2>2, SubSeqFull
    <3> QED
      BY <1>1, <2>1, <2>2, <3>1 DEF IsPrefix
  <2>4. c \in Prefixes(b)
    BY <2>1 DEF Prefixes
  <2>5. c \in C
    BY <1>3, <2>1, <2>3, <2>4 DEF CommonPrefixes
  <2> QED
    BY <2>1, <2>2, <2>5
<1>4. C # {}
  <2>1. SubSeq(b, 1, 0) = <<>> /\ SubSeq(a, 1, 0) = <<>> /\ Len(<<>>) = 0
    BY SubSeqEmpty
  <2>2. IsPrefix(SubSeq(b, 1, 0), a)
    BY <1>1, <2>1, SubSeqEmpty DEF IsPrefix
  <2>3. 0 \in 0 .. Len(b)
    BY <1>1
  <2>4. SubSeq(b, 1, 0) \in C
    BY <1>3, <2>2, <2>3
  <2> QED
    BY <2>4
<1> HIDE DEF C
<1> DEFINE T == {Len(b) - Len(c) : c \in C}
<1>5. T \in SUBSET Nat /\ T # {}
  BY <1>1, <1>2, <1>4
<1>6. PICK n \in T : \A i \in T : ~(i < n)
  BY <1>5, LeastElement
<1>7. PICK top \in C : n = Len(b) - Len(top)
  BY <1>6
<1>8. \A c \in C : Len(c) <= Len(top)
  <2> SUFFICES ASSUME NEW c \in C PROVE Len(c) <= Len(top)
    OBVIOUS
  <2>1. PICK i : i = Len(b) - Len(c)
    OBVIOUS
  <2>2. i \in T
    BY <2>1
  <2>3. ~(i < n)
    BY <1>6, <2>2
  <2>4. Len(c) \in 0 .. Len(b) /\ Len(top) \in 0 .. Len(b)
    BY <1>2
  <2> QED
    BY <1>1, <1>7, <2>1, <2>3, <2>4
<1>9. /\ LongestCommonPrefix({a, b}) \in C
      /\ \A c \in C : Len(c) <= Len(LongestCommonPrefix({a, b}))
  <2> DEFINE Top(c) == \A other \in C : Len(other) <= Len(c)
  <2>1. \E c \in C : Top(c)
    BY <1>8
  <2>2. LongestCommonPrefix({a, b}) = CHOOSE c \in C : Top(c)
    BY DEF LongestCommonPrefix, C
  <2> QED
    BY <2>1, <2>2
<1> QED
  <2>1. PICK m : m = Len(LongestCommonPrefix({a, b}))
    OBVIOUS
  <2>2. m \in 0 .. Len(b) /\ m <= Len(a) /\ LongestCommonPrefix({a, b}) = SubSeq(b, 1, m)
    BY <1>2, <1>9, <2>1
  <2>3. \A k \in 0 .. Len(b) : IsPrefix(SubSeq(b, 1, k), a) => k <= m
    BY <1>3, <1>9, <2>1
  <2> QED
    BY <2>2, <2>3

\* What a beginning of a log holds of what comes behind its header.
LEMMA BeginningHolds ==
  ASSUME NEW S, NEW h \in Seq(S), NEW s \in Seq(S), NEW m \in 0 .. Len(h \o s),
         NEW n, n = IF m <= Len(h) THEN 0 ELSE m - Len(h),
         NEW log, log = SubSeq(h \o s, 1, m)
  PROVE  n \in 0 .. Len(s) /\ SubSeq(log, Len(h) + 1, Len(log)) = SubSeq(s, 1, n)
<1>1. PICK l : l = h \o s
  OBVIOUS
<1>2. PICK k \in Nat, j \in Nat : k = Len(h) /\ j = Len(s)
  BY LenProperties
<1>3. l \in Seq(S) /\ Len(l) = k + j
  BY <1>1, <1>2, Places
<1>4. \A i \in 1 .. j : l[k + i] = s[i]
  BY <1>1, <1>2, Behind
<1>5. m \in 0 .. k + j /\ n \in 0 .. j /\ (n = IF m <= k THEN 0 ELSE m - k)
  BY <1>1, <1>2, <1>3
<1>6. log \in Seq(S) /\ Len(log) = m /\ \A i \in 1 .. m : log[i] = l[i]
  <2>1. 1 \in Int /\ m \in Int /\ \A i \in 1 .. m : l[i] \in S
    BY <1>3, <1>5, ElementOfSeq
  <2>2. /\ SubSeq(l, 1, m) \in Seq(S)
        /\ Len(SubSeq(l, 1, m)) = IF 1 <= m THEN m - 1 + 1 ELSE 0
        /\ \A i \in 1 .. m - 1 + 1 : SubSeq(l, 1, m)[i] = l[1 + i - 1]
    BY <2>1, SubSeqProperties
  <2>3. log = SubSeq(l, 1, m)
    BY <1>1
  <2> QED
    BY <1>5, <2>2, <2>3
<1>7. PICK x : x = SubSeq(log, k + 1, m)
  OBVIOUS
<1>8. PICK y : y = SubSeq(s, 1, n)
  OBVIOUS
<1>9. x \in Seq(S) /\ Len(x) = n /\ \A i \in 1 .. n : x[i] = log[k + i]
  <2>1. k + 1 \in Int /\ m \in Int /\ \A i \in k + 1 .. m : log[i] \in S
    BY <1>5, <1>6, ElementOfSeq
  <2>2. /\ SubSeq(log, k + 1, m) \in Seq(S)
        /\ Len(SubSeq(log, k + 1, m)) = IF k + 1 <= m THEN m - (k + 1) + 1 ELSE 0
        /\ \A i \in 1 .. m - (k + 1) + 1 : SubSeq(log, k + 1, m)[i] = log[k + 1 + i - 1]
    BY <2>1, SubSeqProperties
  <2>3. (IF k + 1 <= m THEN m - (k + 1) + 1 ELSE 0) = n
    BY <1>5
  <2>4. \A i \in 1 .. n : i \in 1 .. m - (k + 1) + 1 /\ k + 1 + i - 1 = k + i
    BY <1>5
  <2> QED
    BY <1>7, <2>2, <2>3, <2>4
<1>10. y \in Seq(S) /\ Len(y) = n /\ \A i \in 1 .. n : y[i] = s[i]
  <2>1. 1 \in Int /\ n \in Int /\ \A i \in 1 .. n : s[i] \in S
    BY <1>2, <1>5, ElementOfSeq
  <2>2. /\ SubSeq(s, 1, n) \in Seq(S)
        /\ Len(SubSeq(s, 1, n)) = IF 1 <= n THEN n - 1 + 1 ELSE 0
        /\ \A i \in 1 .. n - 1 + 1 : SubSeq(s, 1, n)[i] = s[1 + i - 1]
    BY <2>1, SubSeqProperties
  <2>3. (IF 1 <= n THEN n - 1 + 1 ELSE 0) = n
    BY <1>5
  <2>4. \A i \in 1 .. n : i \in 1 .. n - 1 + 1 /\ 1 + i - 1 = i
    BY <1>5
  <2> QED
    BY <1>8, <2>2, <2>3, <2>4
<1>11. \A i \in 1 .. n : x[i] = y[i]
  <2> SUFFICES ASSUME NEW i \in 1 .. n PROVE x[i] = y[i]
    OBVIOUS
  <2>1. k + i \in 1 .. m /\ i \in 1 .. j
    BY <1>5
  <2>2. x[i] = log[k + i] /\ y[i] = s[i]
    BY <1>9, <1>10
  <2>3. log[k + i] = l[k + i] /\ l[k + i] = s[i]
    BY <1>4, <1>6, <2>1
  <2> QED
    BY <2>2, <2>3
<1>12. x = y
  BY <1>9, <1>10, <1>11, SeqEqual
<1> QED
  BY <1>2, <1>5, <1>6, <1>7, <1>8, <1>12
\* What a sequence is continued to has it as a prefix.
LEMMA ContinuedIsPrefix ==
  ASSUME NEW S, NEW a \in Seq(S), NEW rest \in Seq(S)
  PROVE  IsPrefix(a, a \o rest)
<1>1. Len(a) \in Nat /\ Len(rest) \in Nat /\ Len(a \o rest) = Len(a) + Len(rest)
  BY LenProperties, ConcatProperties
<1>2. CASE Len(a) = 0
  <2>1. SubSeq(a, 1, Len(a)) = <<>> /\ SubSeq(a \o rest, 1, Len(a)) = <<>>
    BY <1>2, SubSeqEmpty
  <2> QED
    BY <1>1, <2>1 DEF IsPrefix
<1>3. CASE Len(a) # 0
  <2>1. 1 \in 1 .. Len(a) /\ Len(a) \in 1 .. Len(a)
    BY <1>1, <1>3
  <2>2. SubSeq(a \o rest, 1, Len(a)) = SubSeq(a, 1, Len(a))
    BY <2>1, SubSeqOfConcat1
  <2> QED
    BY <1>1, <2>2 DEF IsPrefix
<1> QED
  BY <1>2, <1>3

\* The first ones are a prefix.
LEMMA FirstIsPrefix ==
  ASSUME NEW S, NEW s \in Seq(S), NEW n \in 0 .. Len(s)
  PROVE  IsPrefix(SubSeq(s, 1, n), s)
<1>1. /\ SubSeq(s, 1, n) \in Seq(S) /\ SubSeq(s, n + 1, Len(s)) \in Seq(S)
      /\ s = SubSeq(s, 1, n) \o SubSeq(s, n + 1, Len(s))
  BY CutInTwo
<1>2. PICK a \in Seq(S), rest \in Seq(S) : a = SubSeq(s, 1, n) /\ s = a \o rest
  BY <1>1
<1>3. IsPrefix(a, a \o rest)
  BY ContinuedIsPrefix
<1> QED
  BY <1>2, <1>3

\* What is where in a piece.
LEMMA PieceIs ==
  ASSUME NEW S, NEW s \in Seq(S), NEW m \in Nat, NEW n \in Nat,
         1 <= m, m <= n + 1, n <= Len(s)
  PROVE  /\ SubSeq(s, m, n) \in Seq(S) /\ Len(SubSeq(s, m, n)) = n - m + 1
         /\ \A k \in 1 .. n - m + 1 : SubSeq(s, m, n)[k] = s[m + k - 1]
<1>1. m \in Int /\ n \in Int /\ Len(s) \in Nat
  BY LenProperties
<1>2. \A k \in m .. n : s[k] \in S
  BY <1>1, ElementOfSeq
<1>3. /\ SubSeq(s, m, n) \in Seq(S)
      /\ Len(SubSeq(s, m, n)) = IF m <= n THEN n - m + 1 ELSE 0
      /\ \A k \in 1 .. n - m + 1 : SubSeq(s, m, n)[k] = s[m + k - 1]
  BY <1>1, <1>2, SubSeqProperties
<1> QED
  BY <1>1, <1>3

\* A piece that has these items is these items.
LEMMA PieceEquals ==
  ASSUME NEW S, NEW s \in Seq(S), NEW c \in Seq(S), NEW q \in Nat, NEW l \in Nat,
         Len(c) = l, q + l <= Len(s), \A j \in 1 .. l : s[q + j] = c[j]
  PROVE  SubSeq(s, q + 1, q + l) = c
<1>1. PICK m \in Nat : m = q + 1
  OBVIOUS
<1>2. PICK n \in Nat : n = q + l
  OBVIOUS
<1>3. 1 <= m /\ m <= n + 1 /\ n - m + 1 = l
  BY <1>1, <1>2
<1>4. n <= Len(s)
  BY <1>2
<1>5. /\ SubSeq(s, m, n) \in Seq(S) /\ Len(SubSeq(s, m, n)) = n - m + 1
      /\ \A k \in 1 .. n - m + 1 : SubSeq(s, m, n)[k] = s[m + k - 1]
  BY <1>3, <1>4, PieceIs
<1>6. \A k \in 1 .. l : m + k - 1 = q + k
  BY <1>1
<1>7. Len(SubSeq(s, m, n)) = l /\ \A k \in 1 .. l : SubSeq(s, m, n)[k] = c[k]
  BY <1>3, <1>5, <1>6
<1>8. SubSeq(s, m, n) = c
  BY <1>5, <1>7, SeqEqual
<1> QED
  BY <1>1, <1>2, <1>8

\* What is left of what was left.
LEMMA RestOfRest ==
  ASSUME NEW S, NEW s \in Seq(S), NEW n \in Nat, NEW k \in Nat, n <= Len(s),
         NEW rest, rest = SubSeq(s, n + 1, Len(s)), k <= Len(rest)
  PROVE  /\ rest \in Seq(S) /\ Len(rest) = Len(s) - n
         /\ \A i \in 1 .. Len(s) - n : rest[i] = s[n + i]
         /\ SubSeq(rest, k + 1, Len(rest)) = SubSeq(s, (n + k) + 1, Len(s))
<1>1. PICK l \in Nat : l = Len(s)
  BY LenProperties
<1>2. n + 1 \in Nat /\ 1 <= n + 1 /\ n + 1 <= l + 1 /\ n <= l
  BY <1>1
<1>3. /\ SubSeq(s, n + 1, l) \in Seq(S) /\ Len(SubSeq(s, n + 1, l)) = l - (n + 1) + 1
      /\ \A i \in 1 .. l - (n + 1) + 1 : SubSeq(s, n + 1, l)[i] = s[(n + 1) + i - 1]
  BY <1>1, <1>2, PieceIs
<1>4. /\ rest \in Seq(S) /\ Len(rest) = l - n /\ \A i \in 1 .. l - n : rest[i] = s[n + i]
  <2>1. l - (n + 1) + 1 = l - n /\ \A i \in 1 .. l - n : (n + 1) + i - 1 = n + i
    BY <1>1, <1>2
  <2> QED
    BY <1>1, <1>3, <2>1
<1>5. PICK q \in Nat : q = l - n
  <2>1. l - n \in Nat
    BY <1>2
  <2> QED
    BY <2>1
<1>6. /\ SubSeq(rest, k + 1, q) \in Seq(S) /\ Len(SubSeq(rest, k + 1, q)) = q - (k + 1) + 1
      /\ \A i \in 1 .. q - (k + 1) + 1 : SubSeq(rest, k + 1, q)[i] = rest[(k + 1) + i - 1]
  <2>1. k + 1 \in Nat /\ 1 <= k + 1 /\ k + 1 <= q + 1 /\ q <= Len(rest)
    BY <1>4, <1>5
  <2> QED
    BY <1>4, <1>5, <2>1, PieceIs
<1>7. PICK m \in Nat : m = n + k
  OBVIOUS
<1>8. /\ SubSeq(s, m + 1, l) \in Seq(S) /\ Len(SubSeq(s, m + 1, l)) = l - (m + 1) + 1
      /\ \A i \in 1 .. l - (m + 1) + 1 : SubSeq(s, m + 1, l)[i] = s[(m + 1) + i - 1]
  <2>1. m + 1 \in Nat /\ 1 <= m + 1 /\ m + 1 <= l + 1 /\ l <= Len(s)
    <3>1. k <= l - n /\ l <= Len(s)
      BY <1>1, <1>4
    <3> QED
      BY ONLY <3>1, <1>1, <1>7, n \in Nat, k \in Nat, l \in Nat
  <2> QED
    BY <1>1, <2>1, PieceIs
<1>9. q - (k + 1) + 1 = l - (m + 1) + 1
  BY <1>1, <1>5, <1>7
<1>10. ASSUME NEW i \in 1 .. q - (k + 1) + 1
       PROVE  SubSeq(rest, k + 1, q)[i] = SubSeq(s, m + 1, l)[i]
  <2>1. (k + 1) + i - 1 = k + i /\ k + i \in 1 .. l - n /\ n + (k + i) = (m + 1) + i - 1
    BY <1>1, <1>5, <1>7
  <2> QED
    BY <1>4, <1>6, <1>8, <1>9, <2>1
<1>11. SubSeq(rest, k + 1, q) = SubSeq(s, m + 1, l)
  <2>1. Len(SubSeq(rest, k + 1, q)) = Len(SubSeq(s, m + 1, l))
    BY <1>6, <1>8, <1>9
  <2> QED
    BY <1>6, <1>8, <1>10, <2>1, SeqEqual
<1> QED
  BY <1>1, <1>4, <1>5, <1>7, <1>11
-----------------------------------------------------------------------------
(* Options and their values take turns on a command line.  Whether there   *)
(* is an option at a place is a recursive function of the places before;   *)
(* here is the set of the places where it says there is one.               *)

\* After a flag comes an option, after another option its value.
Turn(places, line, flags, i) ==
  \/ i = 1
  \/ i > 1 /\ i - 1 \in places /\ line[i - 1] \in flags
  \/ i > 2 /\ i - 2 \in places /\ line[i - 2] \notin flags

TakeTurns(places, line, flags, n) ==
  places \subseteq 1 .. n /\ \A i \in 1 .. n : i \in places <=> Turn(places, line, flags, i)

LEMMA TurnsExtend ==
  ASSUME NEW line, NEW flags, NEW n \in Nat, NEW places, TakeTurns(places, line, flags, n)
  PROVE  \E more : TakeTurns(more, line, flags, n + 1)
<1>1. PICK more : more = places \cup {i \in {n + 1} : Turn(places, line, flags, n + 1)}
  OBVIOUS
<1>2. places \subseteq 1 .. n /\ \A i \in 1 .. n : i \in places <=> Turn(places, line, flags, i)
  BY DEF TakeTurns
<1>3. more \subseteq 1 .. n + 1
  <2>1. more \subseteq places \cup {n + 1}
    BY <1>1
  <2>2. n + 1 \in 1 .. n + 1 /\ 1 .. n \subseteq 1 .. n + 1
    OBVIOUS
  <2> QED
    BY <1>2, <2>1, <2>2
<1>4. /\ \A i \in 1 .. n : i \in more <=> i \in places
      /\ n + 1 \in more <=> Turn(places, line, flags, n + 1)
  BY <1>1, <1>2
<1>5. ASSUME NEW i \in 1 .. n + 1
      PROVE  Turn(more, line, flags, i) <=> Turn(places, line, flags, i)
  <2>1. i > 1 => (i - 1 \in more <=> i - 1 \in places)
    BY <1>4
  <2>2. i > 2 => (i - 2 \in more <=> i - 2 \in places)
    BY <1>4
  <2> QED
    BY <2>1, <2>2 DEF Turn
<1>6. ASSUME NEW i \in 1 .. n + 1
      PROVE  i \in more <=> Turn(more, line, flags, i)
  <2>1. CASE i \in 1 .. n
    BY <1>2, <1>4, <1>5, <2>1
  <2>2. CASE i = n + 1
    BY <1>4, <1>5, <2>2
  <2> QED
    BY <2>1, <2>2
<1>7. TakeTurns(more, line, flags, n + 1)
  BY <1>3, <1>6 DEF TakeTurns
<1> QED
  BY <1>7

LEMMA TurnsExist ==
  ASSUME NEW line, NEW flags, NEW n \in Nat
  PROVE  \E places : TakeTurns(places, line, flags, n)
<1>1. PICK T : T = {k \in Nat : \E places : TakeTurns(places, line, flags, k)}
  OBVIOUS
<1>2. 0 \in T
  <2>1. TakeTurns({}, line, flags, 0)
    BY DEF TakeTurns
  <2> QED
    BY <1>1, <2>1
<1>3. ASSUME NEW k \in T PROVE k + 1 \in T
  BY <1>1, TurnsExtend
<1>4. T = Nat
  BY <1>1, <1>2, <1>3, Induction
<1> QED
  BY <1>1, <1>4

\* The function that a recursive definition of the same defines.
TurnsOf(line, flags) ==
  LET at[i \in DOMAIN line] ==
        \/ i = 1
        \/ i > 1 /\ at[i - 1] /\ line[i - 1] \in flags
        \/ i > 2 /\ at[i - 2] /\ line[i - 2] \notin flags
  IN  at

Turns(line, flags) == {i \in DOMAIN line : TurnsOf(line, flags)[i]}

Computes(at, line, flags) ==
  at = [i \in DOMAIN line |->
          \/ i = 1
          \/ i > 1 /\ at[i - 1] /\ line[i - 1] \in flags
          \/ i > 2 /\ at[i - 2] /\ line[i - 2] \notin flags]

LEMMA TurnsOfIsChosen ==
  ASSUME NEW line, NEW flags
  PROVE  TurnsOf(line, flags) = CHOOSE at : Computes(at, line, flags)
BY DEF TurnsOf, Computes

LEMMA TurnsComputed ==
  ASSUME NEW line, NEW flags, NEW n \in Nat, DOMAIN line = 1 .. n
  PROVE  Computes(TurnsOf(line, flags), line, flags)
<1>1. PICK places : TakeTurns(places, line, flags, n)
  BY TurnsExist
<1>2. PICK at : at = [i \in DOMAIN line |-> i \in places]
  OBVIOUS
<1>3. ASSUME NEW i \in DOMAIN line
      PROVE  (i \in places) = (\/ i = 1
                               \/ i > 1 /\ at[i - 1] /\ line[i - 1] \in flags
                               \/ i > 2 /\ at[i - 2] /\ line[i - 2] \notin flags)
  <2>1. i \in places <=> Turn(places, line, flags, i)
    BY <1>1 DEF TakeTurns
  <2>2. i > 1 => i - 1 \in DOMAIN line
    OBVIOUS
  <2>3. i > 2 => i - 2 \in DOMAIN line
    OBVIOUS
  <2>4. i > 1 => (at[i - 1] <=> i - 1 \in places)
    BY <1>2, <2>2, Zenon
  <2>5. i > 2 => (at[i - 2] <=> i - 2 \in places)
    BY <1>2, <2>3, Zenon
  <2>6. i \in places <=> \/ i = 1
                         \/ i > 1 /\ at[i - 1] /\ line[i - 1] \in flags
                         \/ i > 2 /\ at[i - 2] /\ line[i - 2] \notin flags
    BY <2>1, <2>4, <2>5, Zenon DEF Turn
  <2>7. CASE i \in places
    BY <2>6, <2>7
  <2>8. CASE i \notin places
    <3>1. (i \in places) = FALSE
      BY <2>8
    <3>2. (\/ i = 1
           \/ i > 1 /\ at[i - 1] /\ line[i - 1] \in flags
           \/ i > 2 /\ at[i - 2] /\ line[i - 2] \notin flags) = FALSE
      BY <2>6, <2>8
    <3> QED
      BY <3>1, <3>2, Zenon
  <2> QED
    BY <2>7, <2>8
<1>4. Computes(at, line, flags)
  BY <1>2, <1>3, Zenon DEF Computes
<1>5. \E a : Computes(a, line, flags)
  BY <1>4
<1>6. Computes(CHOOSE a : Computes(a, line, flags), line, flags)
  BY <1>5, Zenon
<1> QED
  BY <1>6, TurnsOfIsChosen, Zenon

LEMMA TurnsTaken ==
  ASSUME NEW line, NEW flags, NEW n \in Nat, DOMAIN line = 1 .. n
  PROVE  TakeTurns(Turns(line, flags), line, flags, n)
<1>1. PICK at : at = TurnsOf(line, flags)
  OBVIOUS
<1>2. Computes(at, line, flags)
  BY <1>1, TurnsComputed
<1>3. PICK places : places = {i \in DOMAIN line : at[i]}
  OBVIOUS
<1>4. ASSUME NEW i \in 1 .. n
      PROVE  i \in places <=> Turn(places, line, flags, i)
  <2>0. i \in DOMAIN line
    OBVIOUS
  <2>1. i \in places <=> \/ i = 1
                         \/ i > 1 /\ at[i - 1] /\ line[i - 1] \in flags
                         \/ i > 2 /\ at[i - 2] /\ line[i - 2] \notin flags
    <3>1. at[i] = (\/ i = 1
                   \/ i > 1 /\ at[i - 1] /\ line[i - 1] \in flags
                   \/ i > 2 /\ at[i - 2] /\ line[i - 2] \notin flags)
      BY <1>2, <2>0, Zenon DEF Computes
    <3> QED
      BY <1>3, <2>0, <3>1, Zenon
  <2>2. i > 1 => i - 1 \in DOMAIN line
    OBVIOUS
  <2>3. i > 2 => i - 2 \in DOMAIN line
    OBVIOUS
  <2>4. i > 1 => (at[i - 1] <=> i - 1 \in places)
    BY <1>3, <2>2, Zenon
  <2>5. i > 2 => (at[i - 2] <=> i - 2 \in places)
    BY <1>3, <2>3, Zenon
  <2> QED
    BY <2>1, <2>4, <2>5, Zenon DEF Turn
<1>5. places \subseteq 1 .. n
  BY <1>3
<1>6. TakeTurns(places, line, flags, n)
  BY <1>4, <1>5 DEF TakeTurns
<1>7. places = Turns(line, flags)
  BY <1>1, <1>3 DEF Turns
<1> QED
  BY <1>6, <1>7

\* Behind the first n words an option may stand: the word behind them is one,
\* and the last of them does not wait for its value.
OptionNext(line, flags, n) ==
  /\ n + 1 <= Len(line) => n + 1 \in Turns(line, flags)
  /\ n \in Turns(line, flags) => line[n] \in flags

\* The word behind the last use of an option among the first n words.
LastUse(line, flags, option, n) ==
  LET uses == {i \in 1 .. n : line[i] = option /\ i \in Turns(line, flags)}
  IN  {line[i + 1] : i \in {j \in uses : \A k \in uses : k <= j}}

LEMMA TurnAt ==
  ASSUME NEW S, NEW line \in Seq(S), NEW flags, NEW i \in 1 .. Len(line)
  PROVE  i \in Turns(line, flags) <=> Turn(Turns(line, flags), line, flags, i)
<1>1. Len(line) \in Nat /\ DOMAIN line = 1 .. Len(line)
  BY LenProperties
<1> QED
  BY <1>1, TurnsTaken DEF TakeTurns

LEMMA NoneUsed ==
  ASSUME NEW S, NEW line \in Seq(S), NEW flags
  PROVE  /\ OptionNext(line, flags, 0)
         /\ \A option : LastUse(line, flags, option, 0) = {}
<1>1. Len(line) \in Nat /\ DOMAIN line = 1 .. Len(line)
  BY LenProperties
<1>2. 0 \notin Turns(line, flags)
  BY <1>1 DEF Turns
<1>3. 0 + 1 <= Len(line) => 0 + 1 \in Turns(line, flags)
  BY <1>1, TurnAt DEF Turn
<1>4. \A option : LastUse(line, flags, option, 0) = {}
  BY DEF LastUse
<1> QED
  BY <1>2, <1>3, <1>4 DEF OptionNext

LEMMA FlagUsed ==
  ASSUME NEW S, NEW line \in Seq(S), NEW flags, NEW n \in Nat, n + 1 <= Len(line),
         OptionNext(line, flags, n), line[n + 1] \in flags
  PROVE  /\ OptionNext(line, flags, n + 1)
         /\ \A option : option \notin flags =>
              LastUse(line, flags, option, n + 1) = LastUse(line, flags, option, n)
<1>1. Len(line) \in Nat /\ DOMAIN line = 1 .. Len(line)
  BY LenProperties
<1>2. n + 1 \in Turns(line, flags)
  BY DEF OptionNext
<1>3. (n + 1) + 1 <= Len(line) => (n + 1) + 1 \in Turns(line, flags)
  BY <1>1, <1>2, TurnAt DEF Turn
<1>4. ASSUME NEW option, option \notin flags
      PROVE  LastUse(line, flags, option, n + 1) = LastUse(line, flags, option, n)
  <2>1. {i \in 1 .. n + 1 : line[i] = option /\ i \in Turns(line, flags)}
          = {i \in 1 .. n : line[i] = option /\ i \in Turns(line, flags)}
    <3>1. \A i \in 1 .. n + 1 : i \in 1 .. n \/ i = n + 1
      OBVIOUS
    <3>2. line[n + 1] # option
      BY <1>4
    <3>3. 1 .. n \subseteq 1 .. n + 1
      OBVIOUS
    <3> QED
      BY <3>1, <3>2, <3>3
  <2> QED
    BY <2>1, Zenon DEF LastUse
<1> QED
  BY <1>3, <1>4 DEF OptionNext

LEMMA ValueUsed ==
  ASSUME NEW S, NEW line \in Seq(S), NEW flags, NEW n \in Nat, n + 2 <= Len(line),
         OptionNext(line, flags, n), line[n + 1] \notin flags
  PROVE  /\ OptionNext(line, flags, n + 2)
         /\ \A option : LastUse(line, flags, option, n + 2) =
              IF option = line[n + 1] THEN {line[n + 2]} ELSE LastUse(line, flags, option, n)
<1>1. Len(line) \in Nat /\ DOMAIN line = 1 .. Len(line)
  BY LenProperties
<1>2. n + 1 \in Turns(line, flags)
  BY DEF OptionNext
<1>3. n + 2 \notin Turns(line, flags)
  <2>1. n + 2 \in 1 .. Len(line)
    BY <1>1
  <2>2. ~Turn(Turns(line, flags), line, flags, n + 2)
    <3>1. (n + 2) - 1 = n + 1 /\ (n + 2) - 2 = n /\ n + 2 # 1
      OBVIOUS
    <3>2. n \in Turns(line, flags) => line[n] \in flags
      BY DEF OptionNext
    <3> QED
      BY <3>1, <3>2 DEF Turn
  <2> QED
    BY <2>1, <2>2, TurnAt
<1>4. (n + 2) + 1 <= Len(line) => (n + 2) + 1 \in Turns(line, flags)
  <2> SUFFICES ASSUME n + 3 <= Len(line)
               PROVE  n + 3 \in Turns(line, flags)
    BY <1>1
  <2>1. n + 3 \in 1 .. Len(line) /\ (n + 3) - 2 = n + 1 /\ n + 3 > 2
    BY <1>1
  <2>2. Turn(Turns(line, flags), line, flags, n + 3)
    BY <1>2, <2>1 DEF Turn
  <2> QED
    BY <2>1, <2>2, TurnAt
<1>5. OptionNext(line, flags, n + 2)
  BY <1>3, <1>4 DEF OptionNext
<1>6. \A i \in 1 .. n + 2 : i \in 1 .. n \/ i = n + 1 \/ i = n + 2
  OBVIOUS
<1>7. n + 1 \in 1 .. n + 2 /\ 1 .. n \subseteq 1 .. n + 2 /\ (n + 1) + 1 = n + 2
  OBVIOUS
<1>8. ASSUME NEW option
      PROVE  LastUse(line, flags, option, n + 2) =
               IF option = line[n + 1] THEN {line[n + 2]} ELSE LastUse(line, flags, option, n)
  <2>1. PICK before : before = {i \in 1 .. n : line[i] = option /\ i \in Turns(line, flags)}
    OBVIOUS
  <2>2. PICK uses : uses = {i \in 1 .. n + 2 : line[i] = option /\ i \in Turns(line, flags)}
    OBVIOUS
  <2>3. CASE option = line[n + 1]
    <3>1. uses = before \cup {n + 1}
      BY <1>2, <1>3, <1>6, <1>7, <2>1, <2>2, <2>3
    <3>2. \A k \in before : k <= n + 1 /\ ~(n + 1 <= k)
      BY <2>1
    <3>3. {j \in uses : \A k \in uses : k <= j} = {n + 1}
      BY <3>1, <3>2
    <3>4. LastUse(line, flags, option, n + 2) = {line[i + 1] : i \in {n + 1}}
      BY <2>2, <3>3, Zenon DEF LastUse
    <3> QED
      BY <1>7, <2>3, <3>4
  <2>4. CASE option # line[n + 1]
    <3>1. uses = before
      BY <1>3, <1>6, <1>7, <2>1, <2>2, <2>4
    <3> QED
      BY <2>1, <2>2, <2>4, <3>1, Zenon DEF LastUse
  <2> QED
    BY <2>3, <2>4
<1> QED
  BY <1>5, <1>8
=============================================================================
