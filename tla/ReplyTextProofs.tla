---------------------------- MODULE ReplyTextProofs ----------------------------
(***************************************************************************)
(* Facts about ReplyText's operators, for texts of any length.              *)
(***************************************************************************)
EXTENDS ReplyText, SequenceTheorems, WellFoundedInduction, NaturalsInduction, FiniteSetTheorems,
        TLAPS

-----------------------------------------------------------------------------
(* Induction, over sets of numbers.                                        *)

\* A set of numbers that has no least number left out has them all.
LEMMA Courses ==
  ASSUME NEW T, \A n \in Nat : (\A m \in Nat : m < n => m \in T) => n \in T
  PROVE  \A n \in Nat : n \in T
<1> DEFINE Bad == {n \in Nat : n \notin T}
           R == OpToRel(<, Nat)
<1>1. SUFFICES ASSUME Bad # {} PROVE FALSE
  OBVIOUS
<1>2. IsWellFoundedOn(R, Nat)
  BY NatLessThanWellFounded
<1>3. \E n \in Bad : \A k \in Bad : ~(<<k, n>> \in R)
  <2>1. Bad \subseteq Nat
    OBVIOUS
  <2> HIDE DEF Bad, R
  <2> QED BY <1>1, <1>2, <2>1, WFMin
<1>4. PICK n \in Bad : \A k \in Bad : ~(<<k, n>> \in R)
  BY <1>3
<1>5. \A k \in Bad : ~(k < n)
  BY <1>4 DEF OpToRel
<1> QED BY <1>5

\* So has one with 0 and with the successor of each of its elements.
LEMMA Steps ==
  ASSUME NEW T, 0 \in T, \A n \in Nat : n \in T => n + 1 \in T
  PROVE  \A n \in Nat : n \in T
<1>1. ASSUME NEW n \in Nat, \A m \in Nat : m < n => m \in T PROVE n \in T
  <2>1. CASE n = 0
    BY <2>1
  <2>2. CASE n # 0
    <3>1. n - 1 \in Nat /\ n - 1 < n /\ (n - 1) + 1 = n
      BY <2>2
    <3> QED BY <1>1, <3>1
  <2> QED BY <2>1, <2>2
<1> QED BY <1>1, Courses

\* A set of sequences with the empty one and with each that is one longer.
LEMMA Grown ==
  ASSUME NEW S, NEW T, <<>> \in T,
         \A s \in Seq(S), e \in S : s \in T => Append(s, e) \in T
  PROVE  \A s \in Seq(S) : s \in T
<1> DEFINE N == {n \in Nat : \A s \in Seq(S) : Len(s) = n => s \in T}
<1>1. 0 \in N
  BY EmptySeq
<1>2. ASSUME NEW n \in Nat, n \in N PROVE n + 1 \in N
  <2> SUFFICES ASSUME NEW s \in Seq(S), Len(s) = n + 1 PROVE s \in T
    OBVIOUS
  <2>1. s # <<>>
    OBVIOUS
  <2>2. PICK r \in Seq(S), e \in S : s = Append(r, e)
    BY <2>1, SequenceEmptyOrAppend
  <2>3. Len(r) = n
    BY <2>2
  <2> QED BY <1>2, <2>2, <2>3
<1>3. \A n \in Nat : n \in N
  <2> HIDE DEF N
  <2> QED BY <1>1, <1>2, Steps
<1> QED BY <1>3

-----------------------------------------------------------------------------
(* Least, greatest and longest.                                            *)

\* A set of numbers has a least.
LEMMA MinIs ==
  ASSUME NEW A, A \subseteq Nat, A # {}
  PROVE  Min(A) \in A /\ \A a \in A : Min(A) <= a
<1> DEFINE T == {n \in Nat : n \notin A}
<1>1. \E a \in A : \A b \in A : a <= b
  <2> SUFFICES ASSUME \A a \in A : \E b \in A : ~(a <= b) PROVE FALSE
    OBVIOUS
  <2>1. ASSUME NEW n \in Nat, \A m \in Nat : m < n => m \in T PROVE n \in T
    BY <2>1
  <2>2. \A n \in Nat : n \in T
    <3> HIDE DEF T
    <3> QED BY <2>1, Courses
  <2> QED BY <2>2
<1> QED BY <1>1 DEF Min

\* One with a bound has a greatest.
LEMMA MaxIs ==
  ASSUME NEW A, A \subseteq Nat, A # {}, NEW b \in Nat, \A a \in A : a <= b
  PROVE  Max(A) \in A /\ \A a \in A : a <= Max(A)
<1> DEFINE B == {n \in Nat : b - n \in A}
<1>1. B \subseteq Nat /\ B # {}
  <2>1. PICK a \in A : TRUE
    OBVIOUS
  <2>2. b - a \in Nat /\ b - (b - a) = a
    OBVIOUS
  <2> QED BY <2>1, <2>2
<1>2. PICK m \in B : \A n \in B : m <= n
  <2> HIDE DEF B
  <2> QED BY <1>1, MinIs
<1>3. \A a \in A : a <= b - m
  <2> SUFFICES ASSUME NEW a \in A PROVE a <= b - m
    OBVIOUS
  <2>1. a \in Nat /\ b - a \in Nat /\ b - (b - a) = a
    OBVIOUS
  <2>2. b - a \in B
    BY <2>1
  <2>3. m <= b - a /\ m \in Nat
    BY <1>2, <2>2
  <2> QED BY <2>1, <2>3
<1>4. b - m \in A
  BY <1>2
<1> QED BY <1>3, <1>4 DEF Max

-----------------------------------------------------------------------------
(* Concatenation.                                                          *)

\* Two texts are a text.
LEMMA TextJoin ==
  \A x, y \in Seq(Char) :
    /\ x \o y \in Seq(Char) /\ Len(x \o y) = Len(x) + Len(y)
    /\ Len(x) \in Nat /\ Len(y) \in Nat /\ Len(x \o y) \in Nat
    /\ DOMAIN x = 1..Len(x) /\ DOMAIN y = 1..Len(y) /\ DOMAIN (x \o y) = 1..Len(x \o y)
OBVIOUS

\* Where the elements of a concatenation come from.
LEMMA Joined ==
  ASSUME NEW S, NEW a \in Seq(S), NEW b \in Seq(S)
  PROVE  /\ a \o b \in Seq(S) /\ Len(a \o b) = Len(a) + Len(b)
         /\ \A i \in 1..(Len(a) + Len(b)) :
              (a \o b)[i] = IF i <= Len(a) THEN a[i] ELSE b[i - Len(a)]
OBVIOUS

-----------------------------------------------------------------------------
(* Prefixes.                                                               *)

\* What is put before a text is a prefix of the whole.
LEMMA PrefixOfConcat ==
  ASSUME NEW S, NEW s \in Seq(S), NEW t \in Seq(S)
  PROVE  IsPrefix(s, s \o t)
<1>1. s \o t \in Seq(S) /\ Len(s \o t) = Len(s) + Len(t) /\ Len(s) \in Nat /\ Len(t) \in Nat
  OBVIOUS
<1>2. SubSeq(s, 1, Len(s)) = SubSeq(s \o t, 1, Len(s))
  <2>1. CASE Len(s) = 0
    BY <2>1, SubSeqEmpty
  <2>2. CASE Len(s) # 0
    BY <1>1, <2>2, SubSeqOfConcat1
  <2> QED BY <2>1, <2>2
<1> QED BY <1>1, <1>2 DEF IsPrefix

\* And every prefix is so completed.
LEMMA PrefixRest ==
  ASSUME NEW S, NEW s \in Seq(S), NEW t \in Seq(S), IsPrefix(s, t)
  PROVE  \E u \in Seq(S) : t = s \o u
<1> DEFINE n == Len(s)
           u == SubSeq(t, n + 1, Len(t))
<1>1. n \in Nat /\ Len(t) \in Nat /\ n <= Len(t) /\ SubSeq(s, 1, n) = SubSeq(t, 1, n)
  BY DEF IsPrefix
<1>2. SubSeq(s, 1, n) = s
  BY SubSeqFull
<1>3. u \in Seq(S)
  <2>1. \A i \in (n + 1)..Len(t) : t[i] \in S
    BY <1>1
  <2> HIDE DEF n
  <2> QED BY <1>1, <2>1, SubSeqProperties
<1>4. SubSeq(t, 1, n) \o u = SubSeq(t, 1, Len(t))
  <2> HIDE DEF n
  <2>1. 1 \in 1..(Len(t) + 1) /\ n \in (1 - 1)..Len(t) /\ Len(t) \in n..Len(t)
    BY <1>1
  <2> QED BY <2>1, ConcatAdjacentSubSeq
<1>5. SubSeq(t, 1, Len(t)) = t
  BY SubSeqFull
<1>6. t = s \o u
  <2> HIDE DEF n, u
  <2> QED BY <1>1, <1>2, <1>4, <1>5
<1> QED BY <1>3, <1>6

-----------------------------------------------------------------------------
(* Pick.                                                                   *)

\* The function Pick is defined by.
Upto(s, P) ==
  CHOOSE g : g = [n \in 0..Len(s) |->
    IF n = 0 THEN <<>>
    ELSE IF n \in P THEN Append(g[n - 1], s[n]) ELSE g[n - 1]]

\* There is such a function.
LEMMA UptoExists ==
  ASSUME NEW s, Len(s) \in Nat, NEW P
  PROVE  /\ Upto(s, P)[0] = <<>>
         /\ \A n \in 1..Len(s) :
              Upto(s, P)[n] = IF n \in P THEN Append(Upto(s, P)[n - 1], s[n])
                              ELSE Upto(s, P)[n - 1]
         /\ Pick(s, P) = Upto(s, P)[Len(s)]
<1> DEFINE Next(g, n) == IF n = 0 THEN <<>>
                         ELSE IF n \in P THEN Append(g[n - 1], s[n]) ELSE g[n - 1]
           Good(g, m) == g = [n \in 0..m |-> Next(g, n)]
           T == {m \in Nat : \E g : Good(g, m)}
<1>1. 0 \in T
  <2> DEFINE g == [n \in 0..0 |-> <<>>]
  <2>1. Good(g, 0)
    OBVIOUS
  <2> HIDE DEF Good, g
  <2> QED BY <2>1
<1>2. ASSUME NEW m \in Nat, m \in T PROVE m + 1 \in T
  <2>1. PICK g : Good(g, m)
    BY <1>2
  <2> DEFINE h == [n \in 0..(m + 1) |-> Next(g, n)]
  <2>2. \A n \in 0..m : g[n] = Next(g, n)
    <3> HIDE DEF Next
    <3> QED BY <2>1
  <2>3. \A n \in 0..m : h[n] = g[n]
    <3> HIDE DEF Next
    <3> QED BY <2>2
  <2>4. \A n \in 0..(m + 1) : n # 0 => n - 1 \in 0..m
    OBVIOUS
  <2>5. \A n \in 0..(m + 1) : Next(g, n) = Next(h, n)
    <3> HIDE DEF h
    <3> QED BY <2>3, <2>4
  <2>6. Good(h, m + 1)
    <3> HIDE DEF Next
    <3> QED BY <2>5
  <2> HIDE DEF Good, h
  <2> QED BY <2>6
<1>3. Len(s) \in T
  <2> HIDE DEF T
  <2> QED BY <1>1, <1>2, Steps
<1>4. \E g : Good(g, Len(s))
  BY <1>3
<1>5. Good(Upto(s, P), Len(s))
  BY <1>4, Zenon DEF Upto
<1>6. Pick(s, P) = Upto(s, P)[Len(s)]
  BY Zenon DEF Pick, Upto
<1> HIDE DEF Upto
<1>7. \A n \in 0..Len(s) : Upto(s, P)[n] = Next(Upto(s, P), n)
  BY <1>5
<1> QED BY <1>6, <1>7

\* Of nothing, nothing.
LEMMA PickEmpty ==
  ASSUME NEW P
  PROVE  Pick(<<>>, P) = <<>>
BY UptoExists

\* The last element is looked at last.
LEMMA PickAppend ==
  ASSUME NEW S, NEW s \in Seq(S), NEW e \in S, NEW P
  PROVE  Pick(Append(s, e), P) =
           IF Len(s) + 1 \in P THEN Append(Pick(s, P), e) ELSE Pick(s, P)
<1> DEFINE t == Append(s, e)
           T == {n \in Nat : n <= Len(s) => Upto(t, P)[n] = Upto(s, P)[n]}
<1>1. /\ Len(s) \in Nat /\ Len(t) = Len(s) + 1 /\ t[Len(s) + 1] = e
      /\ \A n \in 1..Len(s) : t[n] = s[n]
  OBVIOUS
<1>2. Len(t) \in Nat /\ Len(s) + 1 \in 1..Len(t)
  BY <1>1
<1> HIDE DEF t
<1>3. /\ Upto(s, P)[0] = <<>> /\ Upto(t, P)[0] = <<>>
      /\ Pick(s, P) = Upto(s, P)[Len(s)] /\ Pick(t, P) = Upto(t, P)[Len(t)]
  BY <1>1, <1>2, UptoExists
<1>4. \A n \in 1..Len(s) :
        Upto(s, P)[n] = IF n \in P THEN Append(Upto(s, P)[n - 1], s[n])
                        ELSE Upto(s, P)[n - 1]
  BY <1>1, UptoExists
<1>5. \A n \in 1..Len(t) :
        Upto(t, P)[n] = IF n \in P THEN Append(Upto(t, P)[n - 1], t[n])
                        ELSE Upto(t, P)[n - 1]
  BY <1>2, UptoExists
<1>6. 0 \in T
  BY <1>3
<1>7. ASSUME NEW n \in Nat, n \in T PROVE n + 1 \in T
  <2> SUFFICES ASSUME n + 1 <= Len(s) PROVE Upto(t, P)[n + 1] = Upto(s, P)[n + 1]
    OBVIOUS
  <2>1. n + 1 \in 1..Len(s) /\ n + 1 \in 1..Len(t) /\ (n + 1) - 1 = n
    BY <1>1
  <2>2. Upto(t, P)[n] = Upto(s, P)[n] /\ t[n + 1] = s[n + 1]
    BY <1>1, <1>7, <2>1
  <2> QED BY <1>4, <1>5, <2>1, <2>2
<1>8. \A n \in Nat : n \in T
  <2> HIDE DEF T
  <2> QED BY <1>6, <1>7, Steps
<1>9. Upto(t, P)[Len(s)] = Upto(s, P)[Len(s)]
  BY <1>1, <1>8
<1>10. (Len(s) + 1) - 1 = Len(s)
  BY <1>1
<1>11. Pick(t, P) = IF Len(s) + 1 \in P THEN Append(Pick(s, P), e) ELSE Pick(s, P)
  BY <1>1, <1>2, <1>3, <1>5, <1>9, <1>10
<1> QED BY <1>11 DEF t

\* Only the positions of the sequence count.
LEMMA PickSame ==
  ASSUME NEW S, NEW s \in Seq(S), NEW P, NEW Q, \A i \in 1..Len(s) : i \in P <=> i \in Q
  PROVE  Pick(s, P) = Pick(s, Q)
<1> DEFINE T == {r \in Seq(S) :
                   (\A i \in 1..Len(r) : i \in P <=> i \in Q) => Pick(r, P) = Pick(r, Q)}
<1>1. <<>> \in T
  BY PickEmpty
<1>2. ASSUME NEW r \in Seq(S), NEW e \in S, r \in T PROVE Append(r, e) \in T
  <2>1. Append(r, e) \in Seq(S) /\ Len(Append(r, e)) = Len(r) + 1 /\ Len(r) \in Nat
    OBVIOUS
  <2> SUFFICES ASSUME \A i \in 1..(Len(r) + 1) : i \in P <=> i \in Q
               PROVE  Pick(Append(r, e), P) = Pick(Append(r, e), Q)
    BY <2>1
  <2>2. Len(r) + 1 \in P <=> Len(r) + 1 \in Q
    BY <2>1
  <2>3. Pick(r, P) = Pick(r, Q)
    BY <1>2, <2>1
  <2>4. Pick(Append(r, e), P) = IF Len(r) + 1 \in P THEN Append(Pick(r, P), e) ELSE Pick(r, P)
    BY PickAppend
  <2>5. Pick(Append(r, e), Q) = IF Len(r) + 1 \in Q THEN Append(Pick(r, Q), e) ELSE Pick(r, Q)
    BY PickAppend
  <2> QED BY <2>2, <2>3, <2>4, <2>5
<1>3. \A r \in Seq(S) : r \in T
  <2> HIDE DEF T
  <2> QED BY <1>1, <1>2, Grown
<1> QED BY <1>3

\* What is picked are the elements at the positions.
LEMMA PickType ==
  ASSUME NEW S, NEW s \in Seq(S), NEW P, NEW R, \A i \in 1..Len(s) : i \in P => s[i] \in R
  PROVE  Pick(s, P) \in Seq(R)
<1> DEFINE T == {r \in Seq(S) :
                   (\A i \in 1..Len(r) : i \in P => r[i] \in R) => Pick(r, P) \in Seq(R)}
<1>1. <<>> \in T
  <2>1. Pick(<<>>, P) = <<>> /\ <<>> \in Seq(S) /\ <<>> \in Seq(R)
    BY PickEmpty
  <2> QED BY <2>1
<1>2. ASSUME NEW r \in Seq(S), NEW e \in S, r \in T PROVE Append(r, e) \in T
  <2>1. /\ Append(r, e) \in Seq(S) /\ Len(Append(r, e)) = Len(r) + 1 /\ Len(r) \in Nat
        /\ \A i \in 1..Len(r) : Append(r, e)[i] = r[i]
        /\ Append(r, e)[Len(r) + 1] = e
    OBVIOUS
  <2> SUFFICES ASSUME \A i \in 1..(Len(r) + 1) : i \in P => Append(r, e)[i] \in R
               PROVE  Pick(Append(r, e), P) \in Seq(R)
    BY <2>1
  <2>2. Len(r) + 1 \in P => e \in R
    BY <2>1
  <2>3. Pick(r, P) \in Seq(R)
    <3>1. \A i \in 1..Len(r) : i \in P => r[i] \in R
      BY <2>1
    <3> QED BY <1>2, <3>1
  <2>4. Pick(Append(r, e), P) = IF Len(r) + 1 \in P THEN Append(Pick(r, P), e) ELSE Pick(r, P)
    BY PickAppend
  <2> QED BY <2>2, <2>3, <2>4
<1>3. \A r \in Seq(S) : r \in T
  <2> HIDE DEF T
  <2> QED BY <1>1, <1>2, Grown
<1> QED BY <1>3

\* All of it, when no position is left out.
LEMMA PickAll ==
  ASSUME NEW S, NEW s \in Seq(S), NEW P, \A i \in 1..Len(s) : i \in P
  PROVE  Pick(s, P) = s
<1> DEFINE T == {r \in Seq(S) : (\A i \in 1..Len(r) : i \in P) => Pick(r, P) = r}
<1>1. <<>> \in T
  BY PickEmpty
<1>2. ASSUME NEW r \in Seq(S), NEW e \in S, r \in T PROVE Append(r, e) \in T
  <2>1. Append(r, e) \in Seq(S) /\ Len(Append(r, e)) = Len(r) + 1 /\ Len(r) \in Nat
    OBVIOUS
  <2>2. Pick(Append(r, e), P) = IF Len(r) + 1 \in P THEN Append(Pick(r, P), e) ELSE Pick(r, P)
    BY PickAppend
  <2> QED BY <1>2, <2>1, <2>2
<1>3. \A r \in Seq(S) : r \in T
  <2> HIDE DEF T
  <2> QED BY <1>1, <1>2, Grown
<1> QED BY <1>3

\* Nothing of it, when all are.
LEMMA PickNone ==
  ASSUME NEW S, NEW s \in Seq(S), NEW P, \A i \in 1..Len(s) : i \notin P
  PROVE  Pick(s, P) = <<>>
<1>1. Pick(s, P) \in Seq({})
  BY PickType
<1> QED BY <1>1

\* Of two sequences, what is picked of the one and then of the other.
LEMMA PickConcat ==
  ASSUME NEW S, NEW s \in Seq(S), NEW t \in Seq(S), NEW P, NEW Q,
         \A i \in 1..Len(t) : Len(s) + i \in P <=> i \in Q
  PROVE  Pick(s \o t, P) = Pick(s, P) \o Pick(t, Q)
<1> DEFINE T == {r \in Seq(S) :
                   (\A i \in 1..Len(r) : Len(s) + i \in P <=> i \in Q)
                     => Pick(s \o r, P) = Pick(s, P) \o Pick(r, Q)}
<1>0. \A X : Pick(s, X) \in Seq(S)
  BY PickType
<1>1. <<>> \in T
  <2>1. s \o <<>> = s /\ Pick(s, P) \o <<>> = Pick(s, P) /\ <<>> \in Seq(S)
    BY <1>0
  <2>2. Pick(<<>>, Q) = <<>>
    BY PickEmpty
  <2> QED BY <2>1, <2>2
<1>2. ASSUME NEW r \in Seq(S), NEW e \in S, r \in T PROVE Append(r, e) \in T
  <2>1. /\ Append(r, e) \in Seq(S) /\ Len(Append(r, e)) = Len(r) + 1 /\ Len(r) \in Nat
        /\ s \o Append(r, e) = Append(s \o r, e) /\ s \o r \in Seq(S)
        /\ Len(s \o r) = Len(s) + Len(r) /\ Len(s) \in Nat
    OBVIOUS
  <2> SUFFICES ASSUME \A i \in 1..(Len(r) + 1) : Len(s) + i \in P <=> i \in Q
               PROVE  Pick(s \o Append(r, e), P) = Pick(s, P) \o Pick(Append(r, e), Q)
    BY <2>1
  <2>2. Len(s) + (Len(r) + 1) \in P <=> Len(r) + 1 \in Q
    BY <2>1
  <2>3. Pick(s \o r, P) = Pick(s, P) \o Pick(r, Q)
    <3>1. \A i \in 1..Len(r) : Len(s) + i \in P <=> i \in Q
      BY <2>1
    <3> QED BY <1>2, <3>1
  <2>4. Pick(Append(r, e), Q) = IF Len(r) + 1 \in Q THEN Append(Pick(r, Q), e) ELSE Pick(r, Q)
    BY PickAppend
  <2>5. Pick(s \o Append(r, e), P) =
          IF Len(s) + (Len(r) + 1) \in P THEN Append(Pick(s \o r, P), e)
          ELSE Pick(s \o r, P)
    <3>1. Len(s \o r) + 1 = Len(s) + (Len(r) + 1)
      BY <2>1
    <3>2. Pick(Append(s \o r, e), P) =
            IF Len(s \o r) + 1 \in P THEN Append(Pick(s \o r, P), e) ELSE Pick(s \o r, P)
      <4>1. \A q \in Seq(S) : Pick(Append(q, e), P) =
              IF Len(q) + 1 \in P THEN Append(Pick(q, P), e) ELSE Pick(q, P)
        BY PickAppend
      <4> QED BY <2>1, <4>1
    <3>3. Pick(s \o Append(r, e), P) = Pick(Append(s \o r, e), P)
      BY <2>1
    <3> QED BY <3>1, <3>2, <3>3
  <2>6. Pick(s, P) \in Seq(S) /\ Pick(r, Q) \in Seq(S)
    BY PickType
  <2>7. Pick(s, P) \o Append(Pick(r, Q), e) = Append(Pick(s, P) \o Pick(r, Q), e)
    BY <2>6
  <2> QED BY <2>2, <2>3, <2>4, <2>5, <2>7
<1>3. \A r \in Seq(S) : r \in T
  <2> HIDE DEF T
  <2> QED BY <1>1, <1>2, Grown
<1> QED BY <1>3

-----------------------------------------------------------------------------
(* Trim.                                                                   *)

\* What is left when blanks are cut off is a text.
LEMMA TrimType ==
  ASSUME NEW text \in Seq(Char)
  PROVE  Trim(text) \in Seq(Char)
<1> DEFINE solid == {i \in DOMAIN text : text[i] # "_"}
<1>0. DOMAIN text = 1..Len(text) /\ Len(text) \in Nat
  OBVIOUS
<1>1. solid \subseteq 1..Len(text) /\ Len(text) \in Nat
  BY <1>0
<1>2. CASE solid = {}
  <2>1. Trim(text) = <<>>
    BY <1>2 DEF Trim
  <2> QED BY <2>1
<1>3. CASE solid # {}
  <2> HIDE DEF solid
  <2>1. solid \subseteq Nat /\ \A a \in solid : a <= Len(text)
    BY <1>1
  <2>2. Min(solid) \in 1..Len(text) /\ Max(solid) \in 1..Len(text)
    BY <1>1, <1>3, <2>1, MinIs, MaxIs
  <2>3. \A i \in Min(solid)..Max(solid) : text[i] \in Char
    BY <2>2
  <2>4. SubSeq(text, Min(solid), Max(solid)) \in Seq(Char)
    BY <2>2, <2>3, SubSeqProperties
  <2>5. Trim(text) = SubSeq(text, Min(solid), Max(solid))
    BY <1>3 DEF Trim, solid
  <2> QED BY <2>4, <2>5
<1> QED BY <1>2, <1>3

\* What is outside some spans is a text.
LEMMA OutsideType ==
  ASSUME NEW text \in Seq(Char), NEW spans
  PROVE  Outside(text, spans) \in Seq(Char)
<1> DEFINE P == {i \in DOMAIN text : \A e \in spans : i \notin e[1]..e[2]}
<1>1. \A i \in 1..Len(text) : text[i] \in Char
  OBVIOUS
<1>2. Outside(text, spans) = Pick(text, P)
  BY DEF Outside
<1> HIDE DEF P
<1> QED BY <1>1, <1>2, PickType

-----------------------------------------------------------------------------
(* Tags.                                                                   *)

Tag == {OPEN, CLOSE}

\* The tags are short texts.
LEMMA TagType ==
  ASSUME NEW tag \in Tag
  PROVE  /\ tag \in Seq(Char) /\ Len(tag) \in {3, 4}
         /\ Len(tag) \in Nat /\ 3 <= Len(tag)
<1>1. OPEN \in Seq(Char) /\ Len(OPEN) = 3
  <2>1. "<" \in Char /\ "t" \in Char /\ ">" \in Char
    BY DEF Char
  <2> QED BY <2>1 DEF OPEN
<1>2. CLOSE \in Seq(Char) /\ Len(CLOSE) = 4
  <2>1. "<" \in Char /\ "/" \in Char /\ "t" \in Char /\ ">" \in Char
    BY DEF Char
  <2> QED BY <2>1 DEF CLOSE
<1>3. \A n \in {3, 4} : n \in Nat /\ 3 <= n
  OBVIOUS
<1> QED BY <1>1, <1>2, <1>3 DEF Tag


\* A tag is at a position when its characters are there.
LEMMA HasIs ==
  ASSUME NEW text \in Seq(Char), NEW i \in 1..Len(text), NEW tag \in Tag
  PROVE  Has(text, i, tag) <=>
           i + Len(tag) - 1 <= Len(text) /\ \A k \in 1..Len(tag) : text[i + k - 1] = tag[k]
<1> DEFINE n == Len(tag)
           s == SubSeq(text, i, i + n - 1)
<1>1. tag \in Seq(Char) /\ n \in Nat /\ n > 0 /\ Len(text) \in Nat
  <2>1. tag \in Seq(Char) /\ n \in Nat /\ 3 <= n
    BY TagType
  <2>2. Len(text) \in Nat
    OBVIOUS
  <2> HIDE DEF n
  <2> QED BY <2>1, <2>2
<1> HIDE DEF n
<1>2. ASSUME i + n - 1 <= Len(text)
      PROVE  s = tag <=> \A k \in 1..n : text[i + k - 1] = tag[k]
  <2>1. i \in Int /\ i + n - 1 \in Int /\ \A k \in i..(i + n - 1) : text[k] \in Char
    BY <1>1, <1>2
  <2>2. /\ s \in Seq(Char) /\ Len(s) = n
        /\ \A k \in 1..n : s[k] = text[i + k - 1]
    <3>1. /\ s \in Seq(Char)
          /\ Len(s) = IF i <= i + n - 1 THEN (i + n - 1) - i + 1 ELSE 0
          /\ \A k \in 1..((i + n - 1) - i + 1) : s[k] = text[i + k - 1]
      BY <2>1, SubSeqProperties
    <3>2. (i + n - 1) - i + 1 = n /\ i <= i + n - 1
      BY <1>1
    <3> QED BY <3>1, <3>2
  <2> HIDE DEF s
  <2>3. ASSUME \A k \in 1..n : text[i + k - 1] = tag[k] PROVE s = tag
    <3>1. \A k \in 1..Len(s) : s[k] = tag[k]
      BY <2>2, <2>3
    <3> QED BY <1>1, <2>2, <3>1, SeqEqual DEF n
  <2> QED BY <2>2, <2>3
<1> QED BY <1>2 DEF Has, n

\* The tags' characters; only the first is the one both begin with.
LEMMA TagChars ==
  /\ Len(OPEN) = 3 /\ OPEN[1] = "<" /\ OPEN[2] = "t" /\ OPEN[3] = ">"
  /\ Len(CLOSE) = 4 /\ CLOSE[1] = "<" /\ CLOSE[2] = "/" /\ CLOSE[3] = "t" /\ CLOSE[4] = ">"
BY DEF OPEN, CLOSE

\* Only the first character of a tag begins one.
LEMMA TagHead ==
  ASSUME NEW tag \in Tag
  PROVE  tag[1] = "<" /\ \A k \in 2..Len(tag) : tag[k] # "<"
BY TagChars DEF Tag

\* Two tags do not overlap, and at one position there is one.
LEMMA TagsApart ==
  ASSUME NEW text \in Seq(Char), NEW i \in 1..Len(text), NEW j \in 1..Len(text),
         NEW s \in Tag, NEW t \in Tag, Has(text, i, s), Has(text, j, t)
  PROVE  /\ i < j => i + Len(s) <= j
         /\ i = j => s = t
<1>1. /\ Len(s) \in Nat /\ Len(t) \in Nat /\ 3 <= Len(s) /\ 3 <= Len(t)
      /\ s[1] = "<" /\ \A k \in 2..Len(s) : s[k] # "<"
      /\ t[1] = "<"
  BY TagType, TagHead
<1>2. /\ \A k \in 1..Len(s) : text[i + k - 1] = s[k]
      /\ \A k \in 1..Len(t) : text[j + k - 1] = t[k]
  BY HasIs
<1>3. ASSUME i < j, j < i + Len(s) PROVE FALSE
  <2>1. j - i + 1 \in 2..Len(s) /\ i + (j - i + 1) - 1 = j /\ j + 1 - 1 = j /\ 1 \in 1..Len(t)
    <3>1. i \in Int /\ j \in Int /\ Len(s) \in Int /\ Len(t) \in Int /\ 3 <= Len(t)
      BY <1>1
    <3> QED BY <1>3, <3>1
  <2>2. text[i + (j - i + 1) - 1] = s[j - i + 1] /\ text[j + 1 - 1] = t[1]
    BY <1>1, <1>2, <2>1
  <2> QED BY <1>1, <2>1, <2>2
<1>4. ASSUME i = j PROVE s = t
  <2>1. 2 \in 1..Len(s) /\ 2 \in 1..Len(t)
    BY <1>1
  <2>2. s[2] = t[2]
    BY <1>2, <1>4, <2>1
  <2> QED BY <2>2, TagChars DEF Tag
<1> QED BY <1>1, <1>3, <1>4

\* What is at a position of the second of two texts.
LEMMA TagShift ==
  ASSUME NEW d \in Seq(Char), NEW r \in Seq(Char), NEW j \in 1..Len(r), NEW tag \in Tag
  PROVE  Len(d) + j \in 1..Len(d \o r) /\ (Has(d \o r, Len(d) + j, tag) <=> Has(r, j, tag))
<1> DEFINE n == Len(d)
           w == d \o r
<1>1. /\ w \in Seq(Char) /\ n \in Nat /\ Len(r) \in Nat /\ Len(w) = n + Len(r)
      /\ \A k \in 1..Len(r) : w[n + k] = r[k]
  OBVIOUS
<1>2. Len(tag) \in Nat
  BY TagType
<1> HIDE DEF n, w
<1>3. n + j \in 1..Len(w)
  BY <1>1
<1>4. Has(w, n + j, tag) <=>
        n + j + Len(tag) - 1 <= Len(w) /\ \A k \in 1..Len(tag) : w[n + j + k - 1] = tag[k]
  BY <1>1, <1>3, HasIs
<1>5. Has(r, j, tag) <=>
        j + Len(tag) - 1 <= Len(r) /\ \A k \in 1..Len(tag) : r[j + k - 1] = tag[k]
  BY HasIs
<1>6. ASSUME j + Len(tag) - 1 <= Len(r), NEW k \in 1..Len(tag)
      PROVE  w[n + j + k - 1] = r[j + k - 1]
  <2>1. j + k - 1 \in 1..Len(r) /\ n + (j + k - 1) = n + j + k - 1
    BY <1>1, <1>2, <1>6
  <2> QED BY <1>1, <2>1
<1>7. n + j + Len(tag) - 1 <= Len(w) <=> j + Len(tag) - 1 <= Len(r)
  BY <1>1, <1>2
<1> QED BY <1>3, <1>4, <1>5, <1>6, <1>7 DEF n, w

\* What is at a position of the first.
LEMMA TagKept ==
  ASSUME NEW d \in Seq(Char), NEW r \in Seq(Char), NEW j \in 1..Len(d), NEW tag \in Tag
  PROVE  /\ j \in 1..Len(d \o r)
         /\ Has(d, j, tag) <=> Has(d \o r, j, tag) /\ j + Len(tag) - 1 <= Len(d)
<1> DEFINE n == Len(d)
           w == d \o r
<1>1. /\ w \in Seq(Char) /\ n \in Nat /\ Len(r) \in Nat /\ Len(w) = n + Len(r)
      /\ \A k \in 1..n : w[k] = d[k]
  OBVIOUS
<1>2. Len(tag) \in Nat
  BY TagType
<1> HIDE DEF n, w
<1>3. j \in 1..Len(w) /\ j \in 1..n
  BY <1>1 DEF n
<1>4. Has(w, j, tag) <=>
        j + Len(tag) - 1 <= Len(w) /\ \A k \in 1..Len(tag) : w[j + k - 1] = tag[k]
  BY <1>1, <1>3, HasIs
<1>5. Has(d, j, tag) <=>
        j + Len(tag) - 1 <= n /\ \A k \in 1..Len(tag) : d[j + k - 1] = tag[k]
  BY HasIs DEF n
<1>6. ASSUME j + Len(tag) - 1 <= n, NEW k \in 1..Len(tag)
      PROVE  w[j + k - 1] = d[j + k - 1]
  <2>1. j + k - 1 \in 1..n
    BY <1>1, <1>2, <1>3, <1>6
  <2> QED BY <1>1, <2>1
<1>7. j + Len(tag) - 1 <= n => j + Len(tag) - 1 <= Len(w)
  BY <1>1, <1>2
<1> QED BY <1>3, <1>4, <1>5, <1>6, <1>7 DEF n, w

-----------------------------------------------------------------------------
(* What is visible of a text.                                              *)

InTag(text, i) ==
  \/ \E o \in Opens(text) : i \in o..(o + 2)
  \/ \E c \in Closes(text) : i \in c..(c + 3)

\* Position i is reasoning; b: the text begins in the middle of it.
Thinking(b, text, i) ==
  \/ \E o \in Opens(text) : o < i /\ \A c \in Closes(text) : ~(o < c /\ c < i)
  \/ b /\ \A c \in Closes(text) : ~(c < i)

Seen(b, text) == {i \in DOMAIN text : ~InTag(text, i) /\ ~Thinking(b, text, i)}
VisibleFrom(b, text) == Pick(text, Seen(b, text))

\* A whole text begins outside a block.
LEMMA VisibleIs ==
  ASSUME NEW text \in Seq(Char)
  PROVE  Visible[text] = VisibleFrom(FALSE, text)
<1> DEFINE In(i) == \/ \E o \in Opens(text) : i \in o..(o + Len(OPEN) - 1)
                    \/ \E c \in Closes(text) : i \in c..(c + Len(CLOSE) - 1)
           Mull(i) == \E o \in Opens(text) : o < i /\ \A c \in Closes(text) : ~(o < c /\ c < i)
           P == {i \in DOMAIN text : ~In(i) /\ ~Mull(i)}
<1>1. Visible[text] = Pick(text, P)
  BY DEF Visible
<1>2. Opens(text) \subseteq Nat /\ Closes(text) \subseteq Nat
  BY DEF Opens, Closes
<1>3. \A i \in DOMAIN text : In(i) <=> InTag(text, i)
  <2>1. \A o \in Nat : o + Len(OPEN) - 1 = o + 2 /\ o + Len(CLOSE) - 1 = o + 3
    BY TagChars
  <2> QED BY <1>2, <2>1 DEF InTag
<1>4. P = Seen(FALSE, text)
  BY <1>3 DEF Seen, Thinking
<1> QED BY <1>1, <1>4 DEF VisibleFrom

\* What is visible of a text is a text.
LEMMA VisibleType ==
  ASSUME NEW text \in Seq(Char), NEW b
  PROVE  VisibleFrom(b, text) \in Seq(Char)
<1>1. \A i \in 1..Len(text) : text[i] \in Char
  OBVIOUS
<1> QED BY <1>1, PickType DEF VisibleFrom

\* Where the tags of a text are.
LEMMA TagPlaces ==
  ASSUME NEW text \in Seq(Char)
  PROVE  /\ Opens(text) = {i \in 1..Len(text) : Has(text, i, OPEN)}
         /\ Closes(text) = {i \in 1..Len(text) : Has(text, i, CLOSE)}
         /\ Opens(text) \subseteq Nat /\ Closes(text) \subseteq Nat
BY DEF Opens, Closes

\* O and C: the places of the tags; Or and Cr: those behind the one at i.
Split(O, C, Or, Cr, n, i, b, opens) ==
  /\ O \subseteq Nat /\ C \subseteq Nat /\ Or \subseteq Nat /\ Cr \subseteq Nat
  /\ 0 \notin Or /\ 0 \notin Cr /\ n \in Nat /\ i \in Nat /\ 0 < i /\ i <= n
  /\ b \in BOOLEAN /\ opens \in BOOLEAN /\ b => ~opens
  /\ n = i + (IF opens THEN 2 ELSE 3)
  /\ \A k \in Nat : k > 0 => (n + k \in O <=> k \in Or) /\ (n + k \in C <=> k \in Cr)
  /\ \A o \in O : (o < i /\ o + 3 <= i) \/ (o = i /\ opens) \/ n < o
  /\ \A c \in C : (c = i /\ ~opens) \/ n < c
  /\ opens => i \in O
  /\ ~opens => i \in C

\* The positions behind the first tag that counts are as those of what is left.
LEMMA Behind ==
  ASSUME NEW O, NEW C, NEW Or, NEW Cr, NEW n, NEW i, NEW b, NEW opens,
         Split(O, C, Or, Cr, n, i, b, opens), NEW j \in Nat, j > 0
  PROVE  /\ (\E o \in O : n + j \in o..(o + 2)) \/ (\E c \in C : n + j \in c..(c + 3))
              <=> (\E o \in Or : j \in o..(o + 2)) \/ (\E c \in Cr : j \in c..(c + 3))
         /\ \/ \E o \in O : o < n + j /\ \A c \in C : ~(o < c /\ c < n + j)
            \/ b /\ \A c \in C : ~(c < n + j)
            <=>
            \/ \E o \in Or : o < j /\ \A c \in Cr : ~(o < c /\ c < j)
            \/ opens /\ \A c \in Cr : ~(c < j)
<1> USE DEF Split
<1>1. ASSUME NEW o \in O, n + j \in o..(o + 2) PROVE \E q \in Or : j \in q..(q + 2)
  <2>1. n < o
    BY <1>1
  <2>2. o - n \in Nat /\ o - n > 0 /\ n + (o - n) = o
    BY <1>1, <2>1
  <2>3. o - n \in Or
    BY <1>1, <2>2
  <2>4. j \in (o - n)..((o - n) + 2)
    BY <1>1, <2>2
  <2> QED BY <2>3, <2>4
<1>2. ASSUME NEW c \in C, n + j \in c..(c + 3) PROVE \E q \in Cr : j \in q..(q + 3)
  <2>1. n < c
    BY <1>2
  <2>2. c - n \in Nat /\ c - n > 0 /\ n + (c - n) = c
    BY <1>2, <2>1
  <2>3. c - n \in Cr
    BY <1>2, <2>2
  <2>4. j \in (c - n)..((c - n) + 3)
    BY <1>2, <2>2
  <2> QED BY <2>3, <2>4
<1>3. ASSUME NEW q \in Or, j \in q..(q + 2) PROVE \E o \in O : n + j \in o..(o + 2)
  <2>1. q \in Nat /\ q > 0
    BY <1>3
  <2>2. n + q \in O
    BY <1>3, <2>1
  <2>3. n + j \in (n + q)..((n + q) + 2)
    BY <1>3, <2>1
  <2> QED BY <2>2, <2>3
<1>4. ASSUME NEW q \in Cr, j \in q..(q + 3) PROVE \E c \in C : n + j \in c..(c + 3)
  <2>1. q \in Nat /\ q > 0
    BY <1>4
  <2>2. n + q \in C
    BY <1>4, <2>1
  <2>3. n + j \in (n + q)..((n + q) + 3)
    BY <1>4, <2>1
  <2> QED BY <2>2, <2>3
<1>5. ASSUME NEW c \in Cr, c < j PROVE n + c \in C /\ n < n + c /\ n + c < n + j
  BY <1>5
<1>6. ASSUME NEW c \in C, n < c, c < n + j PROVE c - n \in Cr /\ c - n < j
  <2>1. c - n \in Nat /\ c - n > 0 /\ n + (c - n) = c
    BY <1>6
  <2> QED BY <1>6, <2>1
<1>7. ASSUME NEW o \in O, o < n + j, \A c \in C : ~(o < c /\ c < n + j)
      PROVE  \/ \E q \in Or : q < j /\ \A c \in Cr : ~(q < c /\ c < j)
             \/ opens /\ \A c \in Cr : ~(c < j)
  <2>1. CASE n < o
    <3>1. o - n \in Nat /\ o - n > 0 /\ n + (o - n) = o /\ o - n < j
      BY <1>7, <2>1
    <3>2. o - n \in Or
      BY <1>7, <3>1
    <3>3. ASSUME NEW c \in Cr, o - n < c, c < j PROVE FALSE
      <4>1. n + c \in C /\ o < n + c /\ n + c < n + j
        BY <1>5, <3>1, <3>3
      <4> QED BY <1>7, <4>1
    <3> QED BY <3>1, <3>2, <3>3
  <2>2. CASE ~(n < o)
    <3>1. o <= i /\ i < n + j
      BY <1>7, <2>2
    <3>2. opens
      BY <1>7, <2>2, <3>1
    <3>3. ASSUME NEW c \in Cr, c < j PROVE FALSE
      <4>1. n + c \in C /\ o < n + c /\ n + c < n + j
        BY <1>5, <3>1, <3>3
      <4> QED BY <1>7, <4>1
    <3> QED BY <3>2, <3>3
  <2> QED BY <2>1, <2>2
<1>8. ~(b /\ \A c \in C : ~(c < n + j))
  <2>1. i < n + j
    OBVIOUS
  <2> QED BY <2>1
<1>9. ASSUME NEW q \in Or, q < j, \A c \in Cr : ~(q < c /\ c < j)
      PROVE  \E o \in O : o < n + j /\ \A c \in C : ~(o < c /\ c < n + j)
  <2>1. q \in Nat /\ q > 0
    BY <1>9
  <2>2. n + q \in O /\ n + q < n + j
    BY <1>9, <2>1
  <2>3. ASSUME NEW c \in C, n + q < c, c < n + j PROVE FALSE
    <3>1. c - n \in Cr /\ c - n < j /\ q < c - n
      BY <1>6, <2>1, <2>3
    <3> QED BY <1>9, <3>1
  <2> QED BY <2>2, <2>3
<1>10. ASSUME opens, \A c \in Cr : ~(c < j)
       PROVE  \E o \in O : o < n + j /\ \A c \in C : ~(o < c /\ c < n + j)
  <2>1. i \in O /\ i < n + j
    BY <1>10
  <2>2. ASSUME NEW c \in C, i < c, c < n + j PROVE FALSE
    <3>1. n < c
      BY <1>10, <2>2
    <3>2. c - n \in Cr /\ c - n < j
      BY <1>6, <2>2, <3>1
    <3> QED BY <1>10, <3>2
  <2> QED BY <2>1, <2>2
<1> QED BY <1>1, <1>2, <1>3, <1>4, <1>7, <1>8, <1>9, <1>10

\* The tags of the second of two texts.
LEMMA Shifted ==
  ASSUME NEW d \in Seq(Char), NEW r \in Seq(Char), NEW k \in Nat, k > 0
  PROVE  /\ Len(d) + k \in Opens(d \o r) <=> k \in Opens(r)
         /\ Len(d) + k \in Closes(d \o r) <=> k \in Closes(r)
<1> DEFINE w == d \o r
           n == Len(d)
<1>1. w \in Seq(Char) /\ Len(w) = n + Len(r) /\ n \in Nat /\ Len(r) \in Nat
  BY Joined
<1>2. k \in 1..Len(r) => \A t \in Tag : Has(w, n + k, t) <=> Has(r, k, t)
  BY TagShift
<1>3. OPEN \in Tag /\ CLOSE \in Tag
  BY DEF Tag
<1> HIDE DEF w, n
<1>4. n + k \in 1..Len(w) <=> k \in 1..Len(r)
  BY <1>1
<1>5. /\ Opens(w) = {j \in 1..Len(w) : Has(w, j, OPEN)}
      /\ Closes(w) = {j \in 1..Len(w) : Has(w, j, CLOSE)}
      /\ Opens(r) = {j \in 1..Len(r) : Has(r, j, OPEN)}
      /\ Closes(r) = {j \in 1..Len(r) : Has(r, j, CLOSE)}
  BY <1>1, TagPlaces
<1>6. n + k \in Opens(w) <=> k \in Opens(r)
  BY <1>2, <1>3, <1>4, <1>5
<1>7. n + k \in Closes(w) <=> k \in Closes(r)
  BY <1>2, <1>3, <1>4, <1>5
<1> QED BY <1>6, <1>7 DEF w, n

\* b: the text begins in reasoning; the tag at i is the first that counts.
Counts(text, i, tag, b) ==
  /\ i \in 1..Len(text) /\ tag \in Tag /\ Has(text, i, tag)
  /\ b => tag = CLOSE
  /\ \A c \in Closes(text) : i <= c
  /\ b \/ \A o \in Opens(text) : i <= o

\* A tag at i ends at n.
EndsTag(n, i, tag) == n = i + Len(tag) - 1

\* In d \o r, begun in b, the part r reads as it does alone after the tag.
SeenAlike(d, r, b, tag) ==
  \A k \in 1..Len(r) : Len(d) + k \in Seen(b, d \o r) <=> k \in Seen(tag = OPEN, r)

\* The other tags are before it or behind it.
LEMMA Around ==
  ASSUME NEW text \in Seq(Char), NEW i, NEW tag, NEW b \in BOOLEAN, Counts(text, i, tag, b)
  PROVE  LET opens == tag = OPEN
             n == i + (IF opens THEN 2 ELSE 3)
         IN  /\ n = i + Len(tag) - 1 /\ n \in Nat /\ i \in Nat /\ 0 < i /\ i <= n
             /\ \A o \in Opens(text) : (o < i /\ o + 3 <= i) \/ (o = i /\ opens) \/ n < o
             /\ \A c \in Closes(text) : (c = i /\ ~opens) \/ n < c
             /\ opens => i \in Opens(text)
             /\ ~opens => i \in Closes(text)
<1> DEFINE opens == tag = OPEN
           n == i + (IF opens THEN 2 ELSE 3)
<1>1. i \in Nat /\ 0 < i /\ i \in 1..Len(text) /\ tag \in Tag /\ Has(text, i, tag)
      /\ \A c \in Closes(text) : i <= c
  <2>1. i \in 1..Len(text) /\ Len(text) \in Nat
    BY DEF Counts
  <2> QED BY <2>1 DEF Counts
<1>2. tag = OPEN \/ (tag = CLOSE /\ tag # OPEN)
  BY <1>1, TagChars DEF Tag
<1>3. Len(tag) = IF opens THEN 3 ELSE 4
  BY <1>2, TagChars
<1> HIDE DEF opens
<1>4. n = i + Len(tag) - 1 /\ n \in Nat /\ i <= n /\ i + Len(tag) = n + 1
  <2> HIDE DEF Tag
  <2>1. i \in Nat
    BY <1>1
  <2>2. CASE opens
    BY <1>3, <2>1, <2>2
  <2>3. CASE ~opens
    BY <1>3, <2>1, <2>3
  <2> QED BY <2>2, <2>3
<1>5. /\ Opens(text) = {j \in 1..Len(text) : Has(text, j, OPEN)}
      /\ Closes(text) = {j \in 1..Len(text) : Has(text, j, CLOSE)}
      /\ Opens(text) \subseteq Nat /\ Closes(text) \subseteq Nat
  BY TagPlaces
<1>6. OPEN \in Tag /\ CLOSE \in Tag /\ OPEN # CLOSE
  BY TagChars DEF Tag
<1> HIDE DEF n
<1>7. ASSUME NEW o \in Opens(text)
      PROVE  (o < i /\ o + 3 <= i) \/ (o = i /\ opens) \/ n < o
  <2>1. o \in 1..Len(text) /\ Has(text, o, OPEN) /\ o \in Nat
    BY <1>5, <1>7
  <2>2. /\ o < i => o + Len(OPEN) <= i
        /\ o = i => OPEN = tag
    BY <1>1, <1>6, <2>1, TagsApart
  <2>3. i < o => i + Len(tag) <= o
    BY <1>1, <1>6, <2>1, TagsApart
  <2>4. Len(OPEN) = 3
    BY TagChars
  <2> QED BY <1>1, <1>4, <2>1, <2>2, <2>3, <2>4 DEF opens
<1>8. ASSUME NEW c \in Closes(text)
      PROVE  (c = i /\ ~opens) \/ n < c
  <2>1. c \in 1..Len(text) /\ Has(text, c, CLOSE) /\ c \in Nat /\ i <= c
    BY <1>1, <1>5, <1>8
  <2>2. c = i => CLOSE = tag
    BY <1>1, <1>6, <2>1, TagsApart
  <2>3. i < c => i + Len(tag) <= c
    BY <1>1, <1>6, <2>1, TagsApart
  <2> QED BY <1>1, <1>4, <1>6, <2>1, <2>2, <2>3 DEF opens
<1>9. /\ opens => i \in Opens(text)
      /\ ~opens => i \in Closes(text)
  BY <1>1, <1>2, <1>5 DEF opens
<1> QED BY <1>1, <1>4, <1>7, <1>8, <1>9 DEF n, opens

\* A text cut behind one of its tags.
LEMMA CutBehind ==
  ASSUME NEW text \in Seq(Char), NEW i \in 1..Len(text), NEW tag \in Tag, Has(text, i, tag)
  PROVE  LET n == i + Len(tag) - 1
             a == SubSeq(text, 1, i - 1)
             g == SubSeq(text, i, n)
             r == SubSeq(text, i + Len(tag), Len(text))
         IN  /\ n \in Nat /\ i <= n /\ n <= Len(text)
             /\ a \in Seq(Char) /\ g \in Seq(Char) /\ r \in Seq(Char)
             /\ Len(a) = i - 1 /\ Len(a \o g) = n
             /\ text = (a \o g) \o r
<1> DEFINE n == i + Len(tag) - 1
           a == SubSeq(text, 1, i - 1)
           g == SubSeq(text, i, n)
           r == SubSeq(text, i + Len(tag), Len(text))
<1>1. /\ n \in Nat /\ i <= n /\ n <= Len(text) /\ i + Len(tag) = n + 1 /\ Len(text) \in Nat
      /\ i - 1 \in Nat
  <2>1. Len(tag) \in Nat /\ 3 <= Len(tag)
    BY TagType
  <2>2. n <= Len(text)
    BY HasIs
  <2>3. Len(text) \in Nat
    OBVIOUS
  <2> QED BY <2>1, <2>2, <2>3
<1> HIDE DEF n
<1>2. r = SubSeq(text, n + 1, Len(text))
  BY <1>1
<1> HIDE DEF r
<1>3. \A k \in 1..Len(text) : text[k] \in Char
  OBVIOUS
<1>4. /\ a \in Seq(Char) /\ Len(a) = IF 1 <= i - 1 THEN (i - 1) - 1 + 1 ELSE 0
      /\ g \in Seq(Char) /\ Len(g) = IF i <= n THEN n - i + 1 ELSE 0
      /\ r \in Seq(Char)
  BY <1>1, <1>2, <1>3, SubSeqProperties
<1>5. a \o g = SubSeq(text, 1, n)
  <2>1. 1 \in 1..(Len(text) + 1) /\ i - 1 \in (1 - 1)..Len(text) /\ n \in (i - 1)..Len(text)
        /\ (i - 1) + 1 = i
    BY <1>1
  <2>2. SubSeq(text, 1, i - 1) \o SubSeq(text, (i - 1) + 1, n) = SubSeq(text, 1, n)
    BY <2>1, ConcatAdjacentSubSeq
  <2> QED BY <2>1, <2>2
<1>6. SubSeq(text, 1, n) \o r = text
  <2>1. 1 \in 1..(Len(text) + 1) /\ n \in (1 - 1)..Len(text) /\ Len(text) \in n..Len(text)
    BY <1>1
  <2>2. SubSeq(text, 1, n) \o SubSeq(text, n + 1, Len(text)) = SubSeq(text, 1, Len(text))
    BY <2>1, ConcatAdjacentSubSeq
  <2>3. SubSeq(text, 1, Len(text)) = text
    BY SubSeqFull
  <2> QED BY <1>2, <2>2, <2>3
<1>7. Len(a) = i - 1 /\ Len(a) + Len(g) = n
  <2> HIDE DEF a, g
  <2> QED BY <1>1, <1>4
<1> HIDE DEF a, g
<1>8. Len(a \o g) = Len(a) + Len(g)
  BY <1>4, Joined
<1> QED BY <1>1, <1>4, <1>5, <1>6, <1>7, <1>8 DEF n, a, g, r

\* Behind the tag the text is seen as a text of its own.
LEMMA SeenBehind ==
  ASSUME NEW d \in Seq(Char), NEW r \in Seq(Char), NEW i, NEW tag, NEW b \in BOOLEAN,
         Counts(d \o r, i, tag, b), EndsTag(Len(d), i, tag)
  PROVE  SeenAlike(d, r, b, tag)
<1> SUFFICES ASSUME NEW k \in 1..Len(r)
             PROVE  Len(d) + k \in Seen(b, d \o r) <=> k \in Seen(tag = OPEN, r)
  BY DEF SeenAlike
<1> DEFINE text == d \o r
           n == Len(d)
           O == Opens(text)
           C == Closes(text)
           Or == Opens(r)
           Cr == Closes(r)
           opens == tag = OPEN
<1>1. /\ text \in Seq(Char) /\ Len(text) = n + Len(r) /\ n \in Nat /\ Len(r) \in Nat
      /\ DOMAIN text = 1..Len(text) /\ DOMAIN r = 1..Len(r)
  BY TextJoin
<1>2. \A j \in Nat : j > 0 => (n + j \in O <=> j \in Or) /\ (n + j \in C <=> j \in Cr)
  BY Shifted
<1> HIDE DEF text
<1>3. /\ n = i + (IF opens THEN 2 ELSE 3) /\ i \in Nat /\ 0 < i /\ i <= n
      /\ \A o \in O : (o < i /\ o + 3 <= i) \/ (o = i /\ opens) \/ n < o
      /\ \A c \in C : (c = i /\ ~opens) \/ n < c
      /\ opens => i \in O
      /\ ~opens => i \in C
  <2> HIDE DEF n
  <2>1. Counts(text, i, tag, b) /\ n = i + Len(tag) - 1
    BY DEF text, n, EndsTag
  <2> QED BY <1>1, <2>1, Around
<1>4. b => ~opens
  BY TagChars DEF Counts
<1>5. O \subseteq Nat /\ C \subseteq Nat /\ Or \subseteq Nat /\ Cr \subseteq Nat
      /\ 0 \notin Or /\ 0 \notin Cr
  <2>1. /\ O \subseteq Nat /\ C \subseteq Nat /\ Or \subseteq Nat /\ Cr \subseteq Nat
        /\ Or = {j \in 1..Len(r) : Has(r, j, OPEN)} /\ Cr = {j \in 1..Len(r) : Has(r, j, CLOSE)}
    BY <1>1, TagPlaces
  <2> HIDE DEF O, C, Or, Cr
  <2> QED BY <2>1
<1> HIDE DEF n, O, C, Or, Cr, opens
<1>6. opens \in BOOLEAN /\ k \in Nat /\ k > 0
  BY DEF opens
<1>7. /\ (\E o \in O : n + k \in o..(o + 2)) \/ (\E c \in C : n + k \in c..(c + 3))
            <=> (\E o \in Or : k \in o..(o + 2)) \/ (\E c \in Cr : k \in c..(c + 3))
      /\ \/ \E o \in O : o < n + k /\ \A c \in C : ~(o < c /\ c < n + k)
         \/ b /\ \A c \in C : ~(c < n + k)
         <=>
         \/ \E o \in Or : o < k /\ \A c \in Cr : ~(o < c /\ c < k)
         \/ opens /\ \A c \in Cr : ~(c < k)
  <2>1. Split(O, C, Or, Cr, n, i, b, opens)
    BY <1>1, <1>2, <1>3, <1>4, <1>5, <1>6 DEF Split
  <2> QED BY <1>6, <2>1, Behind
<1>8. InTag(text, n + k) <=> InTag(r, k)
  BY <1>7 DEF InTag, O, C, Or, Cr
<1>9. Thinking(b, text, n + k) <=> Thinking(opens, r, k)
  BY <1>7 DEF Thinking, O, C, Or, Cr
<1>10. n + k \in 1..Len(text) /\ k \in 1..Len(r)
  BY <1>1, <1>6
<1>11. n + k \in DOMAIN text /\ k \in DOMAIN r
  BY <1>1, <1>10
<1>12. n + k \in Seen(b, text) <=> k \in Seen(opens, r)
  BY <1>8, <1>9, <1>11 DEF Seen
<1> QED BY <1>12 DEF text, n, opens

\* Before it the text is seen, or not, as it began, and the tag itself is not.
LEMMA SeenBefore ==
  ASSUME NEW text \in Seq(Char), NEW i, NEW tag, NEW b \in BOOLEAN, Counts(text, i, tag, b),
         NEW k \in 1..(i + Len(tag) - 1)
  PROVE  k \in Seen(b, text) <=> k < i /\ ~b
<1> DEFINE opens == tag = OPEN
           n == i + (IF opens THEN 2 ELSE 3)
           O == Opens(text)
           C == Closes(text)
<1>1. /\ n = i + Len(tag) - 1 /\ n \in Nat /\ i \in Nat /\ 0 < i /\ i <= n
      /\ \A o \in O : (o < i /\ o + 3 <= i) \/ (o = i /\ opens) \/ n < o
      /\ \A c \in C : (c = i /\ ~opens) \/ n < c
      /\ opens => i \in O
      /\ ~opens => i \in C
  BY Around
<1>2. O \subseteq Nat /\ C \subseteq Nat
  BY TagPlaces
<1>3. b \/ \A o \in O : i <= o
  BY DEF Counts
<1>4. k \in DOMAIN text /\ k \in Nat /\ k <= n
  <2>1. n <= Len(text)
    BY <1>1, HasIs DEF Counts
  <2>2. Len(text) \in Nat /\ DOMAIN text = 1..Len(text)
    OBVIOUS
  <2> HIDE DEF n
  <2> QED BY <1>1, <2>1, <2>2
<1> HIDE DEF O, C
<1>5. CASE k < i /\ b
  <2>1. Thinking(b, text, k)
    BY <1>1, <1>2, <1>4, <1>5 DEF Thinking, C
  <2> QED BY <1>5, <2>1 DEF Seen
<1>6. CASE k < i /\ ~b
  <2>1. \A o \in O : k < o
    BY <1>2, <1>3, <1>4, <1>6, <1>1
  <2>2. \A c \in C : k < c
    BY <1>2, <1>4, <1>6, <1>1
  <2>3. ~InTag(text, k)
    BY <1>2, <1>4, <2>1, <2>2 DEF InTag, O, C
  <2>4. ~Thinking(b, text, k)
    BY <1>2, <1>4, <1>6, <2>1 DEF Thinking, O, C
  <2> QED BY <1>4, <1>6, <2>3, <2>4 DEF Seen
<1>7. CASE ~(k < i)
  <2>1. InTag(text, k)
    BY <1>1, <1>4, <1>7 DEF InTag, O, C
  <2> QED BY <1>7, <2>1 DEF Seen
<1> QED BY <1>5, <1>6, <1>7

\* What is visible before the tag at i and what behind it are what is visible.
Divided(text, i, tag, b) ==
  VisibleFrom(b, text) =
    (IF b THEN <<>> ELSE SubSeq(text, 1, i - 1))
      \o VisibleFrom(tag = OPEN, SubSeq(text, i + Len(tag), Len(text)))

\* A tag that counts divides a text.
LEMMA VisibleBehind ==
  ASSUME NEW text \in Seq(Char), NEW i, NEW tag, NEW b \in BOOLEAN, Counts(text, i, tag, b)
  PROVE  Divided(text, i, tag, b)
<1> DEFINE n == i + Len(tag) - 1
           a == SubSeq(text, 1, i - 1)
           g == SubSeq(text, i, n)
           r == SubSeq(text, i + Len(tag), Len(text))
           d == a \o g
           P == Seen(b, text)
           Q == Seen(tag = OPEN, r)
           o == IF b THEN <<>> ELSE a
<1>1. /\ n \in Nat /\ i \in Nat /\ i <= n
      /\ a \in Seq(Char) /\ g \in Seq(Char) /\ r \in Seq(Char)
      /\ Len(a) = i - 1 /\ Len(d) = n
      /\ text = d \o r
  <2>1. i \in 1..Len(text) /\ tag \in Tag /\ Has(text, i, tag)
    BY DEF Counts
  <2>2. i \in Nat
    BY <2>1
  <2>3. LET m == i + Len(tag) - 1
            x == SubSeq(text, 1, i - 1)
            y == SubSeq(text, i, m)
            z == SubSeq(text, i + Len(tag), Len(text))
        IN  /\ m \in Nat /\ i <= m /\ m <= Len(text)
            /\ x \in Seq(Char) /\ y \in Seq(Char) /\ z \in Seq(Char)
            /\ Len(x) = i - 1 /\ Len(x \o y) = m
            /\ text = (x \o y) \o z
    BY <2>1, CutBehind
  <2> QED BY <2>2, <2>3
<1> HIDE DEF a, g, r
<1>2. /\ d \in Seq(Char) /\ Len(d) = Len(a) + Len(g)
      /\ Len(a) \in Nat /\ Len(g) \in Nat /\ Len(r) \in Nat
  BY <1>1, TextJoin
<1>3. \A k \in 1..Len(r) : Len(d) + k \in P <=> k \in Q
  <2> SUFFICES ASSUME NEW k \in 1..Len(r) PROVE Len(d) + k \in P <=> k \in Q
    OBVIOUS
  <2> HIDE DEF d
  <2>1. Counts(d \o r, i, tag, b)
    BY <1>1
  <2>2. EndsTag(Len(d), i, tag)
    BY <1>1 DEF EndsTag
  <2> HIDE DEF n
  <2>3. Len(d) + k \in Seen(b, d \o r) <=> k \in Seen(tag = OPEN, r)
    <3>1. SeenAlike(d, r, b, tag)
      BY <1>1, <1>2, <2>1, <2>2, SeenBehind
    <3> QED BY <3>1 DEF SeenAlike
  <2> QED BY <1>1, <2>3
<1>4. \A k \in 1..n : k \in P <=> k < i /\ ~b
  BY SeenBefore
<1> HIDE DEF n, P, Q
<1>5. \A k \in 1..Len(g) : Len(a) + k \in P <=> k \in {}
  <2> SUFFICES ASSUME NEW k \in 1..Len(g) PROVE ~(Len(a) + k \in P)
    OBVIOUS
  <2>1. Len(a) + k \in 1..n /\ ~(Len(a) + k < i)
    BY <1>1, <1>2
  <2> QED BY <1>4, <2>1
<1>6. \A k \in 1..Len(a) : k \in P <=> ~b
  <2> SUFFICES ASSUME NEW k \in 1..Len(a) PROVE k \in P <=> ~b
    OBVIOUS
  <2>1. k \in 1..n /\ k < i
    BY <1>1, <1>2
  <2> QED BY <1>4, <2>1
<1>7. Pick(a \o g, P) = Pick(a, P) \o Pick(g, {})
  <2>1. \A x, y \in Seq(Char) : (\A k \in 1..Len(y) : Len(x) + k \in P <=> k \in {})
          => Pick(x \o y, P) = Pick(x, P) \o Pick(y, {})
    BY PickConcat
  <2> QED BY <1>1, <1>5, <2>1
<1>8. Pick(g, {}) = <<>>
  BY <1>1, PickNone
<1>9. Pick(a, P) = o
  <2>1. CASE b
    BY <1>1, <1>6, <2>1, PickNone
  <2>2. CASE ~b
    BY <1>1, <1>6, <2>2, PickAll
  <2> QED BY <2>1, <2>2
<1>10. o \o <<>> = o
  <2>1. o \in Seq(Char)
    BY <1>1
  <2> HIDE DEF o
  <2> QED BY <2>1
<1> HIDE DEF o
<1>11. Pick(d, P) = o
  BY <1>7, <1>8, <1>9, <1>10
<1> HIDE DEF d
<1>12. Pick(d \o r, P) = Pick(d, P) \o Pick(r, Q)
  <2>1. \A x, y \in Seq(Char) : (\A k \in 1..Len(y) : Len(x) + k \in P <=> k \in Q)
          => Pick(x \o y, P) = Pick(x, P) \o Pick(y, Q)
    BY PickConcat
  <2> QED BY <1>1, <1>2, <1>3, <2>1
<1>13. Pick(text, P) = o \o Pick(r, Q)
  BY <1>1, <1>11, <1>12
<1> QED BY <1>13 DEF Divided, VisibleFrom, P, Q, r, a, o

-----------------------------------------------------------------------------
(* Texts joined and cut, and the first tag in them.                        *)

\* The three regroup.
Regroups(x, y, z) == (x \o y) \o z = x \o (y \o z)

\* Concatenation is associative, said so that the provers see it at once.
LEMMA TextRegroups == \A x, y, z \in Seq(Char) : Regroups(x, y, z)
BY ConcatAssociative DEF Regroups

\* Concatenation is associative.
LEMMA TextAssoc ==
  \A x, y, z \in Seq(Char) : (x \o y) \o z = x \o (y \o z)
BY ConcatAssociative

\* Concatenation of texts.
LEMMA TextJoins ==
  /\ \A x, y, z \in Seq(Char) : (x \o y) \o z = x \o (y \o z)
  /\ \A x, y \in Seq(Char) : x \o y \in Seq(Char)
  /\ \A x \in Seq(Char) : x \o <<>> = x /\ <<>> \o x = x
  /\ <<>> \in Seq(Char)
<1>1. \A x, y, z \in Seq(Char) : (x \o y) \o z = x \o (y \o z)
  BY ConcatAssociative
<1> QED BY <1>1

\* A concatenation cut where it was joined.
LEMMA Cut ==
  ASSUME NEW x \in Seq(Char), NEW y \in Seq(Char)
  PROVE  SubSeq(x \o y, 1, Len(x)) = x /\ SubSeq(x \o y, Len(x) + 1, Len(x \o y)) = y
<1>1. Len(x) \in Nat /\ Len(y) \in Nat /\ Len(x \o y) = Len(x) + Len(y)
  BY TextJoin
<1>2. SubSeq(x, 1, Len(x)) = x /\ SubSeq(y, 1, Len(y)) = y
  BY SubSeqFull
<1>3. SubSeq(x \o y, 1, Len(x)) = x
  <2>1. CASE Len(x) = 0
    BY <1>2, <2>1, SubSeqEmpty
  <2>2. CASE Len(x) # 0
    <3>1. 1 \in 1..Len(x) /\ Len(x) \in 1..Len(x)
      BY <1>1, <2>2
    <3> QED BY <1>2, <3>1, SubSeqOfConcat1
  <2> QED BY <2>1, <2>2
<1>4. SubSeq(x \o y, Len(x) + 1, Len(x) + Len(y)) = y
  <2>1. CASE Len(y) = 0
    <3>1. y = <<>>
      BY <2>1
    <3> QED BY <1>1, <2>1, <3>1, SubSeqEmpty
  <2>2. CASE Len(y) # 0
    <3>1. /\ Len(x) + 1 \in (Len(x) + 1)..(Len(x) + Len(y))
          /\ Len(x) + Len(y) \in (Len(x) + 1)..(Len(x) + Len(y))
          /\ (Len(x) + 1) - Len(x) = 1 /\ (Len(x) + Len(y)) - Len(x) = Len(y)
      BY <1>1, <2>2
    <3>2. SubSeq(x \o y, Len(x) + 1, Len(x) + Len(y))
            = SubSeq(y, (Len(x) + 1) - Len(x), (Len(x) + Len(y)) - Len(x))
      BY <3>1, SubSeqOfConcat2
    <3> QED BY <1>2, <3>1, <3>2
  <2> QED BY <2>1, <2>2
<1> QED BY <1>1, <1>3, <1>4

\* The tag at i divides the text in two.
Divides(text, i, tag) ==
  \E a, r \in Seq(Char) : text = (a \o tag) \o r /\ Len(a) + 1 = i

\* A text with a tag at i is what is before it, the tag and what is behind it.
LEMMA TagCut ==
  ASSUME NEW text \in Seq(Char), NEW i \in 1..Len(text), NEW tag \in Tag, Has(text, i, tag)
  PROVE  Divides(text, i, tag)
<1> DEFINE n == i + Len(tag) - 1
           a == SubSeq(text, 1, i - 1)
           g == SubSeq(text, i, n)
           r == SubSeq(text, i + Len(tag), Len(text))
<1>1. a \in Seq(Char) /\ r \in Seq(Char) /\ Len(a) = i - 1 /\ text = (a \o g) \o r
  BY CutBehind
<1>2. g = tag
  BY DEF Has
<1> HIDE DEF a, g, r
<1>3. Len(a) + 1 = i
  BY <1>1
<1> QED BY <1>1, <1>2, <1>3 DEF Divides

\* The text consists of the first part, the tag and the rest.
Between(text, a, tag, r) ==
  LET i == Len(a) + 1
  IN  /\ text \in Seq(Char) /\ i \in 1..Len(text) /\ Has(text, i, tag)
      /\ SubSeq(text, 1, i - 1) = a
      /\ SubSeq(text, i + Len(tag), Len(text)) = r
      /\ Len(r) < Len(text)

\* And a tag between two texts is there.
LEMMA TagBetween ==
  ASSUME NEW a \in Seq(Char), NEW r \in Seq(Char), NEW tag \in Tag, NEW text,
         text = (a \o tag) \o r
  PROVE  Between(text, a, tag, r)
<1> DEFINE i == Len(a) + 1
<1>1. /\ tag \in Seq(Char) /\ Len(tag) \in Nat /\ 3 <= Len(tag)
      /\ Len(a) \in Nat /\ Len(r) \in Nat
  BY TagType, TextJoin
<1>2. /\ a \o tag \in Seq(Char) /\ Len(a \o tag) = Len(a) + Len(tag)
      /\ tag \o r \in Seq(Char) /\ Len(tag \o r) = Len(tag) + Len(r)
      /\ text = a \o (tag \o r)
  <2>1. \A x, y, z \in Seq(Char) : (x \o y) \o z = x \o (y \o z)
    BY TextJoins
  <2>2. text = a \o (tag \o r)
    BY <1>1, <2>1
  <2> QED BY <1>1, <2>2, TextJoin
<1>3. text \in Seq(Char) /\ Len(text) = Len(a) + Len(tag) + Len(r)
  <2>1. text \in Seq(Char) /\ Len(text) = Len(a \o tag) + Len(r)
    BY <1>2, TextJoin
  <2> QED BY <1>2, <2>1
<1>4. i \in 1..Len(text) /\ i - 1 = Len(a) /\ Len(r) < Len(text)
  BY <1>1, <1>3
<1>5. SubSeq(text, 1, Len(a)) = a /\ SubSeq(text, Len(a) + 1, Len(text)) = tag \o r
  <2> DEFINE u == tag \o r
  <2>1. u \in Seq(Char) /\ text = a \o u
    BY <1>2
  <2> HIDE DEF u
  <2>2. SubSeq(a \o u, 1, Len(a)) = a /\ SubSeq(a \o u, Len(a) + 1, Len(a \o u)) = u
    BY <2>1, Cut
  <2> QED BY <2>1, <2>2 DEF u
<1>6. SubSeq(text, Len(a \o tag) + 1, Len(text)) = r
  BY <1>2, Cut
<1>7. i + Len(tag) = Len(a \o tag) + 1
  BY <1>1, <1>2
<1>8. Has(text, i, tag)
  <2>1. /\ \A k \in 1..(Len(a) + Len(tag)) :
             (a \o tag)[k] = IF k <= Len(a) THEN a[k] ELSE tag[k - Len(a)]
    BY <1>1, Joined
  <2>2. \A k \in 1..(Len(a \o tag) + Len(r)) :
             text[k] = IF k <= Len(a \o tag) THEN (a \o tag)[k] ELSE r[k - Len(a \o tag)]
    BY <1>2, Joined
  <2>3. ASSUME NEW k \in 1..Len(tag) PROVE text[i + k - 1] = tag[k]
    <3>1. /\ i + k - 1 \in 1..(Len(a) + Len(tag)) /\ ~(i + k - 1 <= Len(a))
          /\ (i + k - 1) - Len(a) = k
          /\ i + k - 1 \in 1..(Len(a \o tag) + Len(r)) /\ i + k - 1 <= Len(a \o tag)
      BY <1>1, <1>2
    <3> QED BY <2>1, <2>2, <3>1
  <2>4. i + Len(tag) - 1 <= Len(text)
    BY <1>1, <1>3
  <2> HIDE DEF i
  <2> QED BY <1>3, <1>4, <2>3, <2>4, HasIs
<1> QED BY <1>3, <1>4, <1>5, <1>6, <1>7, <1>8 DEF Between

\* Only one tag counts.
LEMMA CountsOnce ==
  ASSUME NEW text \in Seq(Char), NEW i, NEW j, NEW s, NEW t, NEW b \in BOOLEAN,
         Counts(text, i, s, b), Counts(text, j, t, b)
  PROVE  i = j /\ s = t
<1>1. /\ i \in 1..Len(text) /\ s \in Tag /\ Has(text, i, s)
      /\ j \in 1..Len(text) /\ t \in Tag /\ Has(text, j, t)
  BY DEF Counts
<1>2. i \in Opens(text) \/ i \in Closes(text)
  BY <1>1, TagPlaces DEF Tag
<1>3. j \in Opens(text) \/ j \in Closes(text)
  BY <1>1, TagPlaces DEF Tag
<1>4. b => i \in Closes(text) /\ j \in Closes(text)
  BY <1>1, TagPlaces DEF Counts
<1>5. i <= j /\ j <= i
  BY <1>2, <1>3, <1>4 DEF Counts
<1>6. i = j
  BY <1>1, <1>5
<1> QED BY <1>1, <1>6, TagsApart

\* What is shown of the text before a tag; b: it is reasoning.
Shown(b, a) == IF b THEN <<>> ELSE a

\* No tag of a text counts.
NoTag(text, b) == Closes(text) = {} /\ (b \/ Opens(text) = {})

\* The first tag of a text that counts stands between a and r.
First(text, a, tag, r, b) ==
  text = (a \o tag) \o r /\ Counts(text, Len(a) + 1, tag, b)

\* A text has no tag that counts, or a first one.
LEMMA EitherWay ==
  ASSUME NEW text \in Seq(Char), NEW b \in BOOLEAN, ~NoTag(text, b)
  PROVE  \E a, r \in Seq(Char), tag \in Tag : First(text, a, tag, r, b)
<1> DEFINE A == Closes(text) \cup (IF b THEN {} ELSE Opens(text))
           i == Min(A)
           tag == IF i \in Closes(text) THEN CLOSE ELSE OPEN
<1>1. A \subseteq Nat /\ A # {}
  BY TagPlaces DEF NoTag
<1>2. i \in A /\ \A j \in A : i <= j
  <2> HIDE DEF A
  <2> QED BY <1>1, MinIs
<1>3. Counts(text, i, tag, b)
  <2> HIDE DEF i
  <2>1. i \in 1..Len(text) /\ Has(text, i, tag) /\ tag \in Tag
    BY <1>2, TagPlaces DEF Tag
  <2>2. b => tag = CLOSE
    BY <1>2
  <2>3. \A c \in Closes(text) : i <= c
    BY <1>2
  <2>4. b \/ \A o \in Opens(text) : i <= o
    BY <1>2
  <2> HIDE DEF tag, A
  <2> QED BY <2>1, <2>2, <2>3, <2>4 DEF Counts
<1> HIDE DEF i, tag, A
<1>4. i \in 1..Len(text) /\ tag \in Tag /\ Has(text, i, tag)
  BY <1>3 DEF Counts
<1>7. Divides(text, i, tag)
  BY <1>4, TagCut
<1>5. PICK a, r \in Seq(Char) : text = (a \o tag) \o r /\ Len(a) + 1 = i
  BY <1>7 DEF Divides
<1>6. First(text, a, tag, r, b)
  BY <1>3, <1>5 DEF First
<1> QED BY <1>4, <1>6

\* Text behind changes nothing of that.
LEMMA FirstKept ==
  ASSUME NEW d \in Seq(Char), NEW a \in Seq(Char), NEW r \in Seq(Char), NEW p \in Seq(Char),
         NEW tag \in Tag, NEW b \in BOOLEAN, First(d, a, tag, r, b)
  PROVE  First(d \o p, a, tag, r \o p, b)
<1> DEFINE w == d \o p
           i == Len(a) + 1
<1>1. d \in Seq(Char) /\ i \in 1..Len(d) /\ Has(d, i, tag) /\ d = (a \o tag) \o r
  BY DEF First, Counts
<1>2. w = (a \o tag) \o (r \o p)
  <2>1. a \o tag \in Seq(Char)
    BY TagType, TextJoin
  <2>2. \A x, y, z \in Seq(Char) : (x \o y) \o z = x \o (y \o z)
    BY TextJoins
  <2> DEFINE h == a \o tag
  <2> HIDE DEF h
  <2>3. (h \o r) \o p = h \o (r \o p)
    BY <2>1, <2>2 DEF h
  <2> QED BY <1>1, <2>3 DEF h
<1>3. Counts(d, i, tag, b)
  BY DEF First
<1> HIDE DEF i
<1>4. w \in Seq(Char) /\ Len(w) \in Nat /\ Len(d) \in Nat
  BY <1>1, TextJoin
<1>5. i \in 1..Len(w) /\ Has(w, i, tag)
  BY <1>1, TagKept
<1>0. i \in Nat /\ Opens(w) \subseteq Nat /\ Closes(w) \subseteq Nat
  <2> HIDE DEF w
  <2> QED BY <1>1, <1>4, TagPlaces
<1>6. ASSUME NEW j \in 1..Len(w), NEW t \in Tag, Has(w, j, t), j < i
      PROVE  j \in 1..Len(d) /\ Has(d, j, t)
  <2> HIDE DEF w
  <2>1. j + Len(t) <= i
    BY <1>4, <1>5, <1>6, TagsApart
  <2>2. j \in 1..Len(d) /\ j + Len(t) - 1 <= Len(d)
    <3>1. Len(t) \in Nat
      BY TagType
    <3> QED BY <1>1, <1>4, <1>6, <2>1, <3>1
  <2> QED BY <1>1, <1>6, <2>2, TagKept DEF w
<1>7. \A c \in Closes(w) : i <= c
  <2> SUFFICES ASSUME NEW c \in Closes(w), c < i PROVE FALSE
    BY <1>0
  <2> HIDE DEF w
  <2>1. c \in 1..Len(d) /\ Has(d, c, CLOSE)
    BY <1>4, <1>6, TagPlaces DEF Tag
  <2>2. c \in Closes(d)
    BY <1>1, <2>1, TagPlaces
  <2> QED BY <1>1, <1>3, <2>1, <2>2 DEF Counts
<1>8. b \/ \A o \in Opens(w) : i <= o
  <2> SUFFICES ASSUME ~b, NEW o \in Opens(w), o < i PROVE FALSE
    BY <1>0
  <2> HIDE DEF w
  <2>1. o \in 1..Len(d) /\ Has(d, o, OPEN)
    BY <1>4, <1>6, TagPlaces DEF Tag
  <2>2. o \in Opens(d)
    BY <1>1, <2>1, TagPlaces
  <2> QED BY <1>1, <1>3, <2>1, <2>2 DEF Counts
<1>9. Counts(w, i, tag, b)
  <2>1. b => tag = CLOSE
    BY <1>3 DEF Counts
  <2> HIDE DEF w
  <2> QED BY <1>5, <1>7, <1>8, <2>1 DEF Counts
<1> QED BY <1>2, <1>9 DEF First, i

\* A tag may begin at j: the text agrees with it as far as it goes.
MayBegin(text, j, tag) ==
  \A k \in 1..Len(tag) : j + k - 1 <= Len(text) => text[j + k - 1] = tag[k]

\* No tag that would count can begin in a.
Dull(a, u, b) ==
  \A j \in 1..Len(a), tag \in Tag : (b => tag = CLOSE) => ~MayBegin(a \o u, j, tag)

\* Nor then is there one.
LEMMA DullHasNone ==
  ASSUME NEW a \in Seq(Char), NEW u \in Seq(Char), NEW b \in BOOLEAN, Dull(a, u, b),
         NEW j \in 1..Len(a), NEW tag \in Tag, b => tag = CLOSE
  PROVE  ~Has(a \o u, j, tag)
<1> DEFINE w == a \o u
<1>1. w \in Seq(Char) /\ j \in 1..Len(w)
  BY TagKept, TextJoin
<1>2. ~MayBegin(w, j, tag)
  BY DEF Dull
<1> HIDE DEF w
<1>3. ~Has(w, j, tag)
  BY <1>1, <1>2, HasIs DEF MayBegin
<1> QED BY <1>3 DEF w

\* A place of a tag in a \o u is one in u, shifted.
LEMMA DullShift ==
  ASSUME NEW a \in Seq(Char), NEW u \in Seq(Char), NEW b \in BOOLEAN, Dull(a, u, b)
  PROVE  /\ \A c \in Closes(a \o u) : c - Len(a) \in Closes(u)
         /\ b \/ \A o \in Opens(a \o u) : o - Len(a) \in Opens(u)
<1> DEFINE w == a \o u
<1>1. w \in Seq(Char) /\ Len(w) = Len(a) + Len(u) /\ Len(a) \in Nat /\ Len(u) \in Nat
  BY TextJoin
<1>2. ASSUME NEW j \in 1..Len(w), NEW tag \in Tag, Has(w, j, tag), b => tag = CLOSE
      PROVE  j - Len(a) \in 1..Len(u) /\ Has(u, j - Len(a), tag)
  <2>1. j \notin 1..Len(a)
    BY <1>2, DullHasNone
  <2>2. j - Len(a) \in 1..Len(u) /\ Len(a) + (j - Len(a)) = j
    BY <1>1, <2>1
  <2>3. Has(w, Len(a) + (j - Len(a)), tag) <=> Has(u, j - Len(a), tag)
    BY <2>2, TagShift
  <2> QED BY <1>2, <2>2, <2>3
<1> HIDE DEF w
<1>3. ASSUME NEW c \in Closes(w) PROVE c - Len(a) \in Closes(u)
  BY <1>1, <1>2, TagPlaces DEF Tag
<1>4. ASSUME ~b, NEW o \in Opens(w) PROVE o - Len(a) \in Opens(u)
  BY <1>1, <1>2, <1>4, TagPlaces DEF Tag
<1> QED BY <1>3, <1>4 DEF w

\* Dull text before it moves the first tag that counts, and makes none.
LEMMA FirstShift ==
  ASSUME NEW a \in Seq(Char), NEW h \in Seq(Char), NEW r \in Seq(Char), NEW tag \in Tag,
         NEW b \in BOOLEAN, NEW u \in Seq(Char), First(u, h, tag, r, b), Dull(a, u, b)
  PROVE  First(a \o u, a \o h, tag, r, b)
<1> DEFINE w == a \o u
           i == Len(h) + 1
           n == Len(a)
<1>1. u \in Seq(Char) /\ i \in 1..Len(u) /\ Has(u, i, tag) /\ u = (h \o tag) \o r
  BY DEF First, Counts
<1>2. Counts(u, i, tag, b) /\ Dull(a, u, b)
  BY DEF First
<1>3. w = ((a \o h) \o tag) \o r
  <2>1. tag \in Seq(Char)
    BY TagType
  <2> DEFINE g == h \o tag
  <2>2. Regroups(a, h, tag)
    BY <2>1, TextRegroups
  <2>3. (a \o h) \o tag = a \o g
    BY <2>2 DEF Regroups
  <2>4. g \in Seq(Char)
    BY <2>1, TextJoin
  <2> HIDE DEF g
  <2>6. Regroups(a, g, r)
    BY <2>4, TextRegroups
  <2>5. (a \o g) \o r = a \o (g \o r)
    BY <2>6 DEF Regroups
  <2> QED BY <1>1, <2>3, <2>5 DEF g
<1>4. w \in Seq(Char) /\ Len(w) = n + Len(u) /\ n \in Nat /\ Len(u) \in Nat
  <2> QED BY <1>1, TextJoin
<1>5. Len(a \o h) = n + Len(h) /\ Len(h) \in Nat
  BY TextJoin
<1>6. n + i \in 1..Len(w) /\ Has(w, n + i, tag)
  <2> HIDE DEF i
  <2> QED BY <1>1, TagShift
<1>7. /\ \A c \in Closes(w) : c - n \in Closes(u)
      /\ b \/ \A o \in Opens(w) : o - n \in Opens(u)
  <2> QED BY <1>1, <1>2, DullShift
<1>8. Opens(w) \subseteq Nat /\ Closes(w) \subseteq Nat
  <2> HIDE DEF w
  <2> QED BY <1>4, TagPlaces
<1> HIDE DEF w, n
<1>13. /\ i \in Nat /\ \A c \in Closes(u) : i <= c
       /\ b \/ \A o \in Opens(u) : i <= o
  BY <1>2, <1>5 DEF Counts
<1>14. n + i = Len(a \o h) + 1
  BY <1>4, <1>5
<1> HIDE DEF i
<1>9. \A c \in Closes(w) : n + i <= c
  BY <1>4, <1>7, <1>8, <1>13
<1>10. b \/ \A o \in Opens(w) : n + i <= o
  BY <1>4, <1>7, <1>8, <1>13
<1>11. b => tag = CLOSE
  BY <1>2 DEF Counts
<1>12. Counts(w, n + i, tag, b)
  BY <1>6, <1>9, <1>10, <1>11 DEF Counts
<1> QED BY <1>3, <1>12, <1>14 DEF First, w

\* Nor do they together.
LEMMA NoTagShift ==
  ASSUME NEW a \in Seq(Char), NEW u \in Seq(Char), NEW b \in BOOLEAN,
         Dull(a, u, b), NoTag(u, b)
  PROVE  NoTag(a \o u, b)
<1>1. /\ \A c \in Closes(a \o u) : c - Len(a) \in Closes(u)
      /\ b \/ \A o \in Opens(a \o u) : o - Len(a) \in Opens(u)
  BY DullShift
<1> QED BY <1>1 DEF NoTag

\* A text whose end is held, with what is before it.
LEMMA HeldEnd ==
  ASSUME NEW a \in Seq(Char), NEW k \in Seq(Char)
  PROVE  k \in Suffixes(a \o k)
<1>1. Len(a) \in Nat /\ Len(k) \in Nat /\ Len(a \o k) = Len(a) + Len(k)
  BY TextJoin
<1>2. SubSeq(a \o k, Len(a) + 1, Len(a \o k)) = k
  BY Cut
<1>3. CASE Len(k) = 0
  <2>1. k = <<>>
    BY <1>3
  <2> QED BY <2>1 DEF Suffixes
<1>4. CASE Len(k) # 0
  <2>1. Len(a) + 1 \in 1..Len(a \o k)
    BY <1>1, <1>4
  <2> QED BY <1>2, <2>1 DEF Suffixes
<1> QED BY <1>3, <1>4

\* A sequence that agrees with another as far as it goes is a prefix of it.
LEMMA PrefixBy ==
  ASSUME NEW S, NEW s \in Seq(S), NEW t \in Seq(S), Len(s) <= Len(t),
         \A i \in 1..Len(s) : s[i] = t[i]
  PROVE  IsPrefix(s, t)
<1> DEFINE u == SubSeq(t, 1, Len(s))
<1>1. Len(s) \in Nat /\ Len(t) \in Nat
  OBVIOUS
<1>2. u \in Seq(S) /\ Len(u) = Len(s) /\ \A i \in 1..Len(s) : u[i] = t[i]
  BY <1>1
<1> HIDE DEF u
<1>3. u = s
  BY <1>2, SeqEqual
<1>4. SubSeq(s, 1, Len(s)) = s
  BY SubSeqFull
<1> QED BY <1>1, <1>3, <1>4 DEF IsPrefix, u

\* Prefixes of prefixes, and behind a common beginning.
LEMMA PrefixOn ==
  ASSUME NEW x \in Seq(Char), NEW y \in Seq(Char), NEW z \in Seq(Char), IsPrefix(y, z)
  PROVE  /\ IsPrefix(x, y) => IsPrefix(x, z)
         /\ IsPrefix(x \o y, x \o z)
<1>1. PICK u \in Seq(Char) : z = y \o u
  BY PrefixRest
<1>2. ASSUME IsPrefix(x, y) PROVE IsPrefix(x, z)
  <2>1. PICK v \in Seq(Char) : y = x \o v
    BY <1>2, PrefixRest
  <2> DEFINE w == v \o u
  <2>3. Regroups(x, v, u)
    BY TextRegroups
  <2>2. w \in Seq(Char) /\ z = x \o w
    BY <1>1, <2>1, <2>3, TextJoin DEF Regroups
  <2> HIDE DEF w
  <2> QED BY <2>2, PrefixOfConcat
<1>3. IsPrefix(x \o y, x \o z)
  <2> DEFINE a == x \o y
  <2>3. Regroups(x, y, u)
    BY TextRegroups
  <2>1. a \in Seq(Char) /\ x \o z = a \o u
    BY <1>1, <2>3, TextJoin DEF Regroups
  <2> HIDE DEF a
  <2>2. IsPrefix(a, a \o u)
    BY <2>1, PrefixOfConcat
  <2> QED BY <2>1, <2>2 DEF a
<1> QED BY <1>2, <1>3

-----------------------------------------------------------------------------
(* Strings and braces, counted from the left.                              *)

\* The characters the walk looks for are different ones.
LEMMA Braces == LBRACE # RBRACE /\ LBRACE # "q" /\ RBRACE # "q"
BY Zenon DEF LBRACE, RBRACE

\* One more counts for one more.
LEMMA CountIs ==
  ASSUME NEW n \in Nat, NEW A, A \subseteq 1..n
  PROVE  Cardinality(A) \in Nat /\ Cardinality(A \cup {n + 1}) = Cardinality(A) + 1
<1>1. IsFiniteSet(1..n)
  BY FS_Interval
<1>2. IsFiniteSet(A)
  BY <1>1, FS_Subset
<1>3. n + 1 \notin A
  OBVIOUS
<1> QED BY <1>2, <1>3, FS_CardinalityType, FS_AddElement

\* A quote begins a string or ends it.
LEMMA InStringNext ==
  ASSUME NEW s
  PROVE  /\ ~InString(s, 1)
         /\ \A k \in Nat : InString(s, k + 2) <=> (IF s[k + 1] = "q" THEN ~InString(s, k + 1)
                                                     ELSE InString(s, k + 1))
<1> DEFINE Q(i) == {k \in 1..(i - 1) : s[k] = "q"}
<1>1. \A i : InString(s, i) <=> Cardinality(Q(i)) % 2 = 1
  BY DEF InString
<1>2. ~InString(s, 1)
  <2>1. Q(1) = {}
    OBVIOUS
  <2>2. 0 % 2 = 0
    OBVIOUS
  <2> HIDE DEF Q
  <2>3. Cardinality(Q(1)) = 0
    BY <2>1, FS_EmptySet
  <2> QED BY <1>1, <2>2, <2>3
<1>3. ASSUME NEW k \in Nat
      PROVE  InString(s, k + 2) <=> (IF s[k + 1] = "q" THEN ~InString(s, k + 1)
                                     ELSE InString(s, k + 1))
  <2>1. Q(k + 1) \subseteq 1..k
    OBVIOUS
  <2>2. s[k + 1] = "q" => Q(k + 2) = Q(k + 1) \cup {k + 1}
    OBVIOUS
  <2>3. s[k + 1] # "q" => Q(k + 2) = Q(k + 1)
    OBVIOUS
  <2> HIDE DEF Q
  <2> DEFINE c == Cardinality(Q(k + 1))
  <2>4. c \in Nat /\ Cardinality(Q(k + 1) \cup {k + 1}) = c + 1
    BY <2>1, CountIs
  <2> HIDE DEF c
  <2>5. ((c + 1) % 2 = 1) <=> ~(c % 2 = 1)
    BY <2>4
  <2>6. InString(s, k + 1) <=> c % 2 = 1
    BY <1>1 DEF c
  <2>7. s[k + 1] = "q" => (InString(s, k + 2) <=> (c + 1) % 2 = 1)
    <3>1. s[k + 1] = "q" => Cardinality(Q(k + 2)) = c + 1
      BY <2>2, <2>4
    <3>2. InString(s, k + 2) <=> Cardinality(Q(k + 2)) % 2 = 1
      BY <1>1
    <3> QED BY <3>1, <3>2
  <2>8. s[k + 1] # "q" => (InString(s, k + 2) <=> c % 2 = 1)
    <3>1. InString(s, k + 2) <=> Cardinality(Q(k + 2)) % 2 = 1
      BY <1>1
    <3> QED BY <2>3, <3>1 DEF c
  <2> QED BY <2>5, <2>6, <2>7, <2>8
<1> QED BY <1>2, <1>3

\* What a character adds to the depth.
Deepens(s, k) ==
  IF s[k] = LBRACE /\ ~InString(s, k) THEN 1
  ELSE IF s[k] = RBRACE /\ ~InString(s, k) THEN -1 ELSE 0

\* The depth is the sum of what the characters add.
LEMMA DepthNext ==
  ASSUME NEW s
  PROVE  /\ Depth(s, 0) = 0
         /\ \A k \in Nat : Depth(s, k) \in Int /\ Depth(s, k + 1) = Depth(s, k) + Deepens(s, k + 1)
<1> DEFINE A(i) == {k \in 1..i : s[k] = LBRACE /\ ~InString(s, k)}
           Z(i) == {k \in 1..i : s[k] = RBRACE /\ ~InString(s, k)}
<1>1. \A i : Depth(s, i) = Cardinality(A(i)) - Cardinality(Z(i))
  BY DEF Depth
<1>2. Depth(s, 0) = 0
  <2>1. A(0) = {} /\ Z(0) = {}
    OBVIOUS
  <2> HIDE DEF A, Z
  <2> QED BY <1>1, <2>1, FS_EmptySet
<1>3. ASSUME NEW k \in Nat
      PROVE  Depth(s, k) \in Int /\ Depth(s, k + 1) = Depth(s, k) + Deepens(s, k + 1)
  <2> DEFINE x == s[k + 1] = LBRACE /\ ~InString(s, k + 1)
             y == s[k + 1] = RBRACE /\ ~InString(s, k + 1)
  <2>0. \A j : j \in 1..(k + 1) <=> j \in 1..k \/ j = k + 1
    OBVIOUS
  <2>1. A(k) \subseteq 1..k /\ Z(k) \subseteq 1..k
    OBVIOUS
  <2>2. (x => A(k + 1) = A(k) \cup {k + 1}) /\ (~x => A(k + 1) = A(k))
    <3>1. CASE x
      BY <2>0, <3>1, Zenon
    <3>2. CASE ~x
      BY <2>0, <3>2, Zenon
    <3> QED BY <3>1, <3>2
  <2>3. (y => Z(k + 1) = Z(k) \cup {k + 1}) /\ (~y => Z(k + 1) = Z(k))
    <3>1. CASE y
      BY <2>0, <3>1, Zenon
    <3>2. CASE ~y
      BY <2>0, <3>2, Zenon
    <3> QED BY <3>1, <3>2
  <2>4. ~(x /\ y) /\ Deepens(s, k + 1) = IF x THEN 1 ELSE IF y THEN -1 ELSE 0
    BY Braces DEF Deepens
  <2> HIDE DEF A, Z, x, y
  <2> DEFINE a == Cardinality(A(k))
             z == Cardinality(Z(k))
  <2>5. /\ a \in Nat /\ Cardinality(A(k) \cup {k + 1}) = a + 1
        /\ z \in Nat /\ Cardinality(Z(k) \cup {k + 1}) = z + 1
    BY <2>1, CountIs
  <2>6. /\ Cardinality(A(k + 1)) = IF x THEN a + 1 ELSE a
        /\ Cardinality(Z(k + 1)) = IF y THEN z + 1 ELSE z
    BY <2>2, <2>3, <2>5
  <2>7. Depth(s, k) = a - z /\ Depth(s, k + 1) = Cardinality(A(k + 1)) - Cardinality(Z(k + 1))
    BY <1>1
  <2> HIDE DEF a, z
  <2> QED BY <2>4, <2>5, <2>6, <2>7
<1> QED BY <1>2, <1>3
================================================================================
