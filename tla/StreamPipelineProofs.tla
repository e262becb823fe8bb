-------------------------- MODULE StreamPipelineProofs --------------------------
(***************************************************************************)
(* Theorems about StreamPipeline, for any texts, any way of cutting them    *)
(* into pieces, any sessions and any number of thoughts, calls and retries. *)
(***************************************************************************)
EXTENDS StreamPipeline, ReplyTextProofs

-----------------------------------------------------------------------------
(* What the stripper holds.                                                *)

\* The longest of some texts, of which none is longer than b.
LEMMA LongestIs ==
  ASSUME NEW S, S # {}, NEW b \in Nat, \A s \in S : Len(s) \in Nat /\ Len(s) <= b
  PROVE  Longest(S) \in S /\ \A r \in S : Len(r) <= Len(Longest(S))
<1> DEFINE A == {Len(s) : s \in S}
<1>1. A \subseteq Nat /\ A # {} /\ \A a \in A : a <= b
  OBVIOUS
<1>2. Max(A) \in A /\ \A a \in A : a <= Max(A)
  <2> HIDE DEF A
  <2> QED BY <1>1, MaxIs
<1>3. PICK s \in S : Len(s) = Max(A)
  BY <1>2
<1>4. \A r \in S : Len(r) <= Len(s)
  <2> HIDE DEF A
  <2>1. \A r \in S : Len(r) \in A
    BY DEF A
  <2> QED BY <1>2, <1>3, <2>1
<1> QED BY <1>4 DEF Longest

\* A suffix completes what is before it.
LEMMA SuffixIs ==
  ASSUME NEW buf \in Seq(Char), NEW s \in Suffixes(buf)
  PROVE  /\ s \in Seq(Char) /\ Len(s) <= Len(buf)
         /\ s = SubSeq(buf, Len(buf) - Len(s) + 1, Len(buf))
         /\ SubSeq(buf, 1, Len(buf) - Len(s)) \in Seq(Char)
         /\ buf = SubSeq(buf, 1, Len(buf) - Len(s)) \o s
<1>1. Len(buf) \in Nat
  OBVIOUS
<1>2. CASE s = <<>>
  <2>1. SubSeq(buf, 1, Len(buf)) = buf /\ SubSeq(buf, Len(buf) + 1, Len(buf)) = <<>>
    BY <1>1, SubSeqFull, SubSeqEmpty
  <2> QED BY <1>1, <1>2, <2>1
<1>3. CASE s # <<>>
  <2>1. PICK l \in 1..Len(buf) : s = SubSeq(buf, l, Len(buf))
    BY <1>3 DEF Suffixes
  <2>2. s \in Seq(Char) /\ Len(s) = Len(buf) - l + 1
    BY <1>1, <2>1, SubSeqProperties
  <2>3. SubSeq(buf, 1, l - 1) \o SubSeq(buf, (l - 1) + 1, Len(buf)) = SubSeq(buf, 1, Len(buf))
    <3>1. 1 \in 1..(Len(buf) + 1) /\ l - 1 \in (1 - 1)..Len(buf) /\ Len(buf) \in (l - 1)..Len(buf)
      BY <1>1
    <3> QED BY <3>1, ConcatAdjacentSubSeq
  <2>4. SubSeq(buf, 1, Len(buf)) = buf /\ (l - 1) + 1 = l /\ Len(buf) - Len(s) = l - 1
    BY <1>1, <2>2, SubSeqFull
  <2>5. SubSeq(buf, 1, l - 1) \in Seq(Char)
    <3>1. \A i \in 1..(l - 1) : buf[i] \in Char
      BY <1>1
    <3> QED BY <3>1, SubSeqProperties
  <2> QED BY <1>1, <2>1, <2>2, <2>3, <2>4, <2>5
<1> QED BY <1>2, <1>3

\* Nothing is part of any tag.
LEMMA NothingHeld ==
  ASSUME NEW tag \in Tag
  PROVE  IsStrictPrefix(<<>>, tag)
<1>1. SubSeq(<<>>, 1, 0) = <<>> /\ SubSeq(tag, 1, 0) = <<>>
  BY SubSeqEmpty
<1> QED BY <1>1, TagType DEF IsStrictPrefix, IsPrefix

\* A possible part of a tag is shorter than the tag.
LEMMA PartIsShort ==
  ASSUME NEW tag \in Tag, NEW s \in Seq(Char), IsStrictPrefix(s, tag)
  PROVE  Len(s) < Len(tag)
<1>1. Len(s) <= Len(tag) /\ s # tag /\ SubSeq(s, 1, Len(s)) = SubSeq(tag, 1, Len(s))
  BY DEF IsStrictPrefix, IsPrefix
<1>2. tag \in Seq(Char)
  BY TagType
<1>3. SubSeq(s, 1, Len(s)) = s /\ SubSeq(tag, 1, Len(tag)) = tag
  BY <1>2, SubSeqFull
<1> QED BY <1>1, <1>2, <1>3

\* What is held of a text: its longest end that may begin the tag.
LEMMA HeldIs ==
  ASSUME NEW buf \in Seq(Char), NEW tag \in Tag
  PROVE  LET keep == hold_partial_suffix(buf, tag)
         IN  /\ keep \in Suffixes(buf) /\ IsStrictPrefix(keep, tag)
             /\ \A s \in Suffixes(buf) : IsStrictPrefix(s, tag) => Len(s) <= Len(keep)
<1> DEFINE S == {s \in Suffixes(buf) : IsStrictPrefix(s, tag)}
<1>1. <<>> \in S
  BY NothingHeld DEF Suffixes
<1>2. \A s \in S : Len(s) \in Nat /\ Len(s) <= Len(buf)
  BY SuffixIs
<1>3. Longest(S) \in S /\ \A r \in S : Len(r) <= Len(Longest(S))
  <2>1. Len(buf) \in Nat
    OBVIOUS
  <2> HIDE DEF S
  <2> QED BY <1>1, <1>2, <2>1, LongestIs
<1> QED BY <1>3 DEF hold_partial_suffix

-----------------------------------------------------------------------------
(* The loop over the tags.                                                 *)

\* Find returns the first place of a tag.
LEMMA FindIs ==
  ASSUME NEW buf \in Seq(Char), NEW tag \in Tag
  PROVE  \/ Find(buf, tag) = 0 /\ \A i \in 1..Len(buf) : ~Has(buf, i, tag)
         \/ /\ Find(buf, tag) \in 1..Len(buf) /\ Has(buf, Find(buf, tag), tag)
            /\ \A i \in 1..Len(buf) : Has(buf, i, tag) => Find(buf, tag) <= i
<1> DEFINE at == {i \in DOMAIN buf : Has(buf, i, tag)}
<1>1. DOMAIN buf = 1..Len(buf) /\ at \subseteq Nat
  OBVIOUS
<1>2. CASE at = {}
  BY <1>1, <1>2 DEF Find
<1>3. CASE at # {}
  <2>1. Min(at) \in at /\ \A a \in at : Min(at) <= a
    <3> HIDE DEF at
    <3> QED BY <1>1, <1>3, MinIs
  <2>2. Find(buf, tag) = Min(at)
    BY <1>3 DEF Find
  <2> QED BY <1>1, <2>1, <2>2
<1> QED BY <1>2, <1>3

\* What is left of a text some way behind one of its positions.
LEMMA RestIs ==
  ASSUME NEW buf \in Seq(Char), NEW i \in 1..Len(buf), NEW k \in Nat, k > 0
  PROVE  /\ SubSeq(buf, i + k, Len(buf)) \in Seq(Char)
         /\ Len(SubSeq(buf, i + k, Len(buf))) < Len(buf)
<1> DEFINE m == i + k
           n == Len(buf)
<1>1. m \in Int /\ n \in Int /\ (\A j \in m..n : buf[j] \in Char) /\ m > 1 /\ n >= 1
  OBVIOUS
<1> HIDE DEF m, n
<1>2. /\ SubSeq(buf, m, n) \in Seq(Char)
      /\ Len(SubSeq(buf, m, n)) = IF m <= n THEN n - m + 1 ELSE 0
  BY <1>1, SubSeqProperties
<1>3. SubSeq(buf, m, n) \in Seq(Char) /\ Len(SubSeq(buf, m, n)) < n
  BY <1>1, <1>2
<1> QED BY <1>3 DEF m, n

\* What is left behind a tag is a shorter text.
LEMMA PastIs ==
  ASSUME NEW s \in Stripper, NEW tag \in Tag, NEW i \in 1..Len(s.pending)
  PROVE  /\ Past(s, i, tag) \in Stripper
         /\ Len(Past(s, i, tag).pending) < Len(s.pending)
<1>1. s.pending \in Seq(Char)
  BY DEF Stripper
<1>0. Len(tag) \in Nat /\ Len(tag) > 0
  <2>1. Len(tag) \in {3, 4}
    BY TagType
  <2> QED BY <2>1
<1>2. /\ SubSeq(s.pending, i + Len(tag), Len(s.pending)) \in Seq(Char)
      /\ Len(SubSeq(s.pending, i + Len(tag), Len(s.pending))) < Len(s.pending)
  BY <1>0, <1>1, RestIs
<1> QED BY <1>2 DEF Past, Stripper

\* A round of the loop, with f for the rounds that follow.
Round(f, s) ==
  LET buf == s.pending
      open == Find(buf, OPEN)
      close == Find(buf, CLOSE)
  IN  CASE s.in_think /\ close = 0 -> PushInside(buf)
        [] s.in_think /\ close > 0 -> f[Past(s, close, CLOSE)]
        [] ~s.in_think /\ open = 0 /\ close = 0 -> PushOutside(buf)
        [] ~s.in_think /\ open > 0 /\ (close = 0 \/ open < close) ->
             Emit(SubSeq(buf, 1, open - 1), f[Past(s, open, OPEN)])
        [] OTHER -> Emit(SubSeq(buf, 1, close - 1), f[Past(s, close, CLOSE)])

\* The cases of a round, and what it leaves to the next.
LEMMA RoundIs ==
  ASSUME NEW s \in Stripper, NEW f
  PROVE  LET open == Find(s.pending, OPEN)
             close == Find(s.pending, CLOSE)
         IN  \/ s.in_think /\ close = 0 /\ Round(f, s) = PushInside(s.pending)
             \/ /\ s.in_think /\ close \in 1..Len(s.pending)
                /\ Round(f, s) = f[Past(s, close, CLOSE)]
             \/ /\ ~s.in_think /\ open = 0 /\ close = 0
                /\ Round(f, s) = PushOutside(s.pending)
             \/ /\ ~s.in_think /\ open \in 1..Len(s.pending)
                /\ close = 0 \/ open < close
                /\ Round(f, s) = Emit(SubSeq(s.pending, 1, open - 1), f[Past(s, open, OPEN)])
             \/ /\ ~s.in_think /\ close \in 1..Len(s.pending)
                /\ open = 0 \/ close <= open
                /\ Round(f, s) = Emit(SubSeq(s.pending, 1, close - 1), f[Past(s, close, CLOSE)])
<1> DEFINE open == Find(s.pending, OPEN)
           close == Find(s.pending, CLOSE)
<1>1. s.pending \in Seq(Char) /\ s.in_think \in BOOLEAN
  BY DEF Stripper
<1>2. Len(s.pending) \in Nat
  BY <1>1
<1>3. open = 0 \/ open \in 1..Len(s.pending)
  <2>1. OPEN \in Tag
    BY DEF Tag
  <2> QED BY <1>1, <2>1, FindIs
<1>4. close = 0 \/ close \in 1..Len(s.pending)
  <2>1. CLOSE \in Tag
    BY DEF Tag
  <2> QED BY <1>1, <2>1, FindIs
<1>5. Round(f, s) =
        CASE s.in_think /\ close = 0 -> PushInside(s.pending)
          [] s.in_think /\ close > 0 -> f[Past(s, close, CLOSE)]
          [] ~s.in_think /\ open = 0 /\ close = 0 -> PushOutside(s.pending)
          [] ~s.in_think /\ open > 0 /\ (close = 0 \/ open < close) ->
               Emit(SubSeq(s.pending, 1, open - 1), f[Past(s, open, OPEN)])
          [] OTHER -> Emit(SubSeq(s.pending, 1, close - 1), f[Past(s, close, CLOSE)])
  BY DEF Round
<1> HIDE DEF open, close
<1>6. CASE s.in_think
  BY <1>2, <1>4, <1>5, <1>6 DEF open, close
<1>7. CASE ~s.in_think /\ open = 0 /\ close = 0
  BY <1>5, <1>7 DEF open, close
<1>8. CASE ~s.in_think /\ open > 0 /\ (close = 0 \/ open < close)
  BY <1>2, <1>3, <1>5, <1>8 DEF open, close
<1>9. CASE ~s.in_think /\ close > 0 /\ (open = 0 \/ close <= open)
  BY <1>2, <1>3, <1>4, <1>5, <1>9 DEF open, close
<1> QED BY <1>1, <1>2, <1>3, <1>4, <1>6, <1>7, <1>8, <1>9

\* A round looks at f only where less is pending.
LEMMA RoundLocal ==
  ASSUME NEW s \in Stripper, NEW f, NEW h,
         \A r \in Stripper : Len(r.pending) < Len(s.pending) => f[r] = h[r]
  PROVE  Round(f, s) = Round(h, s)
<1> DEFINE open == Find(s.pending, OPEN)
           close == Find(s.pending, CLOSE)
<1>1. open \in 1..Len(s.pending) => f[Past(s, open, OPEN)] = h[Past(s, open, OPEN)]
  <2>1. OPEN \in Tag
    BY DEF Tag
  <2> HIDE DEF open
  <2> QED BY <2>1, PastIs
<1>2. close \in 1..Len(s.pending) => f[Past(s, close, CLOSE)] = h[Past(s, close, CLOSE)]
  <2>1. CLOSE \in Tag
    BY DEF Tag
  <2> HIDE DEF close
  <2> QED BY <2>1, PastIs
<1>3. s.pending \in Seq(Char)
  BY DEF Stripper
<1>4. Len(s.pending) \in Nat
  BY <1>3
<1> HIDE DEF open, close
<1> QED BY <1>1, <1>2, <1>4, RoundIs DEF open, close

\* The strippers with less than m pending, and the loop on those.
Below(m) == {s \in Stripper : Len(s.pending) < m}
Loop(g, m) == g = [s \in Below(m) |-> Round(g, s)]

\* What is pending has a length.
LEMMA PendingLen ==
  ASSUME NEW s \in Stripper
  PROVE  Len(s.pending) \in Nat
<1>1. s.pending \in Seq(Char)
  BY DEF Stripper
<1> QED BY <1>1

\* There is such a loop, whatever m.
LEMMA LoopExists ==
  ASSUME NEW n \in Nat
  PROVE  \E g : Loop(g, n)
<1> DEFINE T == {m \in Nat : \E g : Loop(g, m)}
<1>1. 0 \in T
  <2> DEFINE g == [s \in Below(0) |-> 0]
  <2>1. Below(0) = {}
    BY PendingLen DEF Below
  <2>2. Loop(g, 0)
    BY <2>1 DEF Loop
  <2> HIDE DEF g
  <2> QED BY <2>2
<1>2. ASSUME NEW m \in Nat, m \in T PROVE m + 1 \in T
  <2>1. PICK g : Loop(g, m)
    BY <1>2
  <2> DEFINE h == [s \in Below(m + 1) |-> Round(g, s)]
  <2>2. \A s \in Below(m) : g[s] = Round(g, s)
    BY <2>1 DEF Loop
  <2>3. Below(m) \subseteq Below(m + 1)
    BY PendingLen DEF Below
  <2>4. \A s \in Below(m) : g[s] = h[s]
    BY <2>2, <2>3
  <2>5. ASSUME NEW s \in Below(m + 1) PROVE Round(g, s) = Round(h, s)
    <3>1. s \in Stripper /\ Len(s.pending) <= m
      BY PendingLen DEF Below
    <3>2. ASSUME NEW r \in Stripper, Len(r.pending) < Len(s.pending) PROVE g[r] = h[r]
      <4>1. Len(r.pending) < m
        BY <3>1, <3>2, PendingLen
      <4>2. r \in Below(m)
        BY <4>1 DEF Below
      <4> QED BY <2>4, <4>2
    <3> HIDE DEF h
    <3> QED BY <3>1, <3>2, RoundLocal
  <2>6. Loop(h, m + 1)
    BY <2>5 DEF Loop
  <2> HIDE DEF h
  <2> QED BY <2>6
<1>3. \A m \in Nat : m \in T
  <2> HIDE DEF T
  <2> QED BY <1>1, <1>2, Steps
<1> QED BY <1>3

\* Two loops agree where both are defined.
LEMMA LoopUnique ==
  ASSUME NEW m \in Nat, NEW n \in Nat, NEW g, NEW h, Loop(g, m), Loop(h, n),
         NEW s \in Stripper, Len(s.pending) < m, Len(s.pending) < n
  PROVE  g[s] = h[s]
<1> DEFINE T == {k \in Nat : \A r \in Stripper :
                   Len(r.pending) = k /\ k < m /\ k < n => g[r] = h[r]}
<1>1. /\ \A r \in Below(m) : g[r] = Round(g, r)
      /\ \A r \in Below(n) : h[r] = Round(h, r)
  BY DEF Loop
<1>2. ASSUME NEW k \in Nat, \A j \in Nat : j < k => j \in T PROVE k \in T
  <2> SUFFICES ASSUME NEW r \in Stripper, Len(r.pending) = k, k < m, k < n
               PROVE  g[r] = h[r]
    OBVIOUS
  <2>1. ASSUME NEW q \in Stripper, Len(q.pending) < Len(r.pending) PROVE g[q] = h[q]
    <3>1. Len(q.pending) \in Nat /\ Len(q.pending) < k /\ Len(q.pending) < m /\ Len(q.pending) < n
      BY <2>1, PendingLen
    <3> QED BY <1>2, <3>1
  <2>2. Round(g, r) = Round(h, r)
    BY <2>1, RoundLocal
  <2>3. r \in Below(m) /\ r \in Below(n)
    BY DEF Below
  <2> QED BY <1>1, <2>2, <2>3
<1>3. \A k \in Nat : k \in T
  <2> HIDE DEF T
  <2> QED BY <1>2, Courses
<1> QED BY <1>3, PendingLen

\* So Push is what its rounds say.
LEMMA PushIs ==
  ASSUME NEW s \in Stripper
  PROVE  Push[s] = Round(Push, s)
<1> DEFINE G(m) == CHOOSE g : Loop(g, m)
           h == [r \in Stripper |-> G(Len(r.pending) + 1)[r]]
           Whole(f) == f = [r \in Stripper |-> Round(f, r)]
<1>1. \A m \in Nat : Loop(G(m), m)
  BY LoopExists
<1>2. ASSUME NEW r \in Stripper PROVE h[r] = Round(h, r)
  <2> DEFINE n == Len(r.pending) + 1
             g == G(n)
  <2>1. n \in Nat /\ Len(r.pending) < n /\ Loop(g, n) /\ h[r] = g[r]
    BY <1>1, PendingLen
  <2>2. r \in Below(n)
    BY <2>1 DEF Below
  <2>3. g[r] = Round(g, r)
    <3> HIDE DEF g, n
    <3> QED BY <2>1, <2>2 DEF Loop
  <2>4. ASSUME NEW q \in Stripper, Len(q.pending) < Len(r.pending) PROVE g[q] = h[q]
    <3> DEFINE k == Len(q.pending) + 1
    <3>1. k \in Nat /\ Len(q.pending) < k /\ Len(q.pending) < n
      BY <2>4, PendingLen
    <3>2. Loop(G(k), k) /\ h[q] = G(k)[q]
      BY <1>1, <3>1
    <3> HIDE DEF g, n, k, G, h
    <3> QED BY <2>1, <3>1, <3>2, LoopUnique
  <2>5. Round(g, r) = Round(h, r)
    <3> HIDE DEF g, h
    <3> QED BY <2>4, RoundLocal
  <2> HIDE DEF g, h, n
  <2> QED BY <2>1, <2>3, <2>5
<1>3. Whole(h)
  <2>1. h = [r \in Stripper |-> h[r]]
    OBVIOUS
  <2> HIDE DEF h
  <2> QED BY <1>2, <2>1
<1>4. Push = CHOOSE f : Whole(f)
  BY Zenon DEF Push, Round
<1>5. Whole(Push)
  <2> HIDE DEF h, Whole
  <2> QED BY <1>3, <1>4
<1>6. \A r \in Stripper : Push[r] = Round(Push, r)
  <2> HIDE DEF h
  <2>1. Push = [r \in Stripper |-> Round(Push, r)]
    BY <1>5
  <2> QED BY <2>1, Zenon
<1> QED BY <1>6

-----------------------------------------------------------------------------
(* Types of what the stripper returns.                                     *)

\* A stripper that stands inside a block or not, with a text to look at; and one
\* behind a tag.
Strip(b, t) == [in_think |-> b, pending |-> t]
After(tag, r) == [in_think |-> tag = OPEN, pending |-> r]

\* A stripper is the two things it keeps.
LEMMA StripIs ==
  /\ \A b \in BOOLEAN, t \in Seq(Char) :
       Strip(b, t) \in Stripper /\ Strip(b, t).in_think = b /\ Strip(b, t).pending = t
  /\ \A s \in Stripper :
       s.in_think \in BOOLEAN /\ s.pending \in Seq(Char) /\ s = Strip(s.in_think, s.pending)
  /\ \A tag \in Tag, t \in Seq(Char) :
       After(tag, t) \in Stripper /\ After(tag, t) = Strip(tag = OPEN, t)
       /\ After(tag, t).pending = t /\ After(tag, t).in_think = (tag = OPEN)
BY DEF Strip, After, Stripper

Pushed == [out : Seq(Char), in_think : BOOLEAN, pending : Seq(Char)]

\* A text that may begin a tag, or nothing.
PartOfTag(text) == \E tag \in Tag : IsStrictPrefix(text, tag)

\* The text before a position.
LEMMA BeforeIs ==
  ASSUME NEW buf \in Seq(Char), NEW i \in 1..(Len(buf) + 1)
  PROVE  SubSeq(buf, 1, i - 1) \in Seq(Char) /\ Len(SubSeq(buf, 1, i - 1)) = i - 1
<1>1. \A k \in 1..(i - 1) : buf[k] \in Char
  OBVIOUS
<1>2. i - 1 \in Int /\ 1 \in Int
  OBVIOUS
<1>3. /\ SubSeq(buf, 1, i - 1) \in Seq(Char)
      /\ Len(SubSeq(buf, 1, i - 1)) = IF 1 <= i - 1 THEN (i - 1) - 1 + 1 ELSE 0
  BY <1>1, <1>2, SubSeqProperties
<1> QED BY <1>2, <1>3

\* Emitting puts text in front.
LEMMA EmitIs ==
  ASSUME NEW text \in Seq(Char), NEW r \in Pushed
  PROVE  /\ Emit(text, r) \in Pushed
         /\ Emit(text, r).out = text \o r.out
         /\ Emit(text, r).in_think = r.in_think
         /\ Emit(text, r).pending = r.pending
<1>1. r.out \in Seq(Char) /\ r.in_think \in BOOLEAN /\ r.pending \in Seq(Char)
  BY DEF Pushed
<1>3. text \o r.out \in Seq(Char)
  BY <1>1
<1> DEFINE x == text \o r.out
<1>4. Emit(text, r) = [r EXCEPT !.out = x]
  BY DEF Emit
<1>5. x \in Seq(Char)
  BY <1>3
<1> HIDE DEF x
<1>6. /\ [r EXCEPT !.out = x] \in Pushed
      /\ [r EXCEPT !.out = x].out = x
      /\ [r EXCEPT !.out = x].in_think = r.in_think
      /\ [r EXCEPT !.out = x].pending = r.pending
  BY <1>5 DEF Pushed
<1> QED BY <1>4, <1>6 DEF x

\* The two ends of the loop.
LEMMA LastRound ==
  ASSUME NEW buf \in Seq(Char)
  PROVE  /\ PushInside(buf) \in Pushed /\ PartOfTag(PushInside(buf).pending)
         /\ PushOutside(buf) \in Pushed /\ PartOfTag(PushOutside(buf).pending)
<1>0. OPEN \in Tag /\ CLOSE \in Tag
  BY DEF Tag
<1> DEFINE o == hold_partial_suffix(buf, OPEN)
           c == hold_partial_suffix(buf, CLOSE)
           keep == Longest({o, c})
<1>1. /\ o \in Suffixes(buf) /\ IsStrictPrefix(o, OPEN)
      /\ c \in Suffixes(buf) /\ IsStrictPrefix(c, CLOSE)
  BY <1>0, HeldIs
<1> HIDE DEF o, c
<1>2. Len(buf) \in Nat /\ o \in Seq(Char) /\ c \in Seq(Char) /\ Len(o) <= Len(buf) /\ Len(c) <= Len(buf)
  BY <1>1, SuffixIs
<1>3. keep \in {o, c}
  <2>1. \A s \in {o, c} : Len(s) \in Nat /\ Len(s) <= Len(buf)
    BY <1>2
  <2> QED BY <1>2, <2>1, LongestIs
<1>4. SubSeq(buf, 1, Len(buf) - Len(keep)) \in Seq(Char)
  BY <1>1, <1>3, SuffixIs
<1>5. PushInside(buf) = [out |-> <<>>, in_think |-> TRUE, pending |-> c]
  BY DEF PushInside, c
<1>6. PushOutside(buf) = [out |-> SubSeq(buf, 1, Len(buf) - Len(keep)),
                          in_think |-> FALSE, pending |-> keep]
  BY DEF PushOutside, o, c
<1> HIDE DEF keep
<1> QED BY <1>0, <1>1, <1>2, <1>3, <1>4, <1>5, <1>6 DEF Pushed, PartOfTag

\* The types of Push; what it leaves pending is part of a tag.
LEMMA PushType ==
  ASSUME NEW s \in Stripper
  PROVE  Push[s] \in Pushed /\ PartOfTag(Push[s].pending)
<1> DEFINE Fine(r) == Push[r] \in Pushed /\ PartOfTag(Push[r].pending)
           T == {k \in Nat : \A r \in Stripper : Len(r.pending) = k => Fine(r)}
<1>1. ASSUME NEW k \in Nat, \A j \in Nat : j < k => j \in T PROVE k \in T
  <2> SUFFICES ASSUME NEW r \in Stripper, Len(r.pending) = k PROVE Fine(r)
    OBVIOUS
  <2> DEFINE buf == r.pending
             open == Find(r.pending, OPEN)
             close == Find(r.pending, CLOSE)
  <2>1. buf \in Seq(Char)
    BY DEF Stripper
  <2>2. Len(buf) \in Nat
    BY <2>1
  <2>3. ASSUME NEW q \in Stripper, Len(q.pending) < Len(r.pending) PROVE Fine(q)
    <3>1. Len(q.pending) \in Nat
      BY PendingLen
    <3> QED BY <1>1, <2>3, <3>1
  <2> HIDE DEF Fine, T
  <2>4. ASSUME NEW i \in 1..Len(buf), NEW tag \in Tag
        PROVE  /\ Fine(Past(r, i, tag))
               /\ SubSeq(buf, 1, i - 1) \in Seq(Char)
    <3>1. Fine(Past(r, i, tag))
      BY <2>3, PastIs
    <3>2. i \in 1..(Len(buf) + 1)
      BY <2>2
    <3> QED BY <2>1, <3>1, <3>2, BeforeIs
  <2>5. OPEN \in Tag /\ CLOSE \in Tag
    BY DEF Tag
  <2>6. CASE Push[r] = PushInside(buf) \/ Push[r] = PushOutside(buf)
    BY <2>1, <2>6, LastRound DEF Fine
  <2>7. CASE close \in 1..Len(buf) /\ Push[r] = Push[Past(r, close, CLOSE)]
    BY <2>4, <2>5, <2>7 DEF Fine
  <2>8. ASSUME NEW i \in 1..Len(buf), NEW tag \in Tag,
               Push[r] = Emit(SubSeq(buf, 1, i - 1), Push[Past(r, i, tag)])
        PROVE  Fine(r)
    <3>1. SubSeq(buf, 1, i - 1) \in Seq(Char) /\ Push[Past(r, i, tag)] \in Pushed
          /\ PartOfTag(Push[Past(r, i, tag)].pending)
      BY <2>4 DEF Fine
    <3> DEFINE text == SubSeq(buf, 1, i - 1)
               e == Push[Past(r, i, tag)]
    <3>2. Push[r] = Emit(text, e)
      BY <2>8
    <3> HIDE DEF buf, text, e
    <3>3. text \in Seq(Char) /\ e \in Pushed /\ PartOfTag(e.pending)
      BY <3>1 DEF text, e
    <3>4. Emit(text, e) \in Pushed /\ Emit(text, e).pending = e.pending
      BY <3>3, EmitIs
    <3> QED BY <3>2, <3>3, <3>4 DEF Fine
  <2> QED
    <3> HIDE DEF open, close, buf
    <3>1. Push[r] = Round(Push, r)
      BY PushIs
    <3>2. \/ Round(Push, r) = PushInside(buf)
          \/ close \in 1..Len(buf) /\ Round(Push, r) = Push[Past(r, close, CLOSE)]
          \/ Round(Push, r) = PushOutside(buf)
          \/ open \in 1..Len(buf)
             /\ Round(Push, r) = Emit(SubSeq(buf, 1, open - 1), Push[Past(r, open, OPEN)])
          \/ close \in 1..Len(buf)
             /\ Round(Push, r) = Emit(SubSeq(buf, 1, close - 1), Push[Past(r, close, CLOSE)])
      BY RoundIs DEF buf, open, close
    <3> QED BY <2>5, <2>6, <2>7, <2>8, <3>1, <3>2
<1>2. \A k \in Nat : k \in T
  <2> HIDE DEF T
  <2> QED BY <1>1, Courses
<1> QED BY <1>2, PendingLen

-----------------------------------------------------------------------------
(* Frames.                                                                 *)

Notes == {"schema_bleed", "reasoning_budget_exhausted"}
Frame == ({"content"} \X Char) \cup ({"thought"} \X {"r"})
           \cup ({"note"} \X Notes) \cup ({"row"} \X Nat)

\* Elements of S tagged with their kind are in F.
Puts(kind, S, F) == \A x \in S : <<kind, x>> \in F

\* Tagged says of each element what it is.
LEMMA TaggedIs ==
  ASSUME NEW S, NEW s \in Seq(S), NEW kind, NEW F, Puts(kind, S, F)
  PROVE  /\ Tagged(kind, s) \in Seq(F)
         /\ Len(Tagged(kind, s)) = Len(s)
         /\ \A i \in 1..Len(s) : Tagged(kind, s)[i] = <<kind, s[i]>>
<1>1. Len(s) \in Nat /\ DOMAIN s = 1..Len(s)
  OBVIOUS
<1>2. Tagged(kind, s) = [i \in 1..Len(s) |-> <<kind, s[i]>>]
  BY <1>1 DEF Tagged
<1>3. \A i \in 1..Len(s) : <<kind, s[i]>> \in F
  BY DEF Puts
<1>4. /\ [i \in 1..Len(s) |-> <<kind, s[i]>>] \in Seq(F)
      /\ Len([i \in 1..Len(s) |-> <<kind, s[i]>>]) = Len(s)
  BY <1>1, <1>3
<1> QED BY <1>2, <1>4

\* Of nothing, nothing.
LEMMA TaggedEmpty ==
  ASSUME NEW kind
  PROVE  Tagged(kind, <<>>) = <<>>
BY DEF Tagged

\* Of two texts, the one and then the other.
LEMMA TaggedConcat ==
  ASSUME NEW S, NEW s \in Seq(S), NEW t \in Seq(S), NEW kind
  PROVE  Tagged(kind, s \o t) = Tagged(kind, s) \o Tagged(kind, t)
<1> DEFINE F == {kind} \X S
           a == Tagged(kind, s)
           b == Tagged(kind, t)
           c == Tagged(kind, s \o t)
<1>1. /\ s \o t \in Seq(S) /\ Len(s) \in Nat /\ Len(t) \in Nat /\ Len(s \o t) = Len(s) + Len(t)
      /\ \A i \in 1..(Len(s) + Len(t)) :
           (s \o t)[i] = IF i <= Len(s) THEN s[i] ELSE t[i - Len(s)]
  OBVIOUS
<1>0. Puts(kind, S, F)
  BY DEF Puts
<1> HIDE DEF F
<1>2. /\ a \in Seq(F) /\ Len(a) = Len(s)
      /\ b \in Seq(F) /\ Len(b) = Len(t)
      /\ \A i \in 1..Len(s) : a[i] = <<kind, s[i]>>
      /\ \A i \in 1..Len(t) : b[i] = <<kind, t[i]>>
  BY <1>0, TaggedIs
<1>3. /\ c \in Seq(F) /\ Len(c) = Len(s \o t)
      /\ \A i \in 1..Len(s \o t) : c[i] = <<kind, (s \o t)[i]>>
  BY <1>0, <1>1, TaggedIs
<1> HIDE DEF a, b, c
<1>4. /\ a \o b \in Seq(F) /\ Len(a \o b) = Len(a) + Len(b)
      /\ \A i \in 1..(Len(a) + Len(b)) : (a \o b)[i] = IF i <= Len(a) THEN a[i] ELSE b[i - Len(a)]
  <2>1. \A x, y \in Seq(F) :
          /\ x \o y \in Seq(F) /\ Len(x \o y) = Len(x) + Len(y)
          /\ \A i \in 1..(Len(x) + Len(y)) : (x \o y)[i] = IF i <= Len(x) THEN x[i] ELSE y[i - Len(x)]
    BY Joined
  <2> QED BY <1>2, <2>1
<1>5. ASSUME NEW i \in 1..Len(c) PROVE c[i] = (a \o b)[i]
  <2>1. i \in 1..(Len(s) + Len(t)) /\ i \in 1..Len(s \o t)
    BY <1>1, <1>3
  <2>2. CASE i <= Len(s)
    <3>1. i \in 1..Len(s)
      BY <1>1, <2>1, <2>2
    <3> QED BY <1>1, <1>2, <1>3, <1>4, <2>1, <2>2, <3>1
  <2>3. CASE ~(i <= Len(s))
    <3>1. i - Len(s) \in 1..Len(t)
      BY <1>1, <2>1, <2>3
    <3> QED BY <1>1, <1>2, <1>3, <1>4, <2>1, <2>3, <3>1
  <2> QED BY <2>2, <2>3
<1>6. c = a \o b
  <2>1. Len(c) = Len(a \o b)
    BY <1>1, <1>2, <1>3, <1>4
  <2> QED BY <1>3, <1>4, <1>5, <2>1, SeqEqual
<1> QED BY <1>6 DEF a, b, c

\* The frames of some kinds, of two runs of frames.
LEMMA OfKindConcat ==
  ASSUME NEW S, NEW f \in Seq(S), NEW g \in Seq(S), NEW K
  PROVE  OfKind(f \o g, K) = OfKind(f, K) \o OfKind(g, K)
<1> DEFINE P == {i \in DOMAIN (f \o g) : (f \o g)[i][1] \in K}
           Pf == {i \in DOMAIN f : f[i][1] \in K}
           Pg == {i \in DOMAIN g : g[i][1] \in K}
<1>1. /\ Len(f) \in Nat /\ Len(g) \in Nat /\ DOMAIN f = 1..Len(f) /\ DOMAIN g = 1..Len(g)
      /\ DOMAIN (f \o g) = 1..(Len(f) + Len(g))
      /\ \A i \in 1..Len(f) : (f \o g)[i] = f[i]
      /\ \A i \in 1..Len(g) : (f \o g)[Len(f) + i] = g[i]
  OBVIOUS
<1>2. \A i \in 1..Len(g) : Len(f) + i \in P <=> i \in Pg
  <2> SUFFICES ASSUME NEW i \in 1..Len(g) PROVE Len(f) + i \in P <=> i \in Pg
    OBVIOUS
  <2>1. Len(f) + i \in 1..(Len(f) + Len(g)) /\ (f \o g)[Len(f) + i] = g[i]
    BY <1>1
  <2> QED BY <1>1, <2>1
<1>3. \A i \in 1..Len(f) : i \in P <=> i \in Pf
  <2> SUFFICES ASSUME NEW i \in 1..Len(f) PROVE i \in P <=> i \in Pf
    OBVIOUS
  <2>1. i \in 1..(Len(f) + Len(g)) /\ (f \o g)[i] = f[i]
    BY <1>1
  <2> QED BY <1>1, <2>1
<1> HIDE DEF P, Pf, Pg
<1>4. Pick(f \o g, P) = Pick(f, P) \o Pick(g, Pg)
  BY <1>2, PickConcat
<1>5. Pick(f, P) = Pick(f, Pf)
  BY <1>3, PickSame
<1> QED BY <1>4, <1>5 DEF OfKind, P, Pf, Pg

\* The frames of one kind are of some kinds all or not at all.
LEMMA OfKindTagged ==
  ASSUME NEW S, NEW s \in Seq(S), NEW kind, NEW K
  PROVE  OfKind(Tagged(kind, s), K) = IF kind \in K THEN Tagged(kind, s) ELSE <<>>
<1> DEFINE t == Tagged(kind, s)
           P == {i \in DOMAIN t : t[i][1] \in K}
           F == {kind} \X S
<1>0. Puts(kind, S, F)
  BY DEF Puts
<1> HIDE DEF F
<1>1. t \in Seq(F) /\ Len(t) = Len(s) /\ \A i \in 1..Len(s) : t[i] = <<kind, s[i]>>
  BY <1>0, TaggedIs
<1> HIDE DEF t
<1>2. DOMAIN t = 1..Len(t)
  BY <1>1
<1>3. \A i \in 1..Len(t) : i \in P <=> kind \in K
  BY <1>1, <1>2
<1> HIDE DEF P
<1>4. CASE kind \in K
  BY <1>1, <1>3, <1>4, PickAll DEF OfKind, t, P
<1>5. CASE kind \notin K
  BY <1>1, <1>3, <1>5, PickNone DEF OfKind, t, P
<1> QED BY <1>4, <1>5

\* What is left of some frames, those of some kinds, are frames of that sort.
LEMMA OfKindType ==
  ASSUME NEW S, NEW f \in Seq(S), NEW K
  PROVE  OfKind(f, K) \in Seq(S)
BY PickType DEF OfKind

\* Frames of no such kind leave nothing.
LEMMA OfKindNone ==
  ASSUME NEW S, NEW f \in Seq(S), NEW K, \A x \in S : x[1] \notin K
  PROVE  OfKind(f, K) = <<>>
<1> DEFINE P == {i \in DOMAIN f : f[i][1] \in K}
<1>1. \A i \in 1..Len(f) : i \notin P
  OBVIOUS
<1> HIDE DEF P
<1> QED BY <1>1, PickNone DEF OfKind, P

-----------------------------------------------------------------------------
(* The coalescer.                                                          *)

Coalescer == [content : Seq(Char), reasoning : Seq({"r"}), frames : Seq(Frame)]

\* Of some kinds of frames, those written and then those to come from what is held.
Flow(c, K) ==
  OfKind(c.frames, K)
    \o (OfKind(Tagged("thought", c.reasoning), K) \o OfKind(Tagged("content", c.content), K))

\* The frames of some kinds, of two runs of the frames there are.
LEMMA OfKindFrames ==
  \A f, g \in Seq(Frame) : \A K : OfKind(f \o g, K) = OfKind(f, K) \o OfKind(g, K)
BY OfKindConcat

\* Text and thoughts as frames.
LEMMA TaggedFrames ==
  /\ \A s \in Seq(Char) : Tagged("content", s) \in Seq(Frame)
  /\ \A s \in Seq({"r"}) : Tagged("thought", s) \in Seq(Frame)
<1>1. Puts("content", Char, Frame) /\ Puts("thought", {"r"}, Frame)
  BY DEF Puts, Frame
<1> QED BY <1>1, TaggedIs

\* A coalescer, field by field.
LEMMA CoalescerIs ==
  ASSUME NEW c \in Coalescer
  PROVE  /\ c.content \in Seq(Char) /\ c.reasoning \in Seq({"r"}) /\ c.frames \in Seq(Frame)
         /\ Tagged("content", c.content) \in Seq(Frame)
         /\ Tagged("thought", c.reasoning) \in Seq(Frame)
         /\ \A K : OfKind(c.frames, K) \in Seq(Frame)
<1>1. c.content \in Seq(Char) /\ c.reasoning \in Seq({"r"}) /\ c.frames \in Seq(Frame)
  BY DEF Coalescer
<1> QED BY <1>1, TaggedFrames, OfKindType

\* Concatenation is associative, and nothing its unit.
LEMMA Joins ==
  /\ \A a, b, c \in Seq(Frame) : (a \o b) \o c = a \o (b \o c)
  /\ \A a, b \in Seq(Frame) : a \o b \in Seq(Frame)
  /\ \A a \in Seq(Frame) : a \o <<>> = a /\ <<>> \o a = a
  /\ <<>> \in Seq(Frame)
<1>1. \A a, b, c \in Seq(Frame) : (a \o b) \o c = a \o (b \o c)
  BY ConcatAssociative
<1> QED BY <1>1

\* The first of them, said so that the provers see it at once.
LEMMA FramesRegroup == \A a, b, c \in Seq(Frame) : Regroups(a, b, c)
BY ConcatAssociative DEF Regroups

\* What is held last may be put outside.
LEMMA Regroup ==
  ASSUME NEW o \in Seq(Frame), NEW k \in Seq(Frame), NEW n \in Seq(Frame)
  PROVE  /\ o \o ((k \o n) \o <<>>) = (o \o (k \o <<>>)) \o n
         /\ o \o (<<>> \o (k \o n)) = (o \o (<<>> \o k)) \o n
<1>1. k \o n \in Seq(Frame)
  BY Joins, Zenon
<1>2. /\ (k \o n) \o <<>> = k \o n /\ <<>> \o (k \o n) = k \o n
  BY <1>1, Joins, Zenon
<1>3. k \o <<>> = k /\ <<>> \o k = k
  BY Joins, Zenon
<1>4. (o \o k) \o n = o \o (k \o n)
  <2>1. \A a, b, c \in Seq(Frame) : (a \o b) \o c = a \o (b \o c)
    BY Joins
  <2> QED BY <2>1
<1> QED BY <1>2, <1>3, <1>4

\* Nothing held gives no frames.
LEMMA NothingTagged ==
  ASSUME NEW kind, NEW K
  PROVE  OfKind(Tagged(kind, <<>>), K) = <<>>
<1>1. <<>> \in Seq({})
  OBVIOUS
<1>2. OfKind(Tagged(kind, <<>>), K) = IF kind \in K THEN Tagged(kind, <<>>) ELSE <<>>
  BY <1>1, OfKindTagged
<1> QED BY <1>2, TaggedEmpty

\* Writing the held thoughts moves them from what is held to what is written.
LEMMA TakeReasoning ==
  ASSUME NEW c \in Coalescer
  PROVE  LET d == take_reasoning(c)
         IN  /\ d \in Coalescer /\ d.reasoning = <<>> /\ d.content = c.content
             /\ \A K : Flow(d, K) = Flow(c, K)
<1> DEFINE d == take_reasoning(c)
           t == Tagged("thought", c.reasoning)
           x == c.frames \o t
<1>1. /\ c.content \in Seq(Char) /\ c.reasoning \in Seq({"r"}) /\ c.frames \in Seq(Frame)
      /\ t \in Seq(Frame) /\ Tagged("content", c.content) \in Seq(Frame)
  BY CoalescerIs
<1>2. x \in Seq(Frame) /\ <<>> \in Seq({"r"})
  BY <1>1
<1>3. d = [c EXCEPT !.frames = x, !.reasoning = <<>>]
  BY DEF take_reasoning
<1>4. d \in Coalescer /\ d.reasoning = <<>> /\ d.content = c.content /\ d.frames = x
  <2> HIDE DEF x, d
  <2> QED BY <1>2, <1>3 DEF Coalescer
<1>5. ASSUME NEW K PROVE Flow(d, K) = Flow(c, K)
  <2> DEFINE o == OfKind(c.frames, K)
             k == OfKind(Tagged("content", c.content), K)
             r == OfKind(t, K)
  <2>1. o \in Seq(Frame) /\ r \in Seq(Frame) /\ k \in Seq(Frame)
    BY <1>1, OfKindType
  <2>2. OfKind(x, K) = o \o r
    <3>1. \A f, g \in Seq(Frame) : OfKind(f \o g, K) = OfKind(f, K) \o OfKind(g, K)
      BY OfKindFrames
    <3> HIDE DEF t
    <3> QED BY <1>1, <3>1
  <2> HIDE DEF t, d, x
  <2>3. Flow(d, K) = OfKind(x, K) \o (OfKind(Tagged("thought", <<>>), K) \o k)
    BY <1>4 DEF Flow
  <2>4. Flow(c, K) = o \o (r \o k)
    BY DEF Flow, t
  <2> HIDE DEF o, k, r
  <2>5. Flow(d, K) = (o \o r) \o (<<>> \o k)
    BY <2>2, <2>3, NothingTagged
  <2> QED BY <2>1, <2>4, <2>5, Joins
<1> QED BY <1>4, <1>5

\* So does writing the held text, when no thoughts are held.
LEMMA TakeContent ==
  ASSUME NEW c \in Coalescer
  PROVE  LET d == take_content(c)
         IN  /\ d \in Coalescer /\ d.content = <<>> /\ d.reasoning = c.reasoning
             /\ c.content = <<>> \/ c.reasoning = <<>> => \A K : Flow(d, K) = Flow(c, K)
<1> DEFINE d == take_content(c)
           t == Tagged("content", c.content)
           x == c.frames \o t
<1>1. /\ c.content \in Seq(Char) /\ c.reasoning \in Seq({"r"}) /\ c.frames \in Seq(Frame)
      /\ t \in Seq(Frame) /\ Tagged("thought", c.reasoning) \in Seq(Frame)
  BY CoalescerIs
<1>2. x \in Seq(Frame) /\ <<>> \in Seq(Char)
  BY <1>1
<1>3. d = [c EXCEPT !.frames = x, !.content = <<>>]
  BY DEF take_content
<1>4. d \in Coalescer /\ d.content = <<>> /\ d.reasoning = c.reasoning /\ d.frames = x
  <2> HIDE DEF x, d
  <2> QED BY <1>2, <1>3 DEF Coalescer
<1>5. ASSUME c.content = <<>> \/ c.reasoning = <<>>, NEW K PROVE Flow(d, K) = Flow(c, K)
  <2> DEFINE o == OfKind(c.frames, K)
             k == OfKind(t, K)
             r == OfKind(Tagged("thought", c.reasoning), K)
  <2>1. o \in Seq(Frame) /\ r \in Seq(Frame) /\ k \in Seq(Frame)
    BY <1>1, OfKindType
  <2>2. OfKind(x, K) = o \o k
    <3>1. \A f, g \in Seq(Frame) : OfKind(f \o g, K) = OfKind(f, K) \o OfKind(g, K)
      BY OfKindFrames
    <3> HIDE DEF t
    <3> QED BY <1>1, <3>1
  <2>0. k = <<>> \/ r = <<>>
    BY <1>5, NothingTagged
  <2> HIDE DEF t, d, x
  <2>3. Flow(d, K) = OfKind(x, K) \o (r \o OfKind(Tagged("content", <<>>), K))
    BY <1>4 DEF Flow
  <2>4. Flow(c, K) = o \o (r \o k)
    BY DEF Flow, t
  <2> HIDE DEF o, k, r
  <2>5. Flow(d, K) = (o \o k) \o (r \o <<>>)
    BY <2>2, <2>3, NothingTagged
  <2>6. CASE k = <<>>
    BY <2>1, <2>4, <2>5, <2>6, Joins
  <2>7. CASE r = <<>>
    BY <2>1, <2>4, <2>5, <2>7, Joins
  <2> QED BY <2>0, <2>6, <2>7
<1> QED BY <1>4, <1>5

\* A flush writes all that is held, thoughts first.
LEMMA FlushIs ==
  ASSUME NEW c \in Coalescer
  PROVE  /\ flush(c) \in Coalescer
         /\ flush(c).content = <<>> /\ flush(c).reasoning = <<>>
         /\ \A K : Flow(flush(c), K) = Flow(c, K)
<1> DEFINE d == take_reasoning(c)
<1>1. /\ d \in Coalescer /\ d.reasoning = <<>>
      /\ \A K : Flow(d, K) = Flow(c, K)
  BY TakeReasoning
<1> HIDE DEF d
<1>2. /\ take_content(d) \in Coalescer /\ take_content(d).content = <<>>
      /\ take_content(d).reasoning = d.reasoning
      /\ \A K : Flow(take_content(d), K) = Flow(d, K)
  BY <1>1, TakeContent
<1> QED BY <1>1, <1>2 DEF flush, d

\* Only text or only thoughts are held.
OneHeld(c) == c.content = <<>> \/ c.reasoning = <<>>

\* Whether it is due or not.
LEMMA FlushIfDue ==
  ASSUME NEW c \in Coalescer, NEW due \in BOOLEAN, OneHeld(c)
  PROVE  LET d == flush_if_due(c, due)
         IN  /\ d \in Coalescer /\ OneHeld(d)
             /\ c.content = <<>> => d.content = <<>>
             /\ \A K : Flow(d, K) = Flow(c, K)
<1>1. CASE due
  BY <1>1, FlushIs DEF flush_if_due, OneHeld
<1>2. CASE ~due
  BY <1>2 DEF flush_if_due
<1> QED BY <1>1, <1>2

\* Thoughts pushed follow all that came before.
LEMMA PushReasoning ==
  ASSUME NEW c \in Coalescer, OneHeld(c), NEW s \in Seq({"r"}), NEW due \in BOOLEAN
  PROVE  LET d == push_reasoning(c, s, due)
         IN  /\ d \in Coalescer /\ OneHeld(d) /\ d.content = <<>>
             /\ \A K : Flow(d, K) = Flow(c, K) \o OfKind(Tagged("thought", s), K)
<1> DEFINE b == take_content(c)
           x == b.reasoning \o s
           e == [b EXCEPT !.reasoning = x]
<1>1. b \in Coalescer /\ b.content = <<>> /\ \A K : Flow(b, K) = Flow(c, K)
  BY TakeContent DEF OneHeld
<1> HIDE DEF b
<1>2. b.reasoning \in Seq({"r"}) /\ x \in Seq({"r"}) /\ b.frames \in Seq(Frame)
  BY <1>1, CoalescerIs
<1>3. e \in Coalescer /\ e.content = <<>> /\ e.reasoning = x /\ e.frames = b.frames
  <2> HIDE DEF x
  <2> QED BY <1>1, <1>2 DEF Coalescer
<1>4. ASSUME NEW K PROVE Flow(e, K) = Flow(b, K) \o OfKind(Tagged("thought", s), K)
  <2> DEFINE o == OfKind(b.frames, K)
             r == OfKind(Tagged("thought", b.reasoning), K)
             n == OfKind(Tagged("thought", s), K)
  <2>1. o \in Seq(Frame) /\ r \in Seq(Frame) /\ n \in Seq(Frame)
    BY <1>2, OfKindType, TaggedFrames
  <2>2. OfKind(Tagged("thought", x), K) = r \o n
    <3>1. Tagged("thought", x) = Tagged("thought", b.reasoning) \o Tagged("thought", s)
      BY <1>2, TaggedConcat
    <3>2. \A f, g \in Seq(Frame) : OfKind(f \o g, K) = OfKind(f, K) \o OfKind(g, K)
      BY OfKindFrames
    <3>3. Tagged("thought", b.reasoning) \in Seq(Frame) /\ Tagged("thought", s) \in Seq(Frame)
      BY <1>2, TaggedFrames
    <3> HIDE DEF x
    <3> QED BY <3>1, <3>2, <3>3
  <2> HIDE DEF x, e
  <2>3. Flow(e, K) = o \o ((r \o n) \o <<>>)
    BY <1>3, <2>2, NothingTagged DEF Flow
  <2>4. Flow(b, K) = o \o (r \o <<>>)
    BY <1>1, NothingTagged DEF Flow
  <2> HIDE DEF o, r, n
  <2>5. Flow(e, K) = Flow(b, K) \o n
    <3>1. o \o ((r \o n) \o <<>>) = (o \o (r \o <<>>)) \o n
      BY <2>1, Regroup
    <3> QED BY <2>3, <2>4, <3>1, Zenon
  <2> QED BY <2>5 DEF n
<1>5. push_reasoning(c, s, due) = flush_if_due(e, due)
  BY DEF push_reasoning, b
<1>6. OneHeld(e)
  BY <1>3 DEF OneHeld
<1> HIDE DEF e
<1>7. /\ flush_if_due(e, due) \in Coalescer /\ OneHeld(flush_if_due(e, due))
      /\ flush_if_due(e, due).content = <<>>
      /\ \A K : Flow(flush_if_due(e, due), K) = Flow(e, K)
  BY <1>3, <1>6, FlushIfDue
<1> QED BY <1>1, <1>4, <1>5, <1>7

\* And so does text.
LEMMA PushContent ==
  ASSUME NEW c \in Coalescer, NEW s \in Seq(Char), NEW due \in BOOLEAN
  PROVE  LET d == push_content(c, s, due)
         IN  /\ d \in Coalescer /\ OneHeld(d)
             /\ \A K : Flow(d, K) = Flow(c, K) \o OfKind(Tagged("content", s), K)
<1> DEFINE b == take_reasoning(c)
           x == b.content \o s
           e == [b EXCEPT !.content = x]
<1>1. b \in Coalescer /\ b.reasoning = <<>> /\ \A K : Flow(b, K) = Flow(c, K)
  BY TakeReasoning
<1> HIDE DEF b
<1>2. b.content \in Seq(Char) /\ x \in Seq(Char) /\ b.frames \in Seq(Frame)
  BY <1>1, CoalescerIs
<1>3. e \in Coalescer /\ e.content = x /\ e.reasoning = <<>> /\ e.frames = b.frames
  <2> HIDE DEF x
  <2> QED BY <1>1, <1>2 DEF Coalescer
<1>4. ASSUME NEW K PROVE Flow(e, K) = Flow(b, K) \o OfKind(Tagged("content", s), K)
  <2> DEFINE o == OfKind(b.frames, K)
             k == OfKind(Tagged("content", b.content), K)
             n == OfKind(Tagged("content", s), K)
  <2>1. o \in Seq(Frame) /\ k \in Seq(Frame) /\ n \in Seq(Frame)
    BY <1>2, OfKindType, TaggedFrames
  <2>2. OfKind(Tagged("content", x), K) = k \o n
    <3>1. Tagged("content", x) = Tagged("content", b.content) \o Tagged("content", s)
      BY <1>2, TaggedConcat
    <3>2. \A f, g \in Seq(Frame) : OfKind(f \o g, K) = OfKind(f, K) \o OfKind(g, K)
      BY OfKindFrames
    <3>3. Tagged("content", b.content) \in Seq(Frame) /\ Tagged("content", s) \in Seq(Frame)
      BY <1>2, TaggedFrames
    <3> HIDE DEF x
    <3> QED BY <3>1, <3>2, <3>3
  <2> HIDE DEF x, e
  <2>3. Flow(e, K) = o \o (<<>> \o (k \o n))
    BY <1>3, <2>2, NothingTagged DEF Flow
  <2>4. Flow(b, K) = o \o (<<>> \o k)
    BY <1>1, NothingTagged DEF Flow
  <2> HIDE DEF o, k, n
  <2>5. Flow(e, K) = Flow(b, K) \o n
    <3>1. o \o (<<>> \o (k \o n)) = (o \o (<<>> \o k)) \o n
      BY <2>1, Regroup
    <3> QED BY <2>3, <2>4, <3>1, Zenon
  <2> QED BY <2>5 DEF n
<1>5. push_content(c, s, due) = flush_if_due(e, due)
  BY DEF push_content, b
<1>6. OneHeld(e)
  BY <1>3 DEF OneHeld
<1> HIDE DEF e
<1>7. /\ flush_if_due(e, due) \in Coalescer /\ OneHeld(flush_if_due(e, due))
      /\ \A K : Flow(flush_if_due(e, due), K) = Flow(e, K)
  BY <1>3, <1>6, FlushIfDue
<1> QED BY <1>1, <1>4, <1>5, <1>7

\* What a coalescer is to write are frames.
LEMMA FlowType ==
  ASSUME NEW c \in Coalescer, NEW K
  PROVE  Flow(c, K) \in Seq(Frame)
<1> DEFINE o == OfKind(c.frames, K)
           r == OfKind(Tagged("thought", c.reasoning), K)
           k == OfKind(Tagged("content", c.content), K)
<1>1. o \in Seq(Frame) /\ r \in Seq(Frame) /\ k \in Seq(Frame)
  BY CoalescerIs, OfKindType
<1>2. Flow(c, K) = o \o (r \o k)
  BY DEF Flow
<1> HIDE DEF o, r, k
<1> QED BY <1>1, <1>2, Joins

\* The closure on a chunk, of a session that keeps its text back or not.
Closed(c, s, t, due, hold) ==
  LET b == IF s = <<>> THEN c ELSE push_reasoning(c, s, due)
  IN  IF t = <<>> \/ hold THEN b ELSE push_content(b, t, due)

\* Thoughts and then text follow what came before; text that is kept back
\* goes elsewhere.
LEMMA ClosedIs ==
  ASSUME NEW c \in Coalescer, OneHeld(c), NEW s \in Seq({"r"}), NEW t \in Seq(Char),
         NEW due \in BOOLEAN, NEW hold \in BOOLEAN
  PROVE  LET d == Closed(c, s, t, due, hold)
         IN  /\ d \in Coalescer /\ OneHeld(d)
             /\ hold /\ c.content = <<>> => d.content = <<>>
             /\ \A K : Flow(d, K) =
                         (Flow(c, K) \o OfKind(Tagged("thought", s), K))
                           \o (IF hold THEN <<>> ELSE OfKind(Tagged("content", t), K))
<1> DEFINE b == IF s = <<>> THEN c ELSE push_reasoning(c, s, due)
           d == Closed(c, s, t, due, hold)
           r(K) == OfKind(Tagged("thought", s), K)
           k(K) == OfKind(Tagged("content", t), K)
           n(K) == IF hold THEN <<>> ELSE k(K)
<1>0. \A K : r(K) \in Seq(Frame) /\ k(K) \in Seq(Frame) /\ Flow(c, K) \in Seq(Frame)
  BY TaggedFrames, OfKindType, FlowType
<1>1. /\ b \in Coalescer /\ OneHeld(b)
      /\ c.content = <<>> => b.content = <<>>
      /\ \A K : Flow(b, K) = Flow(c, K) \o r(K)
  <2>1. CASE s = <<>>
    <3>1. \A K : r(K) = <<>>
      BY <2>1, NothingTagged
    <3>2. b = c
      BY <2>1
    <3> HIDE DEF b, r
    <3> QED BY <1>0, <3>1, <3>2, Joins
  <2>2. CASE s # <<>>
    BY <2>2, PushReasoning
  <2> QED BY <2>1, <2>2
<1>d. d = IF t = <<>> \/ hold THEN b ELSE push_content(b, t, due)
  BY DEF Closed
<1> HIDE DEF b, d
<1>2. \A K : Flow(b, K) \in Seq(Frame)
  BY <1>1, FlowType
<1>3. /\ d \in Coalescer /\ OneHeld(d)
      /\ hold /\ b.content = <<>> => d.content = <<>>
      /\ \A K : Flow(d, K) = Flow(b, K) \o n(K)
  <2>1. CASE t = <<>> \/ hold
    <3>1. d = b
      BY <1>d, <2>1
    <3>2. \A K : n(K) = <<>>
      BY <2>1, NothingTagged
    <3>3. \A K : Flow(b, K) \o <<>> = Flow(b, K)
      BY <1>2, Joins
    <3> HIDE DEF n
    <3> QED BY <1>1, <3>1, <3>2, <3>3
  <2>2. CASE ~(t = <<>> \/ hold)
    <3>1. d = push_content(b, t, due)
      BY <1>d, <2>2
    <3>2. push_content(b, t, due) \in Coalescer /\ OneHeld(push_content(b, t, due))
      BY <1>1, PushContent
    <3>3. \A K : Flow(push_content(b, t, due), K) = Flow(b, K) \o k(K)
      BY <1>1, PushContent
    <3> HIDE DEF k
    <3> QED BY <2>2, <3>1, <3>2, <3>3
  <2> QED BY <2>1, <2>2
<1>4. \A K : Flow(d, K) = (Flow(c, K) \o r(K)) \o n(K)
  <2> HIDE DEF r, n
  <2> QED BY <1>1, <1>3
<1> QED BY <1>1, <1>3, <1>4 DEF d

-----------------------------------------------------------------------------
(* Frames are only added.                                                  *)

\* More is written, and what is written stays.
Grows(c, d) == \E w \in Seq(Frame) : d.frames = c.frames \o w

\* It grows by steps.
LEMMA GrowsOn ==
  ASSUME NEW a \in Coalescer, NEW b \in Coalescer, NEW c \in Coalescer
  PROVE  /\ a.frames = b.frames => Grows(a, b)
         /\ Grows(a, b) /\ Grows(b, c) => Grows(a, c)
<1>1. a.frames \in Seq(Frame) /\ b.frames \in Seq(Frame)
  BY CoalescerIs
<1>2. ASSUME a.frames = b.frames PROVE Grows(a, b)
  <2>1. a.frames \o <<>> = a.frames /\ <<>> \in Seq(Frame)
    BY <1>1, Joins
  <2> QED BY <1>2, <2>1 DEF Grows
<1>3. ASSUME Grows(a, b), Grows(b, c) PROVE Grows(a, c)
  <2>1. PICK u \in Seq(Frame) : b.frames = a.frames \o u
    BY <1>3 DEF Grows
  <2>2. PICK v \in Seq(Frame) : c.frames = b.frames \o v
    BY <1>3 DEF Grows
  <2>3. u \o v \in Seq(Frame) /\ (a.frames \o u) \o v = a.frames \o (u \o v)
    <3>1. Regroups(a.frames, u, v)
      BY <1>1, FramesRegroup
    <3>2. u \o v \in Seq(Frame)
      BY Joins
    <3> QED BY <3>1, <3>2 DEF Regroups
  <2> QED BY <2>1, <2>2, <2>3 DEF Grows
<1> QED BY <1>2, <1>3

\* Taking adds what was held, setting what is held adds nothing.
LEMMA TakeGrows ==
  ASSUME NEW c \in Coalescer
  PROVE  Grows(c, take_reasoning(c)) /\ Grows(c, take_content(c))
<1> DEFINE t == Tagged("thought", c.reasoning)
           k == Tagged("content", c.content)
           x == c.frames \o t
           y == c.frames \o k
<1>1. c.frames \in Seq(Frame) /\ t \in Seq(Frame) /\ k \in Seq(Frame)
  BY CoalescerIs
<1>2. take_reasoning(c).frames = x
  <2>1. take_reasoning(c) = [c EXCEPT !.frames = x, !.reasoning = <<>>]
    BY DEF take_reasoning
  <2> HIDE DEF x
  <2> QED BY <2>1 DEF Coalescer
<1>3. take_content(c).frames = y
  <2>1. take_content(c) = [c EXCEPT !.frames = y, !.content = <<>>]
    BY DEF take_content
  <2> HIDE DEF y
  <2> QED BY <2>1 DEF Coalescer
<1> HIDE DEF t, k
<1> QED BY <1>1, <1>2, <1>3 DEF Grows

\* A flush only writes.
LEMMA FlushGrows ==
  ASSUME NEW c \in Coalescer, NEW due
  PROVE  /\ flush(c) \in Coalescer /\ Grows(c, flush(c))
         /\ flush_if_due(c, due) \in Coalescer /\ Grows(c, flush_if_due(c, due))
<1> DEFINE d == take_reasoning(c)
<1>1. d \in Coalescer /\ Grows(c, d)
  BY TakeReasoning, TakeGrows
<1> HIDE DEF d
<1>2. take_content(d) \in Coalescer /\ Grows(d, take_content(d))
  BY <1>1, TakeContent, TakeGrows
<1>3. flush(c) \in Coalescer /\ Grows(c, flush(c))
  BY <1>1, <1>2, GrowsOn DEF flush, d
<1>4. Grows(c, c)
  BY GrowsOn
<1> QED BY <1>3, <1>4 DEF flush_if_due

\* Whatever is pushed.
LEMMA PushGrows ==
  ASSUME NEW c \in Coalescer, NEW s \in Seq({"r"}), NEW t \in Seq(Char), NEW due \in BOOLEAN
  PROVE  /\ Grows(c, push_reasoning(c, s, due))
         /\ Grows(c, push_content(c, t, due))
<1>1. Grows(c, push_reasoning(c, s, due))
  <2> DEFINE b == take_content(c)
             x == b.reasoning \o s
             e == [b EXCEPT !.reasoning = x]
  <2>1. b \in Coalescer /\ Grows(c, b)
    BY TakeContent, TakeGrows
  <2> HIDE DEF b
  <2>2. x \in Seq({"r"})
    BY <2>1, CoalescerIs
  <2>3. e \in Coalescer /\ e.frames = b.frames
    <3> HIDE DEF x
    <3> QED BY <2>1, <2>2 DEF Coalescer
  <2>4. push_reasoning(c, s, due) = flush_if_due(e, due)
    BY DEF push_reasoning, b
  <2> HIDE DEF e
  <2>5. flush_if_due(e, due) \in Coalescer /\ Grows(e, flush_if_due(e, due)) /\ Grows(b, e)
    BY <2>1, <2>3, FlushGrows, GrowsOn
  <2>6. Grows(b, flush_if_due(e, due))
    BY <2>1, <2>3, <2>5, GrowsOn
  <2> QED BY <2>1, <2>4, <2>5, <2>6, GrowsOn
<1>2. Grows(c, push_content(c, t, due))
  <2> DEFINE b == take_reasoning(c)
             x == b.content \o t
             e == [b EXCEPT !.content = x]
  <2>1. b \in Coalescer /\ Grows(c, b)
    BY TakeReasoning, TakeGrows
  <2> HIDE DEF b
  <2>2. x \in Seq(Char)
    BY <2>1, CoalescerIs
  <2>3. e \in Coalescer /\ e.frames = b.frames
    <3> HIDE DEF x
    <3> QED BY <2>1, <2>2 DEF Coalescer
  <2>4. push_content(c, t, due) = flush_if_due(e, due)
    BY DEF push_content, b
  <2> HIDE DEF e
  <2>5. flush_if_due(e, due) \in Coalescer /\ Grows(e, flush_if_due(e, due)) /\ Grows(b, e)
    BY <2>1, <2>3, FlushGrows, GrowsOn
  <2>6. Grows(b, flush_if_due(e, due))
    BY <2>1, <2>3, <2>5, GrowsOn
  <2> QED BY <2>1, <2>4, <2>5, <2>6, GrowsOn
<1> QED BY <1>1, <1>2

\* And so does a chunk.
LEMMA ClosedGrows ==
  ASSUME NEW c \in Coalescer, OneHeld(c), NEW s \in Seq({"r"}), NEW t \in Seq(Char),
         NEW due \in BOOLEAN, NEW hold \in BOOLEAN
  PROVE  Grows(c, Closed(c, s, t, due, hold))
<1> DEFINE b == IF s = <<>> THEN c ELSE push_reasoning(c, s, due)
           d == IF t = <<>> \/ hold THEN b ELSE push_content(b, t, due)
<1>1. b \in Coalescer /\ Grows(c, b)
  <2>1. Grows(c, c)
    BY GrowsOn
  <2> QED BY <2>1, PushReasoning, PushGrows
<1> HIDE DEF b
<1>2. d \in Coalescer /\ Grows(b, d)
  <2>1. Grows(b, b)
    BY <1>1, GrowsOn
  <2>2. push_content(b, t, due) \in Coalescer /\ Grows(b, push_content(b, t, due))
    BY <1>1, PushContent, PushGrows
  <2> QED BY <1>1, <2>1, <2>2
<1>3. Closed(c, s, t, due, hold) = d
  BY DEF Closed, b
<1> HIDE DEF d
<1> QED BY <1>1, <1>2, <1>3, GrowsOn

\* Frames written by an empty coalescer come after all others.
LEMMA WriteMore ==
  ASSUME NEW c \in Coalescer, c.content = <<>>, c.reasoning = <<>>, NEW w \in Seq(Frame)
  PROVE  LET d == [c EXCEPT !.frames = @ \o w]
         IN  /\ d \in Coalescer /\ d.content = <<>> /\ d.reasoning = <<>>
             /\ \A K : Flow(d, K) = Flow(c, K) \o OfKind(w, K)
<1> DEFINE x == c.frames \o w
           d == [c EXCEPT !.frames = x]
<1>1. c.frames \in Seq(Frame) /\ x \in Seq(Frame)
  BY CoalescerIs
<1>2. d \in Coalescer /\ d.content = <<>> /\ d.reasoning = <<>> /\ d.frames = x
  <2> HIDE DEF x
  <2> QED BY <1>1 DEF Coalescer
<1>3. ASSUME NEW K PROVE Flow(d, K) = Flow(c, K) \o OfKind(w, K)
  <2> DEFINE o == OfKind(c.frames, K)
             n == OfKind(w, K)
  <2>1. OfKind(x, K) = o \o n /\ o \in Seq(Frame) /\ n \in Seq(Frame)
    <3>1. \A f, g \in Seq(Frame) : OfKind(f \o g, K) = OfKind(f, K) \o OfKind(g, K)
      BY OfKindFrames
    <3>2. \A f \in Seq(Frame) : OfKind(f, K) \in Seq(Frame)
      BY OfKindType
    <3> QED BY <1>1, <3>1, <3>2
  <2>2. \A k : OfKind(Tagged(k, <<>>), K) = <<>>
    BY NothingTagged
  <2>3. <<>> \o <<>> = <<>>
    BY Joins
  <2> HIDE DEF d, x
  <2>4. Flow(d, K) = OfKind(x, K) \o <<>> /\ Flow(c, K) = o \o <<>>
    BY <1>2, <2>2, <2>3 DEF Flow
  <2> HIDE DEF o, n
  <2>5. (o \o n) \o <<>> = o \o n /\ o \o <<>> = o
    BY <2>1, Joins
  <2> QED BY <2>1, <2>4, <2>5 DEF n
<1> QED BY <1>2, <1>3

-----------------------------------------------------------------------------
(* The invariant.                                                          *)

Phases == {"stream", "tail", "calls", "answered", "acting", "failed"}
Over == {"calls", "answered", "acting"}
Prose == {"content", "thought"}

\* What the request and the round keep.
ReplyInv ==
  /\ mode \in Modes
  /\ sent \in Seq(Char) /\ thought \in Seq({"r"})
  /\ said \in Seq(Char) /\ base \in Seq(Char)
  /\ strip \in Stripper /\ PartOfTag(strip.pending)
  /\ accum \in [1..MaxCalls -> {"none", "nameless", "named"}]
  /\ retries \in 0..MaxRetries
  /\ phase \in Phases

\* A session's text goes to the coalescer or to the buffer.
HeldInv ==
  /\ co \in Coalescer /\ OneHeld(co)
  /\ buffer \in Seq(Char)
  /\ (Live /\ buffer = <<>>) \/ (~Live /\ co.content = <<>>)
  /\ released \in Seq(Frame)

\* What is written and what is held make up all that was released.
FlowInv ==
  /\ Live => released = Flow(co, Prose)
  /\ phase \in Over => co.content = <<>> /\ co.reasoning = <<>>

IInv == ReplyInv /\ HeldInv /\ FlowInv

\* One element is a sequence.
LEMMA Single ==
  ASSUME NEW S, NEW x \in S
  PROVE  <<x>> \in Seq(S) /\ <<>> \in Seq(S)
OBVIOUS

\* The text and the thoughts of a chunk, as frames.
LEMMA ProseOnly ==
  /\ \A s \in Seq(Char) : OfKind(Tagged("content", s), Prose) = Tagged("content", s)
  /\ \A s \in Seq({"r"}) : OfKind(Tagged("thought", s), Prose) = Tagged("thought", s)
BY OfKindTagged DEF Prose

\* The closure, and what it leaves in the coalescer and the buffer.
LEMMA OnChunkIs ==
  ASSUME ReplyInv, HeldInv, UNCHANGED mode,
         NEW s \in Seq({"r"}), NEW t \in Seq(Char), OnChunk(s, t)
  PROVE  /\ co' \in Coalescer /\ OneHeld(co') /\ Grows(co, co')
         /\ ~Live /\ co.content = <<>> => co'.content = <<>>
         /\ \A K : Flow(co', K) = (Flow(co, K) \o OfKind(Tagged("thought", s), K))
                     \o (IF Live THEN OfKind(Tagged("content", t), K) ELSE <<>>)
         /\ Live' = Live
         /\ said' = said \o t
         /\ buffer' = IF Live THEN buffer ELSE buffer \o t
         /\ released' = (released \o Tagged("thought", s)) \o Tagged("content", t)
<1> DEFINE hold == should_buffer_tool_content
<1>1. /\ hold \in BOOLEAN /\ Live = ~hold /\ Live' = Live
  BY DEF Live, should_buffer_tool_content
<1>2. PICK due \in BOOLEAN : co' = Closed(co, s, t, due, hold)
  BY DEF OnChunk, Closed
<1>3. /\ said' = said \o t /\ buffer' = (IF hold THEN buffer \o t ELSE buffer)
      /\ released' = (released \o Tagged("thought", s)) \o Tagged("content", t)
  BY DEF OnChunk
<1> HIDE DEF hold
<1>4. co \in Coalescer /\ OneHeld(co)
  BY DEF HeldInv
<1> DEFINE d == Closed(co, s, t, due, hold)
<1>5. /\ d \in Coalescer /\ OneHeld(d) /\ Grows(co, d)
      /\ hold /\ co.content = <<>> => d.content = <<>>
      /\ \A K : Flow(d, K) = (Flow(co, K) \o OfKind(Tagged("thought", s), K))
                               \o (IF hold THEN <<>> ELSE OfKind(Tagged("content", t), K))
  BY <1>1, <1>4, ClosedIs, ClosedGrows
<1> HIDE DEF d
<1>6. co' = d
  BY <1>2 DEF d
<1> HIDE DEF OnChunk
<1>7. \A K : Flow(co', K) = (Flow(co, K) \o OfKind(Tagged("thought", s), K))
                     \o (IF Live THEN OfKind(Tagged("content", t), K) ELSE <<>>)
  BY <1>1, <1>5, <1>6
<1> QED BY <1>1, <1>3, <1>5, <1>6, <1>7

\* A chunk's thoughts and text, wherever they go.
LEMMA OnChunkKeeps ==
  ASSUME ReplyInv, HeldInv, FlowInv, UNCHANGED mode,
         NEW s \in Seq({"r"}), NEW t \in Seq(Char), OnChunk(s, t)
  PROVE  /\ HeldInv' /\ said' \in Seq(Char)
         /\ Live => released' = Flow(co', Prose)
<1>1. /\ co' \in Coalescer /\ OneHeld(co') /\ Live' = Live
      /\ ~Live /\ co.content = <<>> => co'.content = <<>>
      /\ \A K : Flow(co', K) = (Flow(co, K) \o OfKind(Tagged("thought", s), K))
                     \o (IF Live THEN OfKind(Tagged("content", t), K) ELSE <<>>)
      /\ said' = said \o t /\ buffer' = (IF Live THEN buffer ELSE buffer \o t)
      /\ released' = (released \o Tagged("thought", s)) \o Tagged("content", t)
  BY OnChunkIs
<1> HIDE DEF OnChunk
<1>2. released' \in Seq(Frame)
  <2>1. /\ released \in Seq(Frame) /\ Tagged("thought", s) \in Seq(Frame)
        /\ Tagged("content", t) \in Seq(Frame)
    BY TaggedFrames DEF HeldInv
  <2> QED BY <1>1, <2>1, Joins
<1>3. buffer' \in Seq(Char) /\ said' \in Seq(Char)
  BY <1>1 DEF HeldInv, ReplyInv
<1>4. (Live /\ buffer = <<>>)' \/ (~Live /\ co.content = <<>>)'
  BY <1>1 DEF HeldInv
<1>5. Live => released' = Flow(co', Prose)
  BY <1>1, ProseOnly DEF FlowInv
<1> QED BY <1>1, <1>2, <1>3, <1>4, <1>5 DEF HeldInv

-----------------------------------------------------------------------------
(* The actions keep the invariant.                                         *)

\* At the start.
LEMMA InitKeeps ==
  ASSUME Init
  PROVE  IInv
<1>1. <<>> \in Seq(Char) /\ <<>> \in Seq({"r"}) /\ <<>> \in Seq(Frame)
  OBVIOUS
<1>2. ReplyInv
  <2>1. PartOfTag(<<>>)
    BY NothingHeld DEF PartOfTag, Tag
  <2>2. 0 \in 0..MaxRetries
    BY StreamPipelineAssumption
  <2> QED BY <1>1, <2>1, <2>2 DEF Init, ReplyInv, Stripper, Phases
<1>3. HeldInv
  BY <1>1 DEF Init, HeldInv, Coalescer, OneHeld
<1>4. FlowInv
  <2>1. OfKind(<<>>, Prose) = <<>>
    BY PickEmpty DEF OfKind
  <2>2. <<>> \o (<<>> \o <<>>) = <<>>
    BY Joins
  <2>3. Flow(co, Prose) = <<>>
    BY <2>1, <2>2, TaggedEmpty DEF Init, Flow
  <2> QED BY <2>3 DEF Init, FlowInv, Over
<1> QED BY <1>2, <1>3, <1>4 DEF IInv

\* A chunk is a piece of text and one of reasoning.
LEMMA ChunkIs ==
  ASSUME IInv, Chunk
  PROVE  \E piece \in Seq(Char), s \in Seq({"r"}) :
           LET p == Push[Strip(strip.in_think, strip.pending \o piece)]
           IN  /\ p \in Pushed /\ PartOfTag(p.pending)
               /\ sent' = sent \o piece /\ thought' = thought \o s
               /\ strip' = [in_think |-> p.in_think, pending |-> p.pending]
               /\ OnChunk(s, p.out)
<1>1. PICK piece \in Pieces, s \in {<<>>, <<"r">>} :
        LET p == Push[[strip EXCEPT !.pending = @ \o piece]]
        IN  /\ sent' = sent \o piece /\ thought' = thought \o s
            /\ strip' = [in_think |-> p.in_think, pending |-> p.pending]
            /\ OnChunk(s, p.out)
  BY DEF Chunk
<1>2. piece \in Seq(Char)
  <2>1. PICK t \in Texts[mode] : \E n \in Len(sent)..Len(t) : piece = SubSeq(t, Len(sent) + 1, n)
    BY DEF Pieces
  <2>2. PICK n \in Len(sent)..Len(t) : piece = SubSeq(t, Len(sent) + 1, n)
    BY <2>1
  <2>3. t \in Seq(Char) /\ Len(sent) \in Nat
    BY StreamPipelineAssumption DEF IInv, ReplyInv
  <2>4. Len(sent) + 1 \in Int /\ n \in Int /\ \A i \in (Len(sent) + 1)..n : t[i] \in Char
    BY <2>3
  <2> QED BY <2>2, <2>4, SubSeqProperties
<1>3. s \in Seq({"r"})
  <2>1. "r" \in {"r"}
    OBVIOUS
  <2>2. <<"r">> \in Seq({"r"}) /\ <<>> \in Seq({"r"})
    BY <2>1, Single
  <2> QED BY <2>2
<1> DEFINE x == strip.pending \o piece
           r == Strip(strip.in_think, x)
           p == Push[r]
<1>4. x \in Seq(Char) /\ strip \in Stripper
  BY <1>2 DEF IInv, ReplyInv, Stripper
<1>5. [strip EXCEPT !.pending = @ \o piece] = r
  <2> HIDE DEF x
  <2>1. [strip EXCEPT !.pending = x] = r
    BY <1>4 DEF Stripper, Strip
  <2> QED BY <2>1 DEF x
<1>6. p \in Pushed /\ PartOfTag(p.pending)
  <2> HIDE DEF x
  <2>1. r \in Stripper
    BY <1>4, StripIs DEF Stripper
  <2> HIDE DEF r
  <2> QED BY <2>1, PushType
<1>7. /\ sent' = sent \o piece /\ thought' = thought \o s
      /\ strip' = [in_think |-> p.in_think, pending |-> p.pending]
      /\ OnChunk(s, p.out)
  <2> HIDE DEF r, OnChunk
  <2> QED BY <1>1, <1>5
<1> HIDE DEF OnChunk, r
<1>8. /\ p \in Pushed /\ PartOfTag(p.pending) /\ sent' = sent \o piece /\ thought' = thought \o s
      /\ strip' = [in_think |-> p.in_think, pending |-> p.pending]
      /\ OnChunk(s, p.out)
  BY <1>6, <1>7
<1> HIDE DEF p
<1>9. Push[Strip(strip.in_think, strip.pending \o piece)] = p
  BY DEF p, r
<1> QED BY <1>2, <1>3, <1>8, <1>9, Zenon

\* A piece of text or of reasoning.
LEMMA ChunkKeeps ==
  ASSUME IInv, Chunk
  PROVE  IInv'
<1>1. PICK piece \in Seq(Char), s \in Seq({"r"}) :
        LET p == Push[Strip(strip.in_think, strip.pending \o piece)]
        IN  /\ p \in Pushed /\ PartOfTag(p.pending)
            /\ sent' = sent \o piece /\ thought' = thought \o s
            /\ strip' = [in_think |-> p.in_think, pending |-> p.pending]
            /\ OnChunk(s, p.out)
  BY ChunkIs
<1> DEFINE p == Push[Strip(strip.in_think, strip.pending \o piece)]
<1>2. /\ p \in Pushed /\ PartOfTag(p.pending)
      /\ sent' = sent \o piece /\ thought' = thought \o s
      /\ strip' = [in_think |-> p.in_think, pending |-> p.pending]
      /\ OnChunk(s, p.out)
  <2> HIDE DEF OnChunk
  <2> QED BY <1>1
<1> HIDE DEF p
<1>3. p.out \in Seq(Char) /\ strip' \in Stripper /\ PartOfTag(strip'.pending)
  BY <1>2 DEF Pushed, Stripper
<1>4. /\ mode' = mode /\ phase = "stream" /\ phase' = "stream" /\ accum' = accum
      /\ base' = base /\ retries' = retries
  BY DEF Chunk
<1>5. HeldInv' /\ said' \in Seq(Char) /\ (Live => released' = Flow(co', Prose))
  BY <1>2, <1>3, <1>4, OnChunkKeeps DEF IInv
<1>6. ReplyInv'
  BY <1>2, <1>3, <1>4, <1>5 DEF IInv, ReplyInv
<1>7. FlowInv'
  BY <1>4, <1>5 DEF FlowInv, Over, Live, should_buffer_tool_content
<1> QED BY <1>5, <1>6, <1>7 DEF IInv

\* The end of the stream.
LEMMA StreamEndsKeeps ==
  ASSUME IInv, StreamEnds
  PROVE  IInv'
<1>1. /\ mode' = mode /\ phase' = "tail" /\ strip' = [strip EXCEPT !.pending = <<>>]
      /\ OnChunk(<<>>, Flush(strip))
      /\ sent' = sent /\ thought' = thought /\ accum' = accum /\ base' = base /\ retries' = retries
  BY DEF StreamEnds
<1>2. Flush(strip) \in Seq(Char) /\ <<>> \in Seq({"r"}) /\ <<>> \in Seq(Char)
  BY DEF Flush, IInv, ReplyInv, Stripper
<1>3. strip' \in Stripper /\ PartOfTag(strip'.pending)
  BY <1>1, <1>2, NothingHeld DEF PartOfTag, Tag, IInv, ReplyInv, Stripper
<1>4. HeldInv' /\ said' \in Seq(Char) /\ (Live => released' = Flow(co', Prose))
  BY <1>1, <1>2, OnChunkKeeps DEF IInv
<1>5. ReplyInv'
  BY <1>1, <1>3, <1>4 DEF IInv, ReplyInv, Phases
<1>6. FlowInv'
  BY <1>1, <1>4 DEF FlowInv, Over, Live, should_buffer_tool_content
<1> QED BY <1>4, <1>5, <1>6 DEF IInv

\* A call's fragment, a failure, a new request.
LEMMA OtherKeeps ==
  ASSUME IInv, ToolDelta \/ StreamFails \/ Overflow
  PROVE  IInv'
<1>1. /\ mode' = mode /\ co' = co /\ buffer' = buffer /\ released' = released
      /\ phase' \in {phase, "failed"}
  BY DEF ToolDelta, StreamFails, Overflow, replyVars
<1>2. HeldInv' /\ FlowInv'
  BY <1>1 DEF IInv, HeldInv, FlowInv, Over, Live, should_buffer_tool_content
<1>3. ReplyInv'
  <2>1. CASE ToolDelta
    <3>1. PICK i \in DOMAIN accum, part \in {"nameless", "named"} :
            accum' = [accum EXCEPT ![i] = part]
      BY <2>1 DEF ToolDelta
    <3>2. accum' \in [1..MaxCalls -> {"none", "nameless", "named"}]
      BY <3>1 DEF IInv, ReplyInv
    <3> QED BY <2>1, <3>2 DEF ToolDelta, IInv, ReplyInv
  <2>2. CASE StreamFails
    BY <2>2 DEF StreamFails, replyVars, IInv, ReplyInv, Phases
  <2>3. CASE Overflow
    <3>1. PartOfTag(<<>>) /\ <<>> \in Seq(Char)
      BY NothingHeld DEF PartOfTag, Tag
    <3>2. /\ strip' = [in_think |-> FALSE, pending |-> <<>>]
          /\ accum' = [i \in 1..MaxCalls |-> "none"]
          /\ sent' = <<>> /\ said' = <<>> /\ base' = base \o said
          /\ retries < MaxRetries /\ retries' = retries + 1
          /\ thought' = thought /\ phase' = phase
      BY <2>3 DEF Overflow
    <3>3. strip' \in Stripper /\ PartOfTag(strip'.pending)
      BY <3>1, <3>2 DEF Stripper
    <3>4. retries' \in 0..MaxRetries
      BY <3>2, StreamPipelineAssumption DEF IInv, ReplyInv
    <3>5. base' \in Seq(Char)
      BY <3>2 DEF IInv, ReplyInv
    <3> QED BY <1>1, <3>1, <3>2, <3>3, <3>4, <3>5 DEF IInv, ReplyInv
  <2> QED BY <2>1, <2>2, <2>3
<1> QED BY <1>2, <1>3 DEF IInv

\* What is shown of a buffer are frames, and none of an empty one.
LEMMA AnswerIs ==
  ASSUME HeldInv
  PROVE  Answer \in Seq(Frame) /\ (buffer = <<>> => Answer = <<>>)
<1>1. buffer \in Seq(Char)
  BY DEF HeldInv
<1>2. clean_envelope_remainder(buffer) \in Seq(Char)
  <2>1. Outside(buffer, extract_tool_calls_with_spans(buffer)) \in Seq(Char)
    BY <1>1, OutsideType
  <2> QED BY <2>1, TrimType DEF clean_envelope_remainder
<1>3. /\ Tagged("content", clean_envelope_remainder(buffer)) \in Seq(Frame)
      /\ Tagged("content", buffer) \in Seq(Frame)
  BY <1>1, <1>2, TaggedFrames
<1>4. Note("schema_bleed") \in Seq(Frame) /\ <<>> \in Seq(Frame)
  <2>1. <<"note", "schema_bleed">> \in Frame
    BY DEF Frame, Notes
  <2> QED BY <2>1, Single DEF Note
<1>5. CASE buffer = <<>>
  BY <1>4, <1>5 DEF Answer
<1>6. CASE buffer # <<>>
  <2>1. Answer \in {Tagged("content", clean_envelope_remainder(buffer)),
                    Note("schema_bleed"), Tagged("content", buffer)}
    BY <1>6 DEF Answer
  <2> QED BY <1>3, <1>4, <1>6, <2>1
<1> QED BY <1>5, <1>6

\* What the end of the reply writes: all that was held, and the answer; and which
\* way the reply goes on.
LEMMA PostStreamIs ==
  ASSUME IInv, PostStream
  PROVE  /\ phase = "tail" /\ phase' \in {"calls", "answered"}
         /\ Synth => phase' = "calls"
         /\ schema_bleed_tripped => phase' = "answered"
         /\ UNCHANGED <<mode, replyVars, released, base, retries>> /\ buffer' = <<>>
         /\ Answer \in Seq(Frame) /\ (buffer = <<>> => Answer = <<>>)
         /\ co' \in Coalescer /\ co'.content = <<>> /\ co'.reasoning = <<>>
         /\ \A K : "note" \notin K => Flow(co', K) = Flow(co, K) \o OfKind(Answer, K)
<1>1. PICK n \in {Note("reasoning_budget_exhausted"), <<>>} :
        co' = [flush(co) EXCEPT !.frames = (@ \o Answer) \o n]
  BY DEF PostStream
<1>2. /\ phase = "tail" /\ phase' \in {"calls", "answered"}
      /\ UNCHANGED <<mode, replyVars, released, base, retries>> /\ buffer' = <<>>
  BY DEF PostStream
<1>3. /\ Synth => phase' = "calls"
      /\ schema_bleed_tripped => phase' = "answered"
  BY DEF PostStream, schema_bleed_tripped
<1>4. HeldInv /\ co \in Coalescer
  BY DEF IInv, HeldInv
<1>5. n \in Seq(Frame) /\ \A K : "note" \notin K => OfKind(n, K) = <<>>
  <2> DEFINE N == {"note"} \X Notes
             x == <<"note", "reasoning_budget_exhausted">>
  <2>1. x \in N /\ x \in Frame
    BY DEF Notes, Frame
  <2>2. n \in {<<x>>, <<>>}
    BY <1>1 DEF Note
  <2>3. /\ <<x>> \in Seq(N) /\ <<>> \in Seq(N)
        /\ <<x>> \in Seq(Frame) /\ <<>> \in Seq(Frame)
    BY <2>1, Single
  <2>4. n \in Seq(N) /\ n \in Seq(Frame)
    BY <2>2, <2>3
  <2>5. \A K : "note" \notin K => \A e \in N : e[1] \notin K
    OBVIOUS
  <2> HIDE DEF N
  <2> QED BY <2>4, <2>5, OfKindNone
<1>6. Answer \in Seq(Frame) /\ (buffer = <<>> => Answer = <<>>)
  BY <1>4, AnswerIs
<1> DEFINE f == flush(co)
           w == Answer \o n
<1>7. /\ f \in Coalescer /\ f.content = <<>> /\ f.reasoning = <<>>
      /\ \A K : Flow(f, K) = Flow(co, K)
  BY <1>4, FlushIs
<1> HIDE DEF f
<1>8. w \in Seq(Frame)
  BY <1>5, <1>6, Joins
<1>9. co' = [f EXCEPT !.frames = @ \o w]
  <2>1. f.frames \in Seq(Frame)
    BY <1>7 DEF Coalescer
  <2>2. \A a, b, c \in Seq(Frame) : (a \o b) \o c = a \o (b \o c)
    BY Joins
  <2>3. (f.frames \o Answer) \o n = f.frames \o w
    BY <1>5, <1>6, <2>1, <2>2
  <2> HIDE DEF w
  <2> QED BY <1>1, <2>3 DEF f
<1>10. ASSUME NEW K, "note" \notin K PROVE OfKind(w, K) = OfKind(Answer, K)
  <2>1. OfKind(Answer \o n, K) = OfKind(Answer, K) \o OfKind(n, K)
    BY <1>5, <1>6, OfKindFrames
  <2>2. OfKind(n, K) = <<>>
    BY <1>5, <1>10
  <2> DEFINE a == OfKind(Answer, K)
  <2>3. a \in Seq(Frame) /\ OfKind(w, K) = a \o <<>>
    BY <1>6, <2>1, <2>2, OfKindType
  <2> HIDE DEF a, w
  <2> QED BY <2>3, Joins DEF a
<1> HIDE DEF w
<1>11. /\ co' \in Coalescer /\ co'.content = <<>> /\ co'.reasoning = <<>>
       /\ \A K : Flow(co', K) = Flow(f, K) \o OfKind(w, K)
  BY <1>7, <1>8, <1>9, WriteMore
<1> QED BY <1>2, <1>3, <1>6, <1>7, <1>10, <1>11

\* The end of the reply.
LEMMA PostStreamKeeps ==
  ASSUME IInv, PostStream
  PROVE  IInv'
<1>1. /\ phase' \in {"calls", "answered"} /\ buffer' = <<>>
      /\ UNCHANGED <<mode, replyVars, released, base, retries>>
      /\ Answer \in Seq(Frame) /\ (buffer = <<>> => Answer = <<>>)
      /\ co' \in Coalescer /\ co'.content = <<>> /\ co'.reasoning = <<>>
      /\ \A K : "note" \notin K => Flow(co', K) = Flow(co, K) \o OfKind(Answer, K)
  BY PostStreamIs
<1>2. HeldInv /\ FlowInv /\ ReplyInv /\ co \in Coalescer
  BY DEF IInv, HeldInv
<1>3. Live' = Live
  BY <1>1 DEF Live, should_buffer_tool_content
<1>4. ASSUME Live PROVE released' = Flow(co', Prose)
  <2>1. Answer = <<>> /\ released = Flow(co, Prose)
    BY <1>1, <1>2, <1>4 DEF HeldInv, FlowInv
  <2>2. OfKind(Answer, Prose) = <<>>
    <3>1. OfKind(<<>>, Prose) = <<>>
      BY PickEmpty DEF OfKind
    <3> QED BY <2>1, <3>1
  <2>3. Flow(co, Prose) \o <<>> = Flow(co, Prose)
    BY <1>2, FlowType, Joins
  <2> QED BY <1>1, <2>1, <2>2, <2>3 DEF Prose
<1>5. ReplyInv'
  BY <1>1, <1>2 DEF ReplyInv, Phases, replyVars
<1>6. HeldInv'
  BY <1>1, <1>2, <1>3 DEF HeldInv, OneHeld, Live
<1>7. FlowInv'
  BY <1>1, <1>3, <1>4 DEF FlowInv
<1> QED BY <1>5, <1>6, <1>7 DEF IInv

\* Where nothing is held, all is written.
LEMMA NothingHeldBack ==
  ASSUME NEW c \in Coalescer, c.content = <<>>, c.reasoning = <<>>, NEW K
  PROVE  Flow(c, K) = OfKind(c.frames, K)
<1> DEFINE x == OfKind(c.frames, K)
<1>1. x \in Seq(Frame)
  BY CoalescerIs
<1> HIDE DEF x
<1>2. Flow(c, K) = x \o (<<>> \o <<>>)
  BY NothingTagged DEF Flow, x
<1> QED BY <1>1, <1>2, Joins DEF x

\* The rows of the calls are neither text nor thoughts.
LEMMA ToolRowsIs ==
  ASSUME IInv, ToolRows
  PROVE  /\ phase = "calls" /\ phase' = "acting"
         /\ UNCHANGED <<mode, replyVars, buffer, released, base, retries>>
         /\ co.content = <<>> /\ co.reasoning = <<>>
         /\ co' \in Coalescer /\ co'.content = <<>> /\ co'.reasoning = <<>>
         /\ \A K : "row" \notin K => Flow(co', K) = Flow(co, K)
<1> DEFINE ids == [i \in DOMAIN accum |-> i]
           rows == IF Synth THEN <<1>> ELSE Pick(ids, finalize_tool_calls)
           w == Tagged("row", rows)
<1>1. /\ co' = [co EXCEPT !.frames = @ \o w]
      /\ phase = "calls" /\ phase' = "acting"
      /\ UNCHANGED <<mode, replyVars, buffer, released, base, retries>>
  BY DEF ToolRows
<1>2. FlowInv /\ ReplyInv /\ co \in Coalescer
  BY DEF IInv, HeldInv
<1>3. rows \in Seq(Nat)
  <2>1. ids = [i \in 1..MaxCalls |-> i] /\ MaxCalls \in Nat
    BY <1>2, StreamPipelineAssumption DEF ReplyInv
  <2>2. ids \in Seq(Nat)
    BY <2>1
  <2> HIDE DEF ids
  <2>3. \A i \in 1..Len(ids) : ids[i] \in Nat
    BY <2>2
  <2>4. Pick(ids, finalize_tool_calls) \in Seq(Nat)
    BY <2>2, <2>3, PickType
  <2> QED BY <2>4
<1> HIDE DEF rows
<1>4. w \in Seq(Frame)
  <2>1. Puts("row", Nat, Frame)
    BY DEF Puts, Frame
  <2> QED BY <1>3, <2>1, TaggedIs
<1>5. \A K : "row" \notin K => OfKind(w, K) = <<>>
  BY <1>3, OfKindTagged
<1> HIDE DEF w
<1>6. co.content = <<>> /\ co.reasoning = <<>>
  BY <1>1, <1>2 DEF FlowInv, Over
<1>7. /\ co' \in Coalescer /\ co'.content = <<>> /\ co'.reasoning = <<>>
      /\ \A K : Flow(co', K) = Flow(co, K) \o OfKind(w, K)
  BY <1>1, <1>2, <1>4, <1>6, WriteMore
<1>8. ASSUME NEW K, "row" \notin K PROVE Flow(co', K) = Flow(co, K)
  <2>1. Flow(co, K) \o <<>> = Flow(co, K)
    BY <1>2, FlowType, Joins
  <2> QED BY <1>5, <1>7, <1>8, <2>1
<1> QED BY <1>1, <1>6, <1>7, <1>8

\* The start of the calls.
LEMMA ToolRowsKeeps ==
  ASSUME IInv, ToolRows
  PROVE  IInv'
<1>1. /\ phase = "calls" /\ phase' = "acting"
      /\ UNCHANGED <<mode, replyVars, buffer, released, base, retries>>
      /\ co' \in Coalescer /\ co'.content = <<>> /\ co'.reasoning = <<>>
  BY ToolRowsIs
<1>2. HeldInv /\ FlowInv /\ ReplyInv
  BY DEF IInv
<1>3. Live' = Live
  BY <1>1 DEF Live, should_buffer_tool_content
<1>4. Flow(co', Prose) = Flow(co, Prose)
  <2>1. "row" \notin Prose
    BY DEF Prose
  <2> QED BY <2>1, ToolRowsIs
<1>5. ReplyInv'
  BY <1>1, <1>2 DEF ReplyInv, Phases, replyVars
<1>6. HeldInv'
  BY <1>1, <1>2, <1>3 DEF HeldInv, OneHeld
<1>7. FlowInv'
  BY <1>1, <1>2, <1>3, <1>4 DEF FlowInv
<1> QED BY <1>5, <1>6, <1>7 DEF IInv

\* Every step keeps the invariant, and so it always holds.
THEOREM Invariant == Spec => []IInv
<1>1. Init => IInv
  BY InitKeeps
<1>2. IInv /\ [Next]_vars => IInv'
  <2> SUFFICES ASSUME IInv, [Next]_vars PROVE IInv'
    OBVIOUS
  <2>1. CASE UNCHANGED vars
    BY <2>1 DEF vars, replyVars, IInv, ReplyInv, HeldInv, FlowInv, Live,
                should_buffer_tool_content
  <2>2. CASE Next
    BY <2>2, ChunkKeeps, OtherKeeps, StreamEndsKeeps, PostStreamKeeps, ToolRowsKeeps DEF Next
  <2> QED BY <2>1, <2>2
<1> QED BY <1>1, <1>2, PTL DEF Spec

-----------------------------------------------------------------------------
(* What it says of the properties.                                         *)

\* Types; and of a tag that is still coming in the stripper holds only the part
\* that has come, of what is to be written the coalescer holds text or thoughts.
THEOREM TypeCorrect == Spec => []TypeOK
<1>1. IInv => TypeOK
  BY DEF IInv, ReplyInv, HeldInv, TypeOK, OneHeld, Stripper, PartOfTag, Tag, Phases
<1> QED BY <1>1, Invariant, PTL

\* No frame overtakes what was released before it, and when the reply is over
\* nothing is left behind.
THEOREM InCausalOrder == Spec => []CausalOrder
<1>1. ASSUME IInv PROVE CausalOrder
  <2> SUFFICES ASSUME Live
               PROVE  /\ IsPrefix(Streamed, released)
                      /\ phase \in Over => Streamed = released
    BY DEF CausalOrder, Over
  <2> DEFINE rest == OfKind(Tagged("thought", co.reasoning), Prose)
                       \o OfKind(Tagged("content", co.content), Prose)
  <2>1. co \in Coalescer
    BY <1>1 DEF IInv, HeldInv
  <2>2. released = Streamed \o rest
    BY <1>1 DEF IInv, FlowInv, Flow, Streamed, Prose
  <2>3. Streamed \in Seq(Frame)
    BY <2>1, CoalescerIs DEF Streamed
  <2>4. rest \in Seq(Frame)
    BY <2>1, CoalescerIs, OfKindType, Joins
  <2>5. ASSUME phase \in Over PROVE rest = <<>>
    <3>1. co.content = <<>> /\ co.reasoning = <<>>
      BY <1>1, <2>5 DEF IInv, FlowInv
    <3> QED BY <3>1, NothingTagged, Joins
  <2> HIDE DEF rest
  <2>6. IsPrefix(Streamed, Streamed \o rest)
    BY <2>3, <2>4, PrefixOfConcat
  <2>7. Streamed \o <<>> = Streamed
    BY <2>3, Joins
  <2> QED BY <2>2, <2>5, <2>6, <2>7
<1> QED BY <1>1, Invariant, PTL

-----------------------------------------------------------------------------
(* What the stripper lets through.                                         *)

\* A text and its end s: where s is, and when it may be part of a tag.
LEMMA EndIs ==
  ASSUME NEW text \in Seq(Char), NEW s \in Suffixes(text), NEW tag \in Tag
  PROVE  LET j == Len(text) - Len(s) + 1
         IN  /\ Len(s) \in Nat /\ Len(s) <= Len(text)
             /\ IsStrictPrefix(s, tag) <=> Len(s) < Len(tag) /\ MayBegin(text, j, tag)
<1> DEFINE a == SubSeq(text, 1, Len(text) - Len(s))
           j == Len(text) - Len(s) + 1
<1>1. s \in Seq(Char) /\ Len(s) <= Len(text) /\ a \in Seq(Char) /\ text = a \o s
  BY SuffixIs
<1> HIDE DEF a
<1>2. /\ Len(a) \in Nat /\ Len(s) \in Nat /\ Len(text) \in Nat /\ Len(text) = Len(a) + Len(s)
      /\ tag \in Seq(Char) /\ Len(tag) \in Nat
  BY <1>1, TextJoin, TagType
<1>3. \A k \in 1..(Len(a) + Len(s)) : text[k] = IF k <= Len(a) THEN a[k] ELSE s[k - Len(a)]
  BY <1>1, Joined
<1>4. \A k \in 1..Len(s) : text[j + k - 1] = s[k]
  <2> SUFFICES ASSUME NEW k \in 1..Len(s) PROVE text[j + k - 1] = s[k]
    OBVIOUS
  <2>1. j + k - 1 = Len(a) + k /\ Len(a) + k \in 1..(Len(a) + Len(s)) /\ ~(Len(a) + k <= Len(a))
        /\ (Len(a) + k) - Len(a) = k
    BY <1>2
  <2> QED BY <1>3, <2>1
<1>5. ASSUME IsStrictPrefix(s, tag) PROVE Len(s) < Len(tag) /\ MayBegin(text, j, tag)
  <2>1. Len(s) < Len(tag)
    BY <1>1, <1>5, PartIsShort
  <2>2. IsPrefix(s, tag)
    BY <1>5 DEF IsStrictPrefix
  <2>3. PICK u \in Seq(Char) : tag = s \o u
    BY <1>1, <1>2, <2>2, PrefixRest
  <2>4. \A k \in 1..Len(s) : tag[k] = s[k]
    BY <1>1, <1>2, <2>3
  <2>5. ASSUME NEW k \in 1..Len(tag), j + k - 1 <= Len(text) PROVE text[j + k - 1] = tag[k]
    <3>1. k \in 1..Len(s)
      BY <1>2, <2>5
    <3> QED BY <1>4, <2>4, <3>1
  <2> HIDE DEF j
  <2> QED BY <2>1, <2>5 DEF MayBegin
<1>6. ASSUME Len(s) < Len(tag), MayBegin(text, j, tag) PROVE IsStrictPrefix(s, tag)
  <2>1. ASSUME NEW k \in 1..Len(s) PROVE tag[k] = s[k]
    <3>1. k \in 1..Len(tag) /\ j + k - 1 <= Len(text)
      BY <1>2, <1>6
    <3> HIDE DEF j
    <3> QED BY <1>4, <1>6, <3>1 DEF MayBegin
  <2> DEFINE p == SubSeq(tag, 1, Len(s))
             q == SubSeq(s, 1, Len(s))
  <2>2. /\ p \in Seq(Char) /\ Len(p) = Len(s) /\ \A k \in 1..Len(s) : p[k] = tag[k]
    <3>1. \A k \in 1..Len(s) : tag[k] \in Char
      BY <1>2, <1>6
    <3>2. /\ SubSeq(tag, 1, Len(s)) \in Seq(Char)
          /\ Len(SubSeq(tag, 1, Len(s))) = IF 1 <= Len(s) THEN Len(s) - 1 + 1 ELSE 0
          /\ \A k \in 1..(Len(s) - 1 + 1) : SubSeq(tag, 1, Len(s))[k] = tag[1 + k - 1]
      BY <1>2, <3>1, SubSeqProperties
    <3> HIDE DEF p
    <3>3. Len(p) = Len(s) /\ \A k \in 1..Len(s) : k \in 1..(Len(s) - 1 + 1) /\ 1 + k - 1 = k
      BY <1>2, <3>2 DEF p
    <3> QED BY <3>2, <3>3 DEF p
  <2>3. q = s
    BY <1>1, SubSeqFull
  <2> HIDE DEF p, q
  <2>4. p = s
    BY <1>1, <2>1, <2>2, SeqEqual
  <2>5. IsPrefix(s, tag)
    BY <1>2, <1>6, <2>3, <2>4 DEF IsPrefix, p, q
  <2>6. s # tag
    BY <1>2, <1>6
  <2> QED BY <2>5, <2>6 DEF IsStrictPrefix
<1> QED BY <1>1, <1>2, <1>5, <1>6

\* What may begin a tag in a text may in what there is of it.
LEMMA BeginsKept ==
  ASSUME NEW t \in Seq(Char), NEW p \in Seq(Char), NEW j \in 1..Len(t), NEW tag \in Tag,
         MayBegin(t \o p, j, tag)
  PROVE  MayBegin(t, j, tag)
<1> DEFINE w == t \o p
<1>1. /\ Len(t) \in Nat /\ Len(p) \in Nat /\ Len(w) = Len(t) + Len(p)
      /\ \A k \in 1..(Len(t) + Len(p)) : w[k] = IF k <= Len(t) THEN t[k] ELSE p[k - Len(t)]
      /\ Len(tag) \in Nat
  BY TextJoin, Joined, TagType
<1>2. MayBegin(w, j, tag)
  OBVIOUS
<1> HIDE DEF w
<1>3. ASSUME NEW k \in 1..Len(tag), j + k - 1 <= Len(t) PROVE t[j + k - 1] = tag[k]
  <2>1. j + k - 1 \in 1..(Len(t) + Len(p)) /\ j + k - 1 <= Len(w)
    BY <1>1, <1>3
  <2> DEFINE m == j + k - 1
  <2> HIDE DEF m
  <2>2. w[m] = t[m]
    BY <1>1, <1>3, <2>1 DEF m
  <2>3. w[m] = tag[k]
    BY <1>2, <2>1 DEF MayBegin, m
  <2> QED BY <2>2, <2>3 DEF m
<1> QED BY <1>3 DEF MayBegin

\* Where nothing is held of a text without the tag, it cannot begin.
LEMMA Unheld ==
  ASSUME NEW a \in Seq(Char), NEW k \in Seq(Char), NEW p \in Seq(Char), NEW tag \in Tag,
         Len(hold_partial_suffix(a \o k, tag)) <= Len(k),
         \A j \in 1..Len(a \o k) : ~Has(a \o k, j, tag),
         NEW j \in 1..Len(a)
  PROVE  ~MayBegin(a \o (k \o p), j, tag)
<1> DEFINE t == a \o k
           held == hold_partial_suffix(t, tag)
           s == SubSeq(t, j, Len(t))
<1>1. /\ t \in Seq(Char) /\ Len(t) = Len(a) + Len(k) /\ Len(a) \in Nat /\ Len(k) \in Nat
      /\ Len(tag) \in Nat
  BY TextJoin, TagType
<1>2. j \in 1..Len(t)
  BY <1>1
<1>3. a \o (k \o p) = t \o p
  <2>1. Regroups(a, k, p)
    BY TextRegroups
  <2> QED BY <2>1 DEF Regroups
<1>4. SUFFICES ASSUME MayBegin(t, j, tag) PROVE FALSE
  <2> HIDE DEF t
  <2> QED BY <1>1, <1>2, <1>3, BeginsKept
<1>5. ~Has(t, j, tag) /\ Len(held) <= Len(k)
  BY <1>2
<1>6. \A r \in Suffixes(t) : IsStrictPrefix(r, tag) => Len(r) <= Len(held)
  <2> HIDE DEF t
  <2> QED BY <1>1, HeldIs
<1> HIDE DEF t, held
<1>7. Len(t) - j + 1 < Len(tag)
  <2>1. ASSUME j + Len(tag) - 1 <= Len(t) PROVE FALSE
    <3>1. \A i \in 1..Len(tag) : j + i - 1 <= Len(t)
      BY <1>1, <1>2, <2>1
    <3>2. \A i \in 1..Len(tag) : t[j + i - 1] = tag[i]
      BY <1>4, <3>1 DEF MayBegin
    <3> QED BY <1>1, <1>2, <1>5, <2>1, <3>2, HasIs
  <2> QED BY <1>1, <2>1
<1>8. s \in Suffixes(t)
  BY <1>2 DEF Suffixes
<1>9. Len(s) = Len(t) - j + 1
  <2>1. \A i \in j..Len(t) : t[i] \in Char
    BY <1>1
  <2>2. Len(SubSeq(t, j, Len(t))) = IF j <= Len(t) THEN Len(t) - j + 1 ELSE 0
    BY <1>1, <2>1, SubSeqProperties
  <2> QED BY <1>1, <1>2, <2>2
<1> HIDE DEF s
<1>10. IsStrictPrefix(s, tag)
  <2>1. Len(t) - Len(s) + 1 = j /\ Len(s) < Len(tag)
    BY <1>1, <1>7, <1>9
  <2> QED BY <1>1, <1>4, <1>8, <2>1, EndIs
<1>11. Len(s) <= Len(held) /\ Len(held) \in Nat
  <2>1. held \in Suffixes(t)
    BY <1>1, HeldIs DEF held
  <2> QED BY <1>1, <1>6, <1>8, <1>10, <2>1, EndIs
<1> QED BY <1>1, <1>5, <1>9, <1>11

\* Text where the tag cannot begin changes nothing of what is held.
LEMMA HeldShift ==
  ASSUME NEW a \in Seq(Char), NEW u \in Seq(Char), NEW tag \in Tag,
         \A j \in 1..Len(a) : ~MayBegin(a \o u, j, tag)
  PROVE  hold_partial_suffix(a \o u, tag) = hold_partial_suffix(u, tag)
<1> DEFINE w == a \o u
           x == hold_partial_suffix(w, tag)
           y == hold_partial_suffix(u, tag)
<1>1. /\ w \in Seq(Char) /\ Len(w) = Len(a) + Len(u) /\ Len(a) \in Nat /\ Len(u) \in Nat
  BY TextJoin
<1>2. /\ y \in Suffixes(u) /\ IsStrictPrefix(y, tag)
      /\ \A s \in Suffixes(u) : IsStrictPrefix(s, tag) => Len(s) <= Len(y)
  BY HeldIs
<1>3. /\ x \in Suffixes(w) /\ IsStrictPrefix(x, tag)
      /\ \A s \in Suffixes(w) : IsStrictPrefix(s, tag) => Len(s) <= Len(x)
  <2> HIDE DEF w
  <2> QED BY <1>1, HeldIs
<1> HIDE DEF x, y
<1>4. PICK b \in Seq(Char) : u = b \o y
  BY <1>2, SuffixIs
<1>5. y \in Seq(Char) /\ Len(y) \in Nat /\ Len(y) <= Len(u)
  <2>1. y \in Seq(Char) /\ Len(y) <= Len(u)
    BY <1>2, SuffixIs
  <2> QED BY <2>1
<1>6. w = (a \o b) \o y /\ a \o b \in Seq(Char)
  <2>1. (a \o b) \o y = a \o (b \o y)
    <3>1. Regroups(a, b, y)
      BY <1>4, <1>5, TextRegroups
    <3> QED BY <3>1 DEF Regroups
  <2> QED BY <1>4, <1>5, <2>1, TextJoin
<1>7. y \in Suffixes(w)
  <2> DEFINE c == a \o b
  <2> HIDE DEF c
  <2>1. y \in Suffixes(c \o y)
    BY <1>5, <1>6, HeldEnd DEF c
  <2> QED BY <1>6, <2>1 DEF c
<1>8. Len(y) <= Len(x)
  BY <1>2, <1>3, <1>7
<1>9. x \in Seq(Char) /\ Len(x) \in Nat /\ Len(x) <= Len(w)
      /\ x = SubSeq(w, Len(w) - Len(x) + 1, Len(w))
  <2> HIDE DEF w
  <2>1. x \in Seq(Char) /\ Len(x) <= Len(w) /\ x = SubSeq(w, Len(w) - Len(x) + 1, Len(w))
    BY <1>1, <1>3, SuffixIs
  <2> QED BY <2>1
<1>10. \A j \in 1..Len(a) : ~MayBegin(w, j, tag)
  OBVIOUS
<1> HIDE DEF w
<1>11. Len(x) <= Len(u)
  <2>1. MayBegin(w, Len(w) - Len(x) + 1, tag)
    BY <1>1, <1>3, EndIs
  <2>2. ~(Len(w) - Len(x) + 1 \in 1..Len(a))
    BY <1>10, <2>1
  <2> QED BY <1>1, <1>9, <2>2
<1>12. x \in Suffixes(u)
  <2> DEFINE n == Len(u) - Len(x)
             f == SubSeq(u, 1, n)
             g == SubSeq(u, n + 1, Len(u))
  <2>1. n \in Nat /\ n <= Len(u) /\ Len(u) - n = Len(x)
    BY <1>1, <1>9, <1>11
  <2> HIDE DEF n
  <2>2. g \in Seq(Char) /\ f \in Seq(Char) /\ Len(g) = Len(u) - n
    <3>1. \A i \in 1..Len(u) : u[i] \in Char
      OBVIOUS
    <3>2. /\ SubSeq(u, 1, n) \in Seq(Char) /\ SubSeq(u, n + 1, Len(u)) \in Seq(Char)
          /\ Len(SubSeq(u, n + 1, Len(u))) = IF n + 1 <= Len(u) THEN Len(u) - (n + 1) + 1 ELSE 0
      BY <1>1, <2>1, <3>1, SubSeqProperties
    <3>3. Len(g) = IF n + 1 <= Len(u) THEN Len(u) - (n + 1) + 1 ELSE 0
      BY <3>2
    <3> HIDE DEF g
    <3> QED BY <1>1, <2>1, <3>2, <3>3 DEF g
  <2>3. u = f \o g
    <3>1. 1 \in 1..(Len(u) + 1) /\ n \in (1 - 1)..Len(u) /\ Len(u) \in n..Len(u)
      BY <1>1, <2>1
    <3>2. f \o g = SubSeq(u, 1, Len(u))
      BY <3>1, ConcatAdjacentSubSeq
    <3> QED BY <3>2, SubSeqFull
  <2> HIDE DEF f, g
  <2>4. g \in Suffixes(u)
    BY <2>2, <2>3, HeldEnd
  <2>5. w = (a \o f) \o g /\ a \o f \in Seq(Char)
    <3>1. (a \o f) \o g = a \o (f \o g)
      <4>1. Regroups(a, f, g)
        BY <2>2, TextRegroups
      <4> QED BY <4>1 DEF Regroups
    <3>2. a \o f \in Seq(Char)
      BY <2>2
    <3> QED BY <2>3, <3>1, <3>2 DEF w
  <2> DEFINE c == a \o f
  <2>6. c \in Seq(Char) /\ w = c \o g
    BY <2>5
  <2> HIDE DEF c
  <2>7. SubSeq(w, Len(c) + 1, Len(w)) = g
    BY <2>2, <2>6, Cut
  <2>8. Len(c) = Len(w) - Len(x)
    <3>1. Len(w) = Len(c) + Len(g) /\ Len(c) \in Nat /\ Len(g) = Len(x)
      BY <2>1, <2>2, <2>6, TextJoin
    <3> QED BY <1>9, <3>1
  <2>9. x = g
    BY <1>9, <2>7, <2>8
  <2> QED BY <2>4, <2>9
<1>13. Len(x) = Len(y)
  BY <1>2, <1>3, <1>5, <1>8, <1>9, <1>12
<1>14. x = SubSeq(u, Len(u) - Len(x) + 1, Len(u)) /\ y = SubSeq(u, Len(u) - Len(y) + 1, Len(u))
  BY <1>2, <1>12, SuffixIs
<1>15. x = y
  BY <1>13, <1>14
<1> QED BY <1>15 DEF x, y, w

\* Where less is pending first, everywhere.
LEMMA Pendings ==
  ASSUME NEW T, \A s \in Stripper :
           (\A q \in Stripper : Len(q.pending) < Len(s.pending) => q \in T) => s \in T
  PROVE  \A s \in Stripper : s \in T
<1> DEFINE N == {n \in Nat : \A s \in Stripper : Len(s.pending) = n => s \in T}
<1>1. ASSUME NEW n \in Nat, \A m \in Nat : m < n => m \in N PROVE n \in N
  <2> SUFFICES ASSUME NEW s \in Stripper, Len(s.pending) = n PROVE s \in T
    OBVIOUS
  <2>1. ASSUME NEW q \in Stripper, Len(q.pending) < Len(s.pending) PROVE q \in T
    <3>1. Len(q.pending) \in N
      BY <1>1, <2>1, PendingLen
    <3> QED BY <3>1
  <2> QED BY <2>1
<1>2. \A n \in Nat : n \in N
  <2> HIDE DEF N
  <2> QED BY <1>1, Courses
<1> QED BY <1>2, PendingLen

\* Emitting nothing, and emitting twice.
LEMMA EmitNothing ==
  ASSUME NEW r \in Pushed
  PROVE  Emit(<<>>, r) = r
<1>1. r.out \in Seq(Char)
  BY DEF Pushed
<1>2. <<>> \o r.out = r.out
  BY <1>1
<1>3. Emit(<<>>, r) = [r EXCEPT !.out = <<>> \o r.out]
  BY DEF Emit
<1>4. Emit(<<>>, r) = [r EXCEPT !.out = r.out]
  BY <1>2, <1>3
<1> QED BY <1>4 DEF Pushed

\* What goes out in two parts goes out as one.
LEMMA EmitTwice ==
  ASSUME NEW x \in Seq(Char), NEW y \in Seq(Char), NEW r \in Pushed
  PROVE  Emit(x, Emit(y, r)) = Emit(x \o y, r)
<1> DEFINE o == y \o r.out
           e == [r EXCEPT !.out = o]
           p == x \o o
<1>1. r.out \in Seq(Char) /\ o \in Seq(Char)
  BY DEF Pushed
<1>2. (x \o y) \o r.out = p
  BY <1>1, TextAssoc
<1>3. Emit(y, r) = e /\ Emit(x \o y, r) = [r EXCEPT !.out = p]
  BY <1>2 DEF Emit
<1>4. Emit(x, e) = [e EXCEPT !.out = x \o e.out]
  BY DEF Emit
<1> HIDE DEF o
<1>5. e.out = o
  BY DEF Pushed
<1>6. [e EXCEPT !.out = p] = [r EXCEPT !.out = p]
  <2> HIDE DEF p
  <2> QED BY DEF Pushed
<1> QED BY <1>3, <1>4, <1>5, <1>6

\* The tag that the loop takes is the first that counts.
LEMMA FoundFirst ==
  ASSUME NEW text \in Seq(Char), NEW b \in BOOLEAN
  PROVE  LET open == Find(text, OPEN)
             close == Find(text, CLOSE)
         IN  /\ NoTag(text, b) => close = 0 /\ (b \/ open = 0)
             /\ close = 0 /\ (b \/ open = 0) => NoTag(text, b)
             /\ close \in 1..Len(text) /\ (b \/ open = 0 \/ close <= open) =>
                  Counts(text, close, CLOSE, b)
             /\ ~b /\ open \in 1..Len(text) /\ (close = 0 \/ open < close) =>
                  Counts(text, open, OPEN, b)
<1> DEFINE open == Find(text, OPEN)
           close == Find(text, CLOSE)
<1>1. \/ open = 0 /\ \A i \in 1..Len(text) : ~Has(text, i, OPEN)
      \/ /\ open \in 1..Len(text) /\ Has(text, open, OPEN)
         /\ \A i \in 1..Len(text) : Has(text, i, OPEN) => open <= i
  BY FindIs DEF Tag
<1>2. \/ close = 0 /\ \A i \in 1..Len(text) : ~Has(text, i, CLOSE)
      \/ /\ close \in 1..Len(text) /\ Has(text, close, CLOSE)
         /\ \A i \in 1..Len(text) : Has(text, i, CLOSE) => close <= i
  BY FindIs DEF Tag
<1> HIDE DEF open, close
<1>3. /\ Opens(text) = {i \in 1..Len(text) : Has(text, i, OPEN)}
      /\ Closes(text) = {i \in 1..Len(text) : Has(text, i, CLOSE)}
  BY TagPlaces
<1>4. NoTag(text, b) => close = 0 /\ (b \/ open = 0)
  BY <1>1, <1>2, <1>3 DEF NoTag
<1>5. close = 0 /\ (b \/ open = 0) => NoTag(text, b)
  BY <1>1, <1>2, <1>3 DEF NoTag
<1>6. ASSUME close \in 1..Len(text), b \/ open = 0 \/ close <= open
      PROVE  Counts(text, close, CLOSE, b)
  <2>1. Has(text, close, CLOSE) /\ \A c \in Closes(text) : close <= c
    BY <1>2, <1>3, <1>6
  <2>2. b \/ \A o \in Opens(text) : close <= o
    BY <1>1, <1>3, <1>6
  <2> QED BY <1>6, <2>1, <2>2 DEF Counts, Tag
<1>7. ASSUME ~b, open \in 1..Len(text), close = 0 \/ open < close
      PROVE  Counts(text, open, OPEN, b)
  <2>1. Has(text, open, OPEN) /\ \A o \in Opens(text) : open <= o
    BY <1>1, <1>3, <1>7
  <2>2. \A c \in Closes(text) : open <= c
    BY <1>2, <1>3, <1>7
  <2> QED BY <1>7, <2>1, <2>2 DEF Counts, Tag
<1> QED BY <1>4, <1>5, <1>6, <1>7 DEF open, close

\* Without a tag that counts the loop ends.
LEMMA PushQuiet ==
  ASSUME NEW s \in Stripper, NoTag(s.pending, s.in_think)
  PROVE  Push[s] = IF s.in_think THEN PushInside(s.pending) ELSE PushOutside(s.pending)
<1>1. s.in_think \in BOOLEAN /\ s.pending \in Seq(Char)
  BY StripIs
<1>2. Len(s.pending) \in Nat
  BY <1>1
<1>3. Find(s.pending, CLOSE) = 0 /\ (s.in_think \/ Find(s.pending, OPEN) = 0)
  BY <1>1, FoundFirst
<1>4. Push[s] = Round(Push, s)
  BY PushIs
<1>5. ~(0 \in 1..Len(s.pending))
  BY <1>2
<1> QED BY <1>3, <1>4, <1>5, RoundIs

\* With one it goes on behind it.
LEMMA PushFirst ==
  ASSUME NEW text \in Seq(Char), NEW a \in Seq(Char), NEW r \in Seq(Char), NEW tag \in Tag,
         NEW b \in BOOLEAN, First(text, a, tag, r, b)
  PROVE  Push[Strip(b, text)] = Emit(Shown(b, a), Push[After(tag, r)])
<1> DEFINE i == Len(a) + 1
           s == Strip(b, text)
           open == Find(text, OPEN)
           close == Find(text, CLOSE)
           q == Push[After(tag, r)]
<1>1. /\ text \in Seq(Char) /\ SubSeq(text, 1, i - 1) = a
      /\ SubSeq(text, i + Len(tag), Len(text)) = r
  <2>1. text = (a \o tag) \o r
    BY DEF First
  <2>2. Between(text, a, tag, r)
    BY <2>1, TagBetween
  <2> QED BY <2>2 DEF Between
<1>2. Counts(text, i, tag, b)
  BY DEF First
<1> HIDE DEF i
<1>3. s \in Stripper /\ s.in_think = b /\ s.pending = text
  BY <1>1, StripIs
<1>4. Past(s, i, tag) = After(tag, r)
  BY <1>1, <1>3 DEF Past, After
<1>5. Push[s] = Round(Push, s)
  BY <1>3, PushIs
<1>6. q \in Pushed
  BY StripIs, PushType
<1>7. /\ close \in 1..Len(text) /\ (b \/ open = 0 \/ close <= open) =>
           Counts(text, close, CLOSE, b)
      /\ ~b /\ open \in 1..Len(text) /\ (close = 0 \/ open < close) =>
           Counts(text, open, OPEN, b)
      /\ close = 0 /\ (b \/ open = 0) => NoTag(text, b)
  BY <1>1, FoundFirst
<1>8. \/ b /\ close = 0
      \/ b /\ close \in 1..Len(text) /\ Push[s] = Push[Past(s, close, CLOSE)]
      \/ ~b /\ open = 0 /\ close = 0
      \/ /\ ~b /\ open \in 1..Len(text) /\ (close = 0 \/ open < close)
         /\ Push[s] = Emit(SubSeq(text, 1, open - 1), Push[Past(s, open, OPEN)])
      \/ /\ ~b /\ close \in 1..Len(text) /\ (open = 0 \/ close <= open)
         /\ Push[s] = Emit(SubSeq(text, 1, close - 1), Push[Past(s, close, CLOSE)])
  <2>1. Push[s] = Round(Push, s)
    BY <1>5
  <2> HIDE DEF s
  <2> QED BY <1>3, <2>1, RoundIs
<1> HIDE DEF s, open, close
<1>9. ~NoTag(text, b)
  <2>1. i \in 1..Len(text) /\ tag \in Tag /\ Has(text, i, tag) /\ (b => tag = CLOSE)
    BY <1>2 DEF Counts
  <2>2. i \in Opens(text) \/ i \in Closes(text)
    BY <1>1, <2>1, TagPlaces DEF Tag
  <2>3. b => i \in Closes(text)
    BY <1>1, <2>1, TagPlaces
  <2> QED BY <2>2, <2>3 DEF NoTag
<1>10. CASE b /\ close \in 1..Len(text) /\ Push[s] = Push[Past(s, close, CLOSE)]
  <2>0. Counts(text, close, CLOSE, b)
    BY <1>7, <1>10
  <2>1. close = i /\ CLOSE = tag
    BY <1>1, <1>2, <2>0, CountsOnce
  <2>2. Push[s] = q
    BY <1>4, <1>10, <2>1
  <2> HIDE DEF q
  <2> QED BY <1>6, <1>10, <2>2, EmitNothing DEF Shown, q, s
<1>11. ASSUME NEW j, NEW t, ~b, Counts(text, j, t, b),
              Push[s] = Emit(SubSeq(text, 1, j - 1), Push[Past(s, j, t)])
       PROVE  Push[s] = Emit(Shown(b, a), q)
  <2>1. j = i /\ t = tag
    BY <1>1, <1>2, <1>11, CountsOnce
  <2> QED BY <1>1, <1>4, <1>11, <2>1 DEF Shown
<1>12. CASE ~b /\ open \in 1..Len(text) /\ (close = 0 \/ open < close)
            /\ Push[s] = Emit(SubSeq(text, 1, open - 1), Push[Past(s, open, OPEN)])
  <2> HIDE DEF q
  <2> QED BY <1>7, <1>11, <1>12 DEF q, s
<1>13. CASE ~b /\ close \in 1..Len(text) /\ (open = 0 \/ close <= open)
            /\ Push[s] = Emit(SubSeq(text, 1, close - 1), Push[Past(s, close, CLOSE)])
  <2> HIDE DEF q
  <2> QED BY <1>7, <1>11, <1>13 DEF q, s
<1> QED BY <1>7, <1>8, <1>9, <1>10, <1>12, <1>13

\* What is shown of two texts, and of a text.
LEMMA ShownIs ==
  ASSUME NEW b \in BOOLEAN, NEW x \in Seq(Char), NEW y \in Seq(Char)
  PROVE  Shown(b, x) \in Seq(Char) /\ Shown(b, x \o y) = Shown(b, x) \o Shown(b, y)
BY DEF Shown

\* What the loop returns at its end.
LoopEnd(text, b) == IF b THEN PushInside(text) ELSE PushOutside(text)

\* It is done with a, and holds k.
EndsAs(text, b, a, k) ==
  /\ text = a \o k
  /\ LoopEnd(text, b) = [out |-> Shown(b, a), in_think |-> b, pending |-> k]
  /\ \A p \in Seq(Char) : Dull(a, k \o p, b)

\* The end of the loop: the text is what is done with and what is held, and in
\* what is done with no tag can begin, whatever comes.
LEMMA EndsIs ==
  ASSUME NEW text \in Seq(Char), NEW b \in BOOLEAN, NoTag(text, b)
  PROVE  \E a, k \in Seq(Char) : EndsAs(text, b, a, k)
<1> DEFINE o == hold_partial_suffix(text, OPEN)
           c == hold_partial_suffix(text, CLOSE)
           k == IF b THEN c ELSE Longest({o, c})
           a == SubSeq(text, 1, Len(text) - Len(k))
<1>1. o \in Suffixes(text) /\ c \in Suffixes(text)
  BY HeldIs DEF Tag
<1> HIDE DEF o, c
<1>2. /\ Len(text) \in Nat /\ o \in Seq(Char) /\ c \in Seq(Char)
      /\ Len(o) <= Len(text) /\ Len(c) <= Len(text) /\ Len(o) \in Nat /\ Len(c) \in Nat
  <2>1. o \in Seq(Char) /\ c \in Seq(Char) /\ Len(o) <= Len(text) /\ Len(c) <= Len(text)
    BY <1>1, SuffixIs
  <2> QED BY <2>1
<1>3. Longest({o, c}) \in {o, c} /\ \A s \in {o, c} : Len(s) <= Len(Longest({o, c}))
  <2>1. \A s \in {o, c} : Len(s) \in Nat /\ Len(s) <= Len(text)
    BY <1>2
  <2> QED BY <1>2, <2>1, LongestIs
<1>4. /\ k \in Suffixes(text) /\ Len(c) <= Len(k) /\ (b \/ Len(o) <= Len(k))
  BY <1>1, <1>2, <1>3
<1> HIDE DEF k
<1>5. k \in Seq(Char) /\ a \in Seq(Char) /\ text = a \o k
  BY <1>4, SuffixIs
<1> HIDE DEF a
<1>6. ASSUME NEW p \in Seq(Char) PROVE Dull(a, k \o p, b)
  <2>1. /\ \A i \in 1..Len(text) : ~Has(text, i, CLOSE)
        /\ b \/ \A i \in 1..Len(text) : ~Has(text, i, OPEN)
    BY TagPlaces DEF NoTag
  <2>2. /\ \A i \in 1..Len(a \o k) : ~Has(a \o k, i, CLOSE)
        /\ b \/ \A i \in 1..Len(a \o k) : ~Has(a \o k, i, OPEN)
        /\ Len(hold_partial_suffix(a \o k, CLOSE)) <= Len(k)
        /\ b \/ Len(hold_partial_suffix(a \o k, OPEN)) <= Len(k)
    BY <1>4, <1>5, <2>1 DEF o, c
  <2>3. \A j \in 1..Len(a) : ~MayBegin(a \o (k \o p), j, CLOSE)
    BY <1>5, <2>2, Unheld DEF Tag
  <2>4. b \/ \A j \in 1..Len(a) : ~MayBegin(a \o (k \o p), j, OPEN)
    BY <1>5, <2>2, Unheld DEF Tag
  <2> QED BY <2>3, <2>4, TagChars DEF Dull, Tag
<1>7. LoopEnd(text, b) = [out |-> Shown(b, a), in_think |-> b, pending |-> k]
  <2>1. CASE b
    BY <2>1 DEF LoopEnd, PushInside, Shown, k, c
  <2>2. CASE ~b
    BY <2>2 DEF LoopEnd, PushOutside, Shown, k, a, o, c
  <2> QED BY <2>1, <2>2
<1> QED BY <1>5, <1>6, <1>7 DEF EndsAs

\* Behind dull text the loop does what it does without, and shows that text.
LEMMA PushDull ==
  ASSUME NEW a \in Seq(Char), NEW u \in Seq(Char), NEW b \in BOOLEAN, Dull(a, u, b)
  PROVE  Push[Strip(b, a \o u)] = Emit(Shown(b, a), Push[Strip(b, u)])
<1> DEFINE w == a \o u
<1>1. w \in Seq(Char)
  BY TextJoin
<1>2. CASE NoTag(u, b)
  <2>1. NoTag(w, b)
    BY <1>2, NoTagShift
  <2>2. \A tag \in Tag : (b => tag = CLOSE) =>
          hold_partial_suffix(w, tag) = hold_partial_suffix(u, tag)
    BY HeldShift DEF Dull
  <2>3. /\ Push[Strip(b, w)] = IF b THEN PushInside(w) ELSE PushOutside(w)
        /\ Push[Strip(b, u)] = IF b THEN PushInside(u) ELSE PushOutside(u)
    <3> HIDE DEF w
    <3>1. ASSUME NEW t \in Seq(Char), NoTag(t, b)
          PROVE  Push[Strip(b, t)] = IF b THEN PushInside(t) ELSE PushOutside(t)
      <4>1. /\ Strip(b, t) \in Stripper
            /\ Strip(b, t).in_think = b /\ Strip(b, t).pending = t
        BY StripIs
      <4> QED BY <3>1, <4>1, PushQuiet
    <3> QED BY <1>1, <1>2, <2>1, <3>1
  <2>4. CASE b
    <3>1. PushInside(w) = PushInside(u)
      <4> HIDE DEF w
      <4> QED BY <2>2 DEF PushInside, Tag
    <3>2. PushInside(u) \in Pushed
      BY LastRound
    <3> QED BY <2>3, <2>4, <3>1, <3>2, EmitNothing DEF Shown
  <2>5. CASE ~b
    <3> DEFINE k == Longest({hold_partial_suffix(u, OPEN), hold_partial_suffix(u, CLOSE)})
               f == SubSeq(u, 1, Len(u) - Len(k))
               g == SubSeq(w, 1, Len(w) - Len(k))
    <3>1. PushOutside(u) = [out |-> f, in_think |-> FALSE, pending |-> k]
      BY DEF PushOutside
    <3>2. PushOutside(w) = [out |-> g, in_think |-> FALSE, pending |-> k]
      <4>1. /\ hold_partial_suffix(w, OPEN) = hold_partial_suffix(u, OPEN)
            /\ hold_partial_suffix(w, CLOSE) = hold_partial_suffix(u, CLOSE)
        <5> HIDE DEF w
        <5> QED BY <2>2, <2>5 DEF Tag
      <4> HIDE DEF w
      <4> QED BY <4>1 DEF PushOutside
    <3>a. PICK h, l \in Seq(Char) : EndsAs(u, b, h, l)
      BY <1>2, EndsIs
    <3>3. u = h \o l /\ PushOutside(u) = [out |-> Shown(b, h), in_think |-> b, pending |-> l]
      BY <2>5, <3>a DEF EndsAs, LoopEnd
    <3> HIDE DEF k, f, g
    <3>4. f = h /\ k = l
      BY <2>5, <3>1, <3>3 DEF Shown
    <3>5. g = a \o h
      <4>1. w = (a \o h) \o l
        BY <3>3, TextAssoc
      <4> DEFINE d == a \o h
      <4>2. d \in Seq(Char)
        BY TextJoin
      <4> HIDE DEF d, w
      <4>3. Len(w) = Len(d) + Len(l) /\ Len(d) \in Nat /\ Len(l) \in Nat
        BY <4>1, <4>2, TextJoin DEF d
      <4>4. Len(w) - Len(l) = Len(d)
        BY <4>3
      <4>5. SubSeq(d \o l, 1, Len(d)) = d
        BY <4>2, Cut
      <4> QED BY <3>4, <4>1, <4>4, <4>5 DEF g, d
    <3>6. Emit(a, [out |-> f, in_think |-> FALSE, pending |-> k])
            = [out |-> a \o f, in_think |-> FALSE, pending |-> k]
      <4> DEFINE z == [out |-> f, in_think |-> FALSE, pending |-> k]
      <4>1. z \in Pushed
        BY <3>4 DEF Pushed
      <4>2. z.out = f /\ z.in_think = FALSE /\ z.pending = k
        OBVIOUS
      <4> HIDE DEF z
      <4>3. /\ Emit(a, z) \in Pushed /\ Emit(a, z).out = a \o f
            /\ Emit(a, z).in_think = FALSE /\ Emit(a, z).pending = k
        BY <4>1, <4>2, EmitIs
      <4>4. Emit(a, z) = [out |-> a \o f, in_think |-> FALSE, pending |-> k]
        BY <4>3 DEF Pushed
      <4> QED BY <4>4 DEF z
    <3> HIDE DEF w
    <3> QED BY <2>3, <2>5, <3>1, <3>2, <3>4, <3>5, <3>6 DEF Shown, w
  <2> QED BY <2>4, <2>5
<1>3. CASE ~NoTag(u, b)
  <2>1. PICK h \in Seq(Char), r \in Seq(Char), tag \in Tag : First(u, h, tag, r, b)
    BY <1>3, EitherWay
  <2> DEFINE q == Push[After(tag, r)]
             d == a \o h
  <2>2. First(w, d, tag, r, b)
    BY <2>1, FirstShift
  <2>3. q \in Pushed /\ d \in Seq(Char)
    BY StripIs, PushType, TextJoin
  <2>4. Push[Strip(b, u)] = Emit(Shown(b, h), q)
    BY <2>1, PushFirst
  <2> HIDE DEF w
  <2>6. /\ Shown(b, a) \in Seq(Char) /\ Shown(b, h) \in Seq(Char)
        /\ Shown(b, d) = Shown(b, a) \o Shown(b, h)
    BY <2>1 DEF Shown
  <2> HIDE DEF d
  <2>5. Push[Strip(b, w)] = Emit(Shown(b, d), q)
    BY <1>1, <2>2, <2>3, PushFirst
  <2> HIDE DEF q
  <2>7. Emit(Shown(b, a), Emit(Shown(b, h), q)) = Emit(Shown(b, a) \o Shown(b, h), q)
    BY <2>3, <2>6, EmitTwice
  <2> QED BY <2>4, <2>5, <2>6, <2>7 DEF w
<1> QED BY <1>2, <1>3

\* What a stripper would show of what is pending, were it all there is.
VisibleOf(s) == VisibleFrom(s.in_think, s.pending)

\* A tag that counts divides what is visible.
LEMMA VisibleFirst ==
  ASSUME NEW text \in Seq(Char), NEW a \in Seq(Char), NEW r \in Seq(Char), NEW tag \in Tag,
         NEW b \in BOOLEAN, First(text, a, tag, r, b)
  PROVE  VisibleFrom(b, text) = Shown(b, a) \o VisibleOf(After(tag, r))
<1> DEFINE i == Len(a) + 1
<1>1. Counts(text, i, tag, b) /\ text = (a \o tag) \o r
  BY DEF First
<1>2. SubSeq(text, 1, i - 1) = a /\ SubSeq(text, i + Len(tag), Len(text)) = r
  <2>1. Between(text, a, tag, r)
    BY <1>1, TagBetween
  <2> QED BY <2>1 DEF Between
<1> HIDE DEF i
<1>3. VisibleFrom(b, text) =
           (IF b THEN <<>> ELSE SubSeq(text, 1, i - 1))
             \o VisibleFrom(tag = OPEN, SubSeq(text, i + Len(tag), Len(text)))
  <2>1. Divided(text, i, tag, b)
    BY <1>1, VisibleBehind
  <2> QED BY <2>1 DEF Divided
<1>4. VisibleFrom(b, text) = (IF b THEN <<>> ELSE a) \o VisibleFrom(tag = OPEN, r)
  BY <1>2, <1>3
<1>5. VisibleOf(After(tag, r)) = VisibleFrom(tag = OPEN, r)
  BY DEF VisibleOf, After
<1> QED BY <1>4, <1>5 DEF Shown

\* Without one all is visible or nothing.
LEMMA VisibleQuiet ==
  ASSUME NEW text \in Seq(Char), NEW b \in BOOLEAN, NoTag(text, b)
  PROVE  VisibleFrom(b, text) = Shown(b, text)
<1>1. DOMAIN text = 1..Len(text) /\ Closes(text) = {} /\ (b \/ Opens(text) = {})
  BY DEF NoTag
<1>2. CASE b
  <2>1. \A i \in 1..Len(text) : i \notin Seen(b, text)
    BY <1>1, <1>2 DEF Seen, Thinking
  <2>2. Pick(text, Seen(b, text)) = <<>>
    BY <2>1, PickNone
  <2> QED BY <1>2, <2>2 DEF VisibleFrom, Shown
<1>3. CASE ~b
  <2>1. \A i \in 1..Len(text) : i \in Seen(b, text)
    BY <1>1, <1>3 DEF Seen, Thinking, InTag
  <2>2. Pick(text, Seen(b, text)) = text
    BY <2>1, PickAll
  <2> QED BY <1>3, <2>2 DEF VisibleFrom, Shown
<1> QED BY <1>2, <1>3

\* The loop shows what is visible, were what it holds to be shown as well.
LEMMA PushVisible ==
  ASSUME NEW s \in Stripper
  PROVE  Push[s].out \o Flush(Push[s]) = VisibleOf(s)
<1> DEFINE Fine(r) == Push[r].out \o Flush(Push[r]) = VisibleOf(r)
           T == {r \in Stripper : Fine(r)}
<1>1. ASSUME NEW r \in Stripper,
             \A q \in Stripper : Len(q.pending) < Len(r.pending) => q \in T
      PROVE  r \in T
  <2> DEFINE b == r.in_think
             text == r.pending
  <2>1. b \in BOOLEAN /\ text \in Seq(Char) /\ r = Strip(b, text) /\ VisibleOf(r) = VisibleFrom(b, text)
    BY StripIs DEF VisibleOf
  <2>2. CASE NoTag(text, b)
    <3>1. Push[r] = LoopEnd(text, b)
      BY <2>2, PushQuiet DEF LoopEnd
    <3> HIDE DEF b, text
    <3>2. PICK a, k \in Seq(Char) : EndsAs(text, b, a, k)
      BY <2>1, <2>2, EndsIs
    <3>3. /\ text = a \o k
          /\ Push[r].out = Shown(b, a) /\ Push[r].in_think = b /\ Push[r].pending = k
      BY <3>1, <3>2 DEF EndsAs
    <3>4. Shown(b, a) \o (IF b THEN <<>> ELSE k) = Shown(b, a \o k)
      BY <2>1 DEF Shown
    <3>5. VisibleFrom(b, text) = Shown(b, text)
      BY <2>1, <2>2, VisibleQuiet
    <3> QED BY <2>1, <3>3, <3>4, <3>5 DEF Flush
  <2>3. CASE ~NoTag(text, b)
    <3>0. \A q \in Stripper : Len(q.pending) < Len(text) => Fine(q)
      BY <1>1
    <3> HIDE DEF b, text, Fine, T
    <3>1. PICK a \in Seq(Char), l \in Seq(Char), tag \in Tag : First(text, a, tag, l, b)
      BY <2>1, <2>3, EitherWay
    <3> DEFINE p == After(tag, l)
               q == Push[p]
    <3>2. p \in Stripper /\ p.pending = l /\ Len(l) < Len(text)
      <4>1. text = (a \o tag) \o l
        BY <3>1 DEF First
      <4>2. Between(text, a, tag, l)
        BY <4>1, TagBetween
      <4> QED BY <4>2, StripIs DEF Between
    <3>3. Fine(p)
      BY <3>0, <3>2
    <3>4. q \in Pushed
      BY <3>2, PushType
    <3>5. Push[r] = Emit(Shown(b, a), q)
      BY <2>1, <3>1, PushFirst
    <3>6. VisibleFrom(b, text) = Shown(b, a) \o VisibleOf(p)
      BY <2>1, <3>1, VisibleFirst
    <3>7. q.out \o Flush(q) = VisibleOf(p)
      BY <3>3 DEF Fine
    <3> HIDE DEF p, q
    <3>8. Shown(b, a) \in Seq(Char) /\ q.out \in Seq(Char) /\ Flush(q) \in Seq(Char)
      BY <2>1, <3>4, ShownIs DEF Pushed, Flush
    <3>9. Push[r].out = Shown(b, a) \o q.out /\ Flush(Push[r]) = Flush(q)
        <4>1. /\ Push[r].out = Shown(b, a) \o q.out /\ Push[r].in_think = q.in_think
              /\ Push[r].pending = q.pending
          BY <3>4, <3>5, <3>8, EmitIs
        <4> QED BY <4>1 DEF Flush
    <3>10. (Shown(b, a) \o q.out) \o Flush(q) = Shown(b, a) \o (q.out \o Flush(q))
      <4>1. Regroups(Shown(b, a), q.out, Flush(q))
        BY <3>8, TextRegroups
      <4> QED BY <4>1 DEF Regroups
    <3>11. Push[r].out \o Flush(Push[r]) = VisibleOf(r)
      BY <2>1, <3>6, <3>7, <3>9, <3>10
    <3> QED BY <3>11 DEF T, Fine
  <2> QED BY <2>2, <2>3
<1>2. \A r \in Stripper : r \in T
  <2> HIDE DEF T
  <2> QED BY <1>1, Pendings
<1> QED BY <1>2

\* Cut anywhere, the loop does the same: what is held makes up for the cut.
LEMMA PushResumes ==
  ASSUME NEW s \in Stripper, NEW p \in Seq(Char)
  PROVE  Push[Strip(s.in_think, s.pending \o p)]
           = Emit(Push[s].out, Push[Strip(Push[s].in_think, Push[s].pending \o p)])
<1> DEFINE Rest(r) == Push[Strip(Push[r].in_think, Push[r].pending \o p)]
           Fine(r) == Push[Strip(r.in_think, r.pending \o p)] = Emit(Push[r].out, Rest(r))
           T == {r \in Stripper : Fine(r)}
<1>1. ASSUME NEW r \in Stripper,
             \A q \in Stripper : Len(q.pending) < Len(r.pending) => q \in T
      PROVE  r \in T
  <2> DEFINE b == r.in_think
             text == r.pending
  <2>1. b \in BOOLEAN /\ text \in Seq(Char) /\ r = Strip(b, text)
    BY StripIs
  <2>2. CASE NoTag(text, b)
    <3>1. Push[r] = LoopEnd(text, b)
      BY <2>2, PushQuiet DEF LoopEnd
    <3> HIDE DEF b, text
    <3>2. PICK a, k \in Seq(Char) : EndsAs(text, b, a, k)
      BY <2>1, <2>2, EndsIs
    <3>3. /\ text = a \o k /\ Dull(a, k \o p, b)
          /\ Push[r].out = Shown(b, a) /\ Push[r].in_think = b /\ Push[r].pending = k
      BY <3>1, <3>2 DEF EndsAs
    <3> DEFINE u == k \o p
    <3>4. text \o p = a \o u
      BY <3>3, TextAssoc
    <3>5. u \in Seq(Char) /\ Dull(a, u, b)
      BY <3>3
    <3>6. Rest(r) = Push[Strip(b, u)]
      BY <3>3
    <3> HIDE DEF u, Rest
    <3>7. Push[Strip(b, a \o u)] = Emit(Shown(b, a), Push[Strip(b, u)])
      BY <2>1, <3>5, PushDull
    <3> QED BY <3>3, <3>4, <3>6, <3>7 DEF b, text
  <2>3. CASE ~NoTag(text, b)
    <3>0. \A q \in Stripper : Len(q.pending) < Len(text) => Fine(q)
      BY <1>1
    <3>a. Fine(r) <=> Push[Strip(b, text \o p)] = Emit(Push[r].out, Rest(r))
      OBVIOUS
    <3> HIDE DEF b, text, Fine, T, Rest
    <3>1. PICK a \in Seq(Char), l \in Seq(Char), tag \in Tag : First(text, a, tag, l, b)
      BY <2>1, <2>3, EitherWay
    <3> DEFINE e == After(tag, l)
               q == Push[e]
               x == Push[After(tag, l \o p)]
               h == Shown(b, a)
    <3>2. e \in Stripper /\ e.pending = l /\ Len(l) < Len(text) /\ l \o p \in Seq(Char)
      <4>1. text = (a \o tag) \o l
        BY <3>1 DEF First
      <4>2. Between(text, a, tag, l)
        BY <4>1, TagBetween
      <4> QED BY <4>2, StripIs DEF Between
    <3>3. Fine(e)
      BY <3>0, <3>2
    <3>4. q \in Pushed
      BY <3>2, PushType
    <3>5. Push[r] = Emit(h, q)
      BY <2>1, <3>1, PushFirst
    <3>6. Push[Strip(b, text \o p)] = Emit(h, x)
      <4>1. First(text \o p, a, tag, l \o p, b)
        BY <2>1, <3>1, FirstKept
      <4> DEFINE w == text \o p
                 z == l \o p
      <4>2. w \in Seq(Char) /\ z \in Seq(Char) /\ First(w, a, tag, z, b)
        BY <2>1, <3>2, <4>1
      <4> HIDE DEF w, z
      <4>3. Push[Strip(b, w)] = Emit(Shown(b, a), Push[After(tag, z)])
        BY <2>1, <4>2, PushFirst
      <4> QED BY <4>3 DEF w, z
    <3>7. x = Emit(q.out, Rest(e))
      <4>1. Strip(e.in_think, e.pending \o p) = After(tag, l \o p)
        BY DEF Strip, After
      <4> HIDE DEF e
      <4> QED BY <3>3, <4>1 DEF Fine, e
    <3> HIDE DEF e, x
    <3>8. /\ q.out \in Seq(Char) /\ q.in_think \in BOOLEAN /\ q.pending \o p \in Seq(Char)
          /\ h \in Seq(Char)
      <4>1. h \in Seq(Char)
        BY <2>1, ShownIs
      <4> HIDE DEF h, q
      <4> QED BY <3>4, <4>1 DEF Pushed
    <3>9. Rest(e) \in Pushed
      BY <3>8, StripIs, PushType DEF Rest
    <3> HIDE DEF q, h
    <3>10. /\ Push[r].out = h \o q.out /\ Push[r].in_think = q.in_think
           /\ Push[r].pending = q.pending
      <4>1. /\ Emit(h, q).out = h \o q.out /\ Emit(h, q).in_think = q.in_think
            /\ Emit(h, q).pending = q.pending
        BY <3>4, <3>8, EmitIs
      <4> QED BY <3>5, <4>1
    <3>11. Rest(r) = Rest(e)
      BY <3>10 DEF Rest, q
    <3>12. Emit(h, Emit(q.out, Rest(e))) = Emit(h \o q.out, Rest(e))
      BY <3>8, <3>9, EmitTwice
    <3>13. Fine(r)
      BY <3>a, <3>6, <3>7, <3>10, <3>11, <3>12
    <3> QED BY <3>13 DEF T
  <2> QED BY <2>2, <2>3
<1>2. \A r \in Stripper : r \in T
  <2> HIDE DEF T
  <2> QED BY <1>1, Pendings
<1> QED BY <1>2

-----------------------------------------------------------------------------
(* The brace walk.                                                         *)

\* A character of the walk.
Walked(w, c) ==
  CASE c = "q" -> [w EXCEPT !.in_string = ~@]
    [] c = LBRACE /\ ~w.in_string -> [w EXCEPT !.depth = @ + 1]
    [] c = RBRACE /\ ~w.in_string -> [w EXCEPT !.depth = @ - 1]
    [] OTHER -> w

\* The function Balance is defined by.
Walk(text, i) ==
  CHOOSE walk : walk = [j \in i..Len(text) |->
    IF j = i THEN [depth |-> 1, in_string |-> FALSE]
    ELSE LET w == walk[j - 1]
         IN  CASE text[j] = "q" -> [w EXCEPT !.in_string = ~@]
               [] text[j] = LBRACE /\ ~w.in_string -> [w EXCEPT !.depth = @ + 1]
               [] text[j] = RBRACE /\ ~w.in_string -> [w EXCEPT !.depth = @ - 1]
               [] OTHER -> w]

\* Balance is the first place where the walk is back at depth zero.
LEMMA BalanceIs ==
  ASSUME NEW text, NEW i
  PROVE  LET ends == {j \in i..Len(text) : Walk(text, i)[j].depth = 0}
         IN  Balance(text, i) = IF ends = {} THEN 0 ELSE Min(ends)
BY Zenon DEF Balance, Walk

\* The walk goes on from its brace to the end of the text, character by character.
LEMMA WalkExists ==
  ASSUME NEW text, Len(text) \in Nat, NEW i \in Nat
  PROVE  \A j \in i..Len(text) :
           Walk(text, i)[j] = IF j = i THEN [depth |-> 1, in_string |-> FALSE]
                              ELSE Walked(Walk(text, i)[j - 1], text[j])
<1> DEFINE Step(g, j) == IF j = i THEN [depth |-> 1, in_string |-> FALSE]
                         ELSE Walked(g[j - 1], text[j])
           Good(g, m) == g = [j \in i..m |-> Step(g, j)]
           T == {m \in Nat : \E g : Good(g, m)}
<1>1. 0 \in T
  <2> DEFINE g == [j \in i..0 |-> [depth |-> 1, in_string |-> FALSE]]
  <2>1. Good(g, 0)
    OBVIOUS
  <2> HIDE DEF Good, g
  <2> QED BY <2>1
<1>2. ASSUME NEW m \in Nat, m \in T PROVE m + 1 \in T
  <2>1. PICK g : Good(g, m)
    BY <1>2
  <2> DEFINE h == [j \in i..(m + 1) |-> Step(g, j)]
  <2>2. \A j \in i..m : g[j] = Step(g, j)
    <3> HIDE DEF Step
    <3> QED BY <2>1
  <2>3. \A j \in i..m : h[j] = g[j]
    <3> HIDE DEF Step
    <3> QED BY <2>2
  <2>4. \A j \in i..(m + 1) : j # i => j - 1 \in i..m
    OBVIOUS
  <2>5. \A j \in i..(m + 1) : Step(g, j) = Step(h, j)
    <3> HIDE DEF h
    <3> QED BY <2>3, <2>4
  <2>6. Good(h, m + 1)
    <3> HIDE DEF Step
    <3> QED BY <2>5
  <2> HIDE DEF Good, h
  <2> QED BY <2>6
<1>3. Len(text) \in T
  <2> HIDE DEF T
  <2> QED BY <1>1, <1>2, Steps
<1>4. \E g : Good(g, Len(text))
  BY <1>3
<1>5. Good(Walk(text, i), Len(text))
  BY <1>4, Zenon DEF Walk, Walked
<1> HIDE DEF Walk, Step
<1>6. \A j \in i..Len(text) : Walk(text, i)[j] = Step(Walk(text, i), j)
  BY <1>5
<1> QED BY <1>6 DEF Step

\* What the walk keeps.
WalkState == [depth : Int, in_string : BOOLEAN]

\* A step of the walk keeps count as Depth and InString do.
LEMMA WalkedIs ==
  ASSUME NEW w \in WalkState, NEW s, NEW k \in Nat,
         w.depth = Depth(s, k), w.in_string <=> InString(s, k + 1)
  PROVE  LET v == Walked(w, s[k + 1])
         IN  /\ v \in WalkState /\ v.depth = Depth(s, k + 1)
             /\ v.in_string <=> InString(s, k + 2)
<1> DEFINE v == Walked(w, s[k + 1])
           d == Depth(s, k + 1)
           c == s[k + 1]
<1>1. w.depth \in Int /\ w.in_string \in BOOLEAN /\ w = [depth |-> w.depth, in_string |-> w.in_string]
  BY DEF WalkState
<1>2. /\ d = w.depth + Deepens(s, k + 1)
      /\ InString(s, k + 2) <=> (IF c = "q" THEN ~w.in_string ELSE w.in_string)
  BY DepthNext, InStringNext
<1>3. Deepens(s, k + 1) = IF c = LBRACE /\ ~w.in_string THEN 1
                         ELSE IF c = RBRACE /\ ~w.in_string THEN -1 ELSE 0
  BY DEF Deepens
<1>4. v = CASE c = "q" -> [w EXCEPT !.in_string = ~@]
            [] c = LBRACE /\ ~w.in_string -> [w EXCEPT !.depth = @ + 1]
            [] c = RBRACE /\ ~w.in_string -> [w EXCEPT !.depth = @ - 1]
            [] OTHER -> w
  BY DEF Walked
<1> HIDE DEF v, d, c
<1>5. CASE c = "q"
  <2>1. v = [w EXCEPT !.in_string = ~w.in_string]
    BY <1>4, <1>5, Braces
  <2>2. v \in WalkState /\ v.depth = w.depth /\ (v.in_string <=> ~w.in_string)
    BY <1>1, <2>1 DEF WalkState
  <2> QED BY <1>1, <1>2, <1>3, <1>5, <2>2, Braces DEF v, d, c
<1>6. CASE c = LBRACE /\ ~w.in_string
  <2>1. v = [w EXCEPT !.depth = w.depth + 1]
    BY <1>4, <1>6, Braces
  <2>2. v \in WalkState /\ v.depth = w.depth + 1 /\ v.in_string = w.in_string
    BY <1>1, <2>1 DEF WalkState
  <2> QED BY <1>1, <1>2, <1>3, <1>6, <2>2, Braces DEF v, d, c
<1>7. CASE c = RBRACE /\ ~w.in_string
  <2>1. v = [w EXCEPT !.depth = w.depth - 1]
    BY <1>4, <1>7, Braces
  <2>2. v \in WalkState /\ v.depth = w.depth - 1 /\ v.in_string = w.in_string
    BY <1>1, <2>1 DEF WalkState
  <2> QED BY <1>1, <1>2, <1>3, <1>7, <2>2, Braces DEF v, d, c
<1>8. CASE c # "q" /\ ~(c = LBRACE /\ ~w.in_string) /\ ~(c = RBRACE /\ ~w.in_string)
  <2>1. v = w
    BY <1>4, <1>8
  <2> QED BY <1>1, <1>2, <1>3, <1>8, <2>1, Braces DEF v, d, c
<1> QED BY <1>5, <1>6, <1>7, <1>8

\* Where the walk ends, the text from its brace is an object.
LEMMA BalancedObject ==
  ASSUME NEW text \in Seq(Char), NEW i \in 1..Len(text), text[i] = LBRACE, Balance(text, i) # 0
  PROVE  /\ Balance(text, i) \in (i + 1)..Len(text)
         /\ IsObject(SubSeq(text, i, Balance(text, i)))
<1> DEFINE j == Balance(text, i)
           W == Walk(text, i)
           ends == {k \in i..Len(text) : W[k].depth = 0}
           s == SubSeq(text, i, j)
<1>1. Len(text) \in Nat /\ i \in Nat /\ 1 <= i /\ i <= Len(text)
  OBVIOUS
<1>2. j \in ends /\ \A k \in ends : j <= k
  <2>1. j = IF ends = {} THEN 0 ELSE Min(ends)
    BY BalanceIs
  <2>2. ends # {} /\ j = Min(ends)
    BY <2>1
  <2>3. ends \subseteq Nat
    BY <1>1
  <2> HIDE DEF ends, j
  <2> QED BY <2>2, <2>3, MinIs
<1>3. /\ W[i] = [depth |-> 1, in_string |-> FALSE]
      /\ \A k \in (i + 1)..Len(text) : W[k] = Walked(W[k - 1], text[k])
  <2>1. \A k \in i..Len(text) :
           W[k] = IF k = i THEN [depth |-> 1, in_string |-> FALSE]
                              ELSE Walked(W[k - 1], text[k])
    BY <1>1, WalkExists
  <2> HIDE DEF W
  <2> QED BY <1>1, <2>1
<1> HIDE DEF j, W
<1>4. /\ j \in Nat /\ i < j /\ j <= Len(text) /\ W[j].depth = 0
      /\ \A k \in i..(j - 1) : W[k].depth # 0
  <2>1. j \in i..Len(text) /\ W[j].depth = 0
    BY <1>2
  <2>2. j # i
    BY <1>3, <2>1
  <2>3. \A k \in i..(j - 1) : W[k].depth # 0
    BY <1>1, <1>2, <2>1
  <2> QED BY <1>1, <2>1, <2>2, <2>3
<1>5. /\ s \in Seq(Char) /\ Len(s) = j - i + 1
      /\ \A k \in 1..(j - i + 1) : s[k] = text[i + k - 1]
  BY <1>1, <1>4
<1> HIDE DEF s
<1>s. /\ ~InString(s, 1) /\ Depth(s, 0) = 0
      /\ \A k \in Nat : InString(s, k + 2) <=> (IF s[k + 1] = "q" THEN ~InString(s, k + 1)
                                                ELSE InString(s, k + 1))
      /\ \A k \in Nat : Depth(s, k) \in Int /\ Depth(s, k + 1) = Depth(s, k) + Deepens(s, k + 1)
  BY InStringNext, DepthNext
<1> DEFINE T == {m \in Nat : i + m <= j =>
                  /\ W[i + m] \in WalkState
                  /\ W[i + m].depth = Depth(s, m + 1)
                  /\ W[i + m].in_string <=> InString(s, m + 2)}
<1>6. \A m \in Nat : m \in T
  <2>1. 0 \in T
    <3>1. s[1] = LBRACE
      BY <1>1, <1>4, <1>5
    <3>2. ~InString(s, 1) /\ (InString(s, 2) <=> InString(s, 1))
      <4>1. InString(s, 0 + 2) <=> (IF s[0 + 1] = "q" THEN ~InString(s, 0 + 1) ELSE InString(s, 0 + 1))
        BY <1>s
      <4>2. InString(s, 2) <=> (IF s[1] = "q" THEN ~InString(s, 1) ELSE InString(s, 1))
        <5>1. 0 + 2 = 2 /\ 0 + 1 = 1
          OBVIOUS
        <5> QED BY <4>1, <5>1, Zenon
      <4> QED BY <1>s, <3>1, <4>2, Braces
    <3>3. Depth(s, 1) = 1
      <4>1. Depth(s, 0 + 1) = Depth(s, 0) + Deepens(s, 0 + 1) /\ Depth(s, 0) = 0
        BY <1>s
      <4>2. Deepens(s, 1) = 1
        BY <3>1, <3>2 DEF Deepens
      <4> QED BY <4>1, <4>2
    <3>4. W[i + 0] = [depth |-> 1, in_string |-> FALSE]
      BY <1>1, <1>3
    <3>5. W[i + 0] \in WalkState /\ W[i + 0].depth = 1 /\ ~W[i + 0].in_string
      BY <3>4 DEF WalkState
    <3>6. ~InString(s, 0 + 2) /\ Depth(s, 0 + 1) = 1
      BY <3>2, <3>3
    <3> QED BY <3>5, <3>6
  <2>2. ASSUME NEW m \in Nat, m \in T PROVE m + 1 \in T
    <3> SUFFICES ASSUME i + (m + 1) <= j
                 PROVE  /\ W[i + (m + 1)] \in WalkState
                        /\ W[i + (m + 1)].depth = Depth(s, (m + 1) + 1)
                        /\ W[i + (m + 1)].in_string <=> InString(s, (m + 1) + 2)
      OBVIOUS
    <3> DEFINE w == W[i + m]
    <3>1. /\ w \in WalkState /\ w.depth = Depth(s, m + 1)
          /\ w.in_string <=> InString(s, (m + 1) + 1)
      BY <1>1, <1>4, <2>2
    <3>2. W[i + (m + 1)] = Walked(w, s[(m + 1) + 1])
      <4>1. i + (m + 1) \in (i + 1)..Len(text) /\ i + (m + 1) - 1 = i + m
        BY <1>1, <1>4
      <4>2. (m + 1) + 1 \in 1..(j - i + 1) /\ i + ((m + 1) + 1) - 1 = i + (m + 1)
        BY <1>1, <1>4
      <4>3. s[(m + 1) + 1] = text[i + (m + 1)]
        BY <1>5, <4>2
      <4>4. W[i + (m + 1)] = Walked(W[i + (m + 1) - 1], text[i + (m + 1)])
        BY <1>3, <4>1
      <4> QED BY <4>1, <4>3, <4>4
    <3> HIDE DEF w
    <3>3. m + 1 \in Nat
      OBVIOUS
    <3> QED BY <3>1, <3>2, <3>3, WalkedIs
  <2> HIDE DEF T
  <2> QED BY <2>1, <2>2, Steps
<1>7. \A m \in Nat : i + m <= j => W[i + m].depth = Depth(s, m + 1)
  BY <1>6
<1> HIDE DEF T
<1> DEFINE P == {m \in Nat : i + m < j => Depth(s, m + 1) > 0}
<1>8. \A m \in Nat : m \in P
  <2>1. 0 \in P
    <3>1. i + 0 = i /\ i <= j
      BY <1>1, <1>4
    <3>2. W[i + 0].depth = 1
      BY <1>1, <1>3, <3>1
    <3>3. W[i + 0].depth = Depth(s, 0 + 1)
      BY <1>7, <3>1
    <3> QED BY <3>2, <3>3
  <2>2. ASSUME NEW m \in Nat, m \in P PROVE m + 1 \in P
    <3> SUFFICES ASSUME i + (m + 1) < j PROVE Depth(s, (m + 1) + 1) > 0
      OBVIOUS
    <3>1. Depth(s, m + 1) > 0 /\ Depth(s, m + 1) \in Int
      BY <1>1, <1>4, <2>2, <1>s
    <3>2. Depth(s, (m + 1) + 1) = Depth(s, m + 1) + Deepens(s, (m + 1) + 1)
      BY <1>s
    <3>3. Deepens(s, (m + 1) + 1) \in {-1, 0, 1}
      BY DEF Deepens
    <3>4. Depth(s, (m + 1) + 1) # 0
      <4>1. i + (m + 1) \in i..(j - 1) /\ i + (m + 1) <= j /\ m + 1 \in Nat
        BY <1>1, <1>4
      <4> QED BY <1>4, <1>7, <4>1
    <3> QED BY <3>1, <3>2, <3>3, <3>4
  <2> HIDE DEF P
  <2> QED BY <2>1, <2>2, Steps
<1>9. /\ Depth(s, j - i + 1) = 0
      /\ \A k \in 1..(j - i) : Depth(s, k) > 0
  <2>1. j - i \in Nat /\ i + (j - i) = j
    BY <1>1, <1>4
  <2>2. ASSUME NEW k \in 1..(j - i) PROVE Depth(s, k) > 0
    <3>1. k - 1 \in Nat /\ i + (k - 1) < j /\ (k - 1) + 1 = k
      BY <1>1, <1>4
    <3> QED BY <1>8, <3>1
  <2>3. Depth(s, j - i + 1) = 0
    <3> DEFINE m == j - i
    <3>1. m \in Nat /\ i + m <= j /\ i + m = j
      BY <2>1, <1>1, <1>4
    <3> HIDE DEF m
    <3>2. Depth(s, m + 1) = 0
      BY <1>4, <1>7, <3>1
    <3> QED BY <3>2 DEF m
  <2> QED BY <2>2, <2>3
<1>10. s[1] = LBRACE /\ s[j - i + 1] = RBRACE
  <2>1. s[1] = LBRACE
    BY <1>1, <1>4, <1>5
  <2>2. Depth(s, (j - i) + 1) = Depth(s, j - i) + Deepens(s, (j - i) + 1) /\ Depth(s, j - i) \in Int
    <3>1. j - i \in Nat
      BY <1>1, <1>4
    <3> DEFINE m == j - i
    <3> HIDE DEF m
    <3>2. Depth(s, m + 1) = Depth(s, m) + Deepens(s, m + 1) /\ Depth(s, m) \in Int
      BY <1>s, <3>1 DEF m
    <3> QED BY <3>2 DEF m
  <2>3. Depth(s, j - i) > 0
    BY <1>1, <1>4, <1>9
  <2>4. Deepens(s, (j - i) + 1) < 0
    BY <1>9, <2>2, <2>3 DEF Deepens
  <2> QED BY <2>1, <2>4 DEF Deepens
<1>11. IsObject(s)
  <2>1. Len(s) >= 2 /\ Len(s) - 1 = j - i
    BY <1>1, <1>4, <1>5
  <2> QED BY <1>5, <1>9, <1>10, <2>1 DEF IsObject
<1> QED BY <1>1, <1>4, <1>11 DEF s, j

-----------------------------------------------------------------------------
(* The scans.                                                              *)

\* A scan over L places: at i it adds add[i] and goes on behind last[i].
Scan(g, L, last, add) ==
  g = [i \in 1..(L + 1) |-> IF i > L THEN {} ELSE g[last[i] + 1] \cup add[i]]
\* Every step of it goes on.
Onward(L, last) == \A i \in 1..L : last[i] \in i..L

\* It can be done from the right.
LEMMA ScanExists ==
  ASSUME NEW L \in Nat, NEW last, Onward(L, last), NEW add
  PROVE  \E g : Scan(g, L, last, add)
<1> DEFINE Step(g, i) == IF i > L THEN {} ELSE g[last[i] + 1] \cup add[i]
           Good(g, m) == g = [i \in m..(L + 1) |-> Step(g, i)]
           T == {n \in Nat : n <= L => \E g : Good(g, L + 1 - n)}
<1>1. 0 \in T
  <2> DEFINE g == [i \in (L + 1)..(L + 1) |-> {}]
  <2>1. Good(g, L + 1)
    OBVIOUS
  <2> HIDE DEF Good, g
  <2>2. L + 1 - 0 = L + 1
    OBVIOUS
  <2> QED BY <2>1, <2>2
<1>2. ASSUME NEW n \in Nat, n \in T PROVE n + 1 \in T
  <2> SUFFICES ASSUME n + 1 <= L PROVE \E g : Good(g, L + 1 - (n + 1))
    OBVIOUS
  <2> DEFINE m == L + 1 - (n + 1)
  <2>1. m \in 1..L /\ m + 1 = L + 1 - n /\ n <= L
    OBVIOUS
  <2>2. PICK g : Good(g, m + 1)
    BY <1>2, <2>1
  <2> HIDE DEF m
  <2> DEFINE h == [i \in m..(L + 1) |-> Step(g, i)]
  <2>3. \A i \in (m + 1)..(L + 1) : g[i] = Step(g, i)
    <3> HIDE DEF Step
    <3> QED BY <2>2
  <2>4. \A i \in (m + 1)..(L + 1) : h[i] = g[i]
    <3> HIDE DEF Step
    <3> QED BY <2>1, <2>3
  <2>5. \A i \in m..(L + 1) : i <= L => last[i] + 1 \in (m + 1)..(L + 1)
    BY <2>1 DEF Onward
  <2>6. \A i \in m..(L + 1) : Step(g, i) = Step(h, i)
    <3> HIDE DEF h
    <3>1. \A i \in m..(L + 1) : i <= L => g[last[i] + 1] = h[last[i] + 1]
      BY <2>4, <2>5
    <3>2. \A i \in m..(L + 1) : i > L <=> ~(i <= L)
      BY <2>1
    <3> QED BY <3>1, <3>2, Zenon
  <2>7. Good(h, m)
    <3> HIDE DEF Step
    <3> QED BY <2>6
  <2> HIDE DEF Good, h
  <2> QED BY <2>7 DEF m
<1>3. L \in T
  <2> HIDE DEF T
  <2> QED BY <1>1, <1>2, Steps
<1>4. PICK g : Good(g, L + 1 - L)
  BY <1>3
<1>5. Good(g, 1)
  <2>1. L + 1 - L = 1
    OBVIOUS
  <2> HIDE DEF Good
  <2> QED BY <1>4, <2>1
<1>6. Scan(g, L, last, add)
  BY <1>5 DEF Scan
<1> QED BY <1>6

\* It finds what it adds.
LEMMA ScanFinds ==
  ASSUME NEW L \in Nat, NEW last, Onward(L, last), NEW add, NEW E,
         \A i \in 1..L : add[i] \subseteq E, NEW g, Scan(g, L, last, add)
  PROVE  g[1] \subseteq E
<1> DEFINE T == {n \in Nat : n <= L => g[L + 1 - n] \subseteq E}
<1>0. \A i \in 1..(L + 1) : g[i] = IF i > L THEN {} ELSE g[last[i] + 1] \cup add[i]
  BY DEF Scan
<1>1. ASSUME NEW n \in Nat, \A m \in Nat : m < n => m \in T PROVE n \in T
  <2> SUFFICES ASSUME n <= L PROVE g[L + 1 - n] \subseteq E
    OBVIOUS
  <2> DEFINE i == L + 1 - n
  <2>1. i \in 1..(L + 1)
    OBVIOUS
  <2>2. CASE i > L
    BY <1>0, <2>1, <2>2
  <2>3. CASE ~(i > L)
    <3>1. i \in 1..L
      BY <2>1, <2>3
    <3>2. last[i] \in i..L
      BY <3>1 DEF Onward
    <3> DEFINE m == L - last[i]
    <3>3. m \in Nat /\ m < n /\ m <= L /\ L + 1 - m = last[i] + 1
      BY <3>1, <3>2
    <3> HIDE DEF m
    <3>4. g[last[i] + 1] \subseteq E
      BY <1>1, <3>3
    <3> HIDE DEF i
    <3>5. g[i] = g[last[i] + 1] \cup add[i] /\ add[i] \subseteq E
      BY <1>0, <2>1, <2>3, <3>1
    <3> QED BY <3>4, <3>5 DEF i
  <2> QED BY <2>2, <2>3
<1>2. L \in T
  <2> HIDE DEF T
  <2> QED BY <1>1, Courses
<1> QED BY <1>2

\* The scan for objects.
JsonScan(text) ==
  CHOOSE scan : scan = [i \in 1..(Len(text) + 1) |->
    IF i > Len(text) THEN {}
    ELSE LET j == IF text[i] = LBRACE THEN Balance(text, i) ELSE 0
         IN  IF j = 0 THEN scan[i + 1]
             ELSE scan[j + 1] \cup (IF text[i + 1] = "n" THEN {<<i, j>>} ELSE {})]

\* Where an object ends that begins at i; 0: none does.
ObjectEnd(text, i) == IF text[i] = LBRACE THEN Balance(text, i) ELSE 0
\* What a step of the scan takes: the object, or the character.
Consumed(text, i) == IF ObjectEnd(text, i) = 0 THEN i ELSE ObjectEnd(text, i)
\* The span of the inline call at i, if there is one.
CallAt(text, i) ==
  IF ObjectEnd(text, i) # 0 /\ text[i + 1] = "n" THEN {<<i, ObjectEnd(text, i)>>} ELSE {}

\* Where it ends it is an object.
LEMMA ObjectEndIs ==
  ASSUME NEW text \in Seq(Char), NEW i \in 1..Len(text), ObjectEnd(text, i) # 0
  PROVE  ObjectEnd(text, i) \in (i + 1)..Len(text) /\ IsObject(SubSeq(text, i, ObjectEnd(text, i)))
<1>1. text[i] = LBRACE /\ ObjectEnd(text, i) = Balance(text, i)
  BY DEF ObjectEnd
<1> QED BY <1>1, BalancedObject

\* What it finds are inline calls.
LEMMA JsonSpansAre ==
  ASSUME NEW text \in Seq(Char)
  PROVE  JsonSpans(text) \subseteq Envelopes(text)
<1> DEFINE L == Len(text)
           last == [i \in 1..L |-> Consumed(text, i)]
           add == [i \in 1..L |-> CallAt(text, i)]
           Found(g, i) ==
             LET j == IF text[i] = LBRACE THEN Balance(text, i) ELSE 0
             IN  IF j = 0 THEN g[i + 1]
                 ELSE g[j + 1] \cup (IF text[i + 1] = "n" THEN {<<i, j>>} ELSE {})
<1>1. L \in Nat /\ DOMAIN text = 1..L
  OBVIOUS
<1>2. Onward(L, last)
  <2> SUFFICES ASSUME NEW i \in 1..L PROVE Consumed(text, i) \in i..L
    BY DEF Onward
  <2>1. ObjectEnd(text, i) # 0 => ObjectEnd(text, i) \in (i + 1)..L
    BY ObjectEndIs
  <2> HIDE DEF L
  <2> QED BY <1>1, <2>1 DEF Consumed
<1>3. \A i \in 1..L : add[i] \subseteq Envelopes(text)
  <2> SUFFICES ASSUME NEW i \in 1..L, ObjectEnd(text, i) # 0, text[i + 1] = "n"
               PROVE  <<i, ObjectEnd(text, i)>> \in Envelopes(text)
    BY DEF CallAt
  <2> DEFINE j == ObjectEnd(text, i)
             s == SubSeq(text, i, j)
  <2>1. j \in (i + 1)..L /\ IsObject(s)
    BY ObjectEndIs
  <2> HIDE DEF j, L
  <2>2. /\ i \in 1..L /\ j \in 1..L /\ i <= j
    BY <1>1, <2>1
  <2>3. s[2] = "n"
    <3>1. Len(s) = j - i + 1 /\ \A k \in 1..(j - i + 1) : s[k] = text[i + k - 1]
      BY <1>1, <2>1, <2>2 DEF L
    <3>2. 2 \in 1..(j - i + 1) /\ i + 2 - 1 = i + 1
      BY <1>1, <2>1
    <3> QED BY <3>1, <3>2
  <2>4. IsInlineCall(s)
    BY <2>1, <2>3 DEF IsInlineCall
  <2> HIDE DEF s
  <2>5. <<i, j>> \in (DOMAIN text) \X (DOMAIN text) /\ <<i, j>>[1] = i /\ <<i, j>>[2] = j
    BY <1>1, <2>2
  <2> QED BY <2>4, <2>5 DEF Envelopes, s, j
<1> HIDE DEF last, add
<1>4. \A g : Scan(g, L, last, add) <=>
        g = [i \in 1..(Len(text) + 1) |->
              IF i > Len(text) THEN {}
              ELSE Found(g, i)]
  <2> SUFFICES ASSUME NEW g, NEW i \in 1..L
               PROVE  Found(g, i) = g[last[i] + 1] \cup add[i]
    <3>1. ASSUME NEW i \in 1..(L + 1), ~(i > L) PROVE i \in 1..L
      BY <1>1, <3>1
    <3> HIDE DEF L, Found
    <3>2. ASSUME NEW h, \A i \in 1..L : Found(h, i) = h[last[i] + 1] \cup add[i]
          PROVE  [i \in 1..(L + 1) |-> IF i > L THEN {} ELSE h[last[i] + 1] \cup add[i]]
                   = [i \in 1..(L + 1) |-> IF i > L THEN {} ELSE Found(h, i)]
      BY <3>1, <3>2
    <3> QED BY <3>2, Zenon DEF Scan, Found, L
  <2> DEFINE j == ObjectEnd(text, i)
  <2>1. last[i] = (IF j = 0 THEN i ELSE j) /\ add[i] = IF j # 0 /\ text[i + 1] = "n" THEN {<<i, j>>} ELSE {}
    BY DEF last, add, Consumed, CallAt
  <2>2. j = IF text[i] = LBRACE THEN Balance(text, i) ELSE 0
    BY DEF ObjectEnd
  <2> HIDE DEF j
  <2>3. CASE j = 0
    BY <2>1, <2>2, <2>3
  <2>4. CASE j # 0
    BY <2>1, <2>2, <2>4
  <2> QED BY <2>3, <2>4
<1>5. PICK g : Scan(g, L, last, add)
  BY <1>1, <1>2, ScanExists
<1>6. Scan(JsonScan(text), L, last, add)
  <2> HIDE DEF L
  <2> QED BY <1>4, <1>5, Zenon DEF JsonScan
<1>7. JsonSpans(text) = JsonScan(text)[1]
  BY Zenon DEF JsonSpans, JsonScan
<1> HIDE DEF L, JsonScan
<1>8. JsonScan(text)[1] \subseteq Envelopes(text)
  BY <1>1, <1>2, <1>3, <1>6, ScanFinds
<1> QED BY <1>7, <1>8

\* The scan for elements.
XmlScan(text) ==
  CHOOSE scan : scan = [i \in 1..(Len(text) + 1) |->
    IF i > Len(text) THEN {}
    ELSE IF /\ text[i] = "["
            /\ SelectInSubSeq(text, i + 1, Len(text), LAMBDA c : c = "]") > 0
            /\ IsCallBody(Trim(SubSeq(text, i + 1,
                 SelectInSubSeq(text, i + 1, Len(text), LAMBDA c : c = "]") - 1)))
         THEN scan[SelectInSubSeq(text, i + 1, Len(text), LAMBDA c : c = "]") + 1]
                \cup {<<i, SelectInSubSeq(text, i + 1, Len(text), LAMBDA c : c = "]")>>}
         ELSE scan[i + 1]]

\* Where the next end of an element is; 0: there is none.
EndTag(text, i) == SelectInSubSeq(text, i + 1, Len(text), LAMBDA c : c = "]")
\* An element that names a tool begins at i.
IsTagged(text, i) ==
  /\ text[i] = "[" /\ EndTag(text, i) > 0
  /\ IsCallBody(Trim(SubSeq(text, i + 1, EndTag(text, i) - 1)))

\* The next end of an element is one, behind i.
LEMMA EndTagIs ==
  ASSUME NEW text \in Seq(Char), NEW i \in 1..Len(text)
  PROVE  /\ EndTag(text, i) \in Nat
         /\ EndTag(text, i) > 0 =>
              EndTag(text, i) \in (i + 1)..Len(text) /\ text[EndTag(text, i)] = "]"
<1> DEFINE A == {k \in (i + 1)..Len(text) : text[k] = "]"}
<1>1. EndTag(text, i) = IF A # {} THEN Min(A) ELSE 0
  BY DEF EndTag, SelectInSubSeq
<1>2. A \subseteq Nat
  OBVIOUS
<1>3. A # {} => Min(A) \in A
  <2> HIDE DEF A
  <2> QED BY <1>2, MinIs
<1> QED BY <1>1, <1>2, <1>3

\* An element that names a tool is one.
LEMMA TaggedElement ==
  ASSUME NEW text \in Seq(Char), NEW i \in 1..Len(text), IsTagged(text, i)
  PROVE  /\ EndTag(text, i) \in (i + 1)..Len(text)
         /\ IsElement(SubSeq(text, i, EndTag(text, i)))
<1> DEFINE j == EndTag(text, i)
           s == SubSeq(text, i, j)
           b == SubSeq(text, i + 1, j - 1)
<1>1. /\ j \in (i + 1)..Len(text) /\ text[j] = "]" /\ text[i] = "["
      /\ IsCallBody(Trim(b))
  BY EndTagIs DEF IsTagged
<1>0. i \in Nat /\ i >= 1 /\ Len(text) \in Nat
  OBVIOUS
<1> HIDE DEF j
<1>2. /\ s \in Seq(Char) /\ Len(s) = j - i + 1
      /\ \A k \in 1..(j - i + 1) : s[k] = text[i + k - 1]
  BY <1>0, <1>1
<1>3. j > i + 1
  <2> SUFFICES ASSUME j = i + 1 PROVE FALSE
    BY <1>0, <1>1
  <2>1. b = <<>>
    BY <1>0, <1>1
  <2>2. Trim(b) = <<>>
    BY <2>1 DEF Trim
  <2> QED BY <1>1, <2>2 DEF IsCallBody
<1>4. SubSeq(s, 2, Len(s) - 1) = b
  <2>1. Len(s) - 1 = j - i
    BY <1>0, <1>1, <1>2
  <2>a. /\ b \in Seq(Char) /\ Len(b) = j - i - 1
        /\ \A k \in 1..(j - i - 1) : b[k] = text[i + k]
    BY <1>0, <1>1, <1>3
  <2>b. /\ SubSeq(s, 2, j - i) \in Seq(Char) /\ Len(SubSeq(s, 2, j - i)) = j - i - 1
        /\ \A k \in 1..(j - i - 1) : SubSeq(s, 2, j - i)[k] = s[k + 1]
    <3> HIDE DEF s
    <3> QED BY <1>0, <1>1, <1>2, <1>3
  <2>2. /\ SubSeq(s, 2, j - i) \in Seq(Char) /\ b \in Seq(Char)
        /\ Len(SubSeq(s, 2, j - i)) = j - i - 1 /\ Len(b) = j - i - 1
        /\ \A k \in 1..(j - i - 1) : SubSeq(s, 2, j - i)[k] = s[k + 1] /\ b[k] = text[i + k]
    BY <2>a, <2>b
  <2>3. \A k \in 1..(j - i - 1) : SubSeq(s, 2, j - i)[k] = b[k]
    <3> SUFFICES ASSUME NEW k \in 1..(j - i - 1) PROVE SubSeq(s, 2, j - i)[k] = b[k]
      OBVIOUS
    <3>1. k + 1 \in 1..(j - i + 1) /\ i + (k + 1) - 1 = i + k
      BY <1>0, <1>1
    <3> QED BY <1>2, <2>2, <3>1
  <2> DEFINE x == SubSeq(s, 2, j - i)
  <2> HIDE DEF x, b
  <2>4. x = b
    BY <2>2, <2>3, SeqEqual DEF x
  <2> QED BY <2>1, <2>4 DEF x
<1>5. s[1] = "[" /\ s[Len(s)] = "]"
  <2>1. 1 \in 1..(j - i + 1) /\ i + 1 - 1 = i /\ j - i + 1 \in 1..(j - i + 1) /\ i + (j - i + 1) - 1 = j
    BY <1>0, <1>1
  <2> QED BY <1>1, <1>2, <2>1
<1>6. Len(s) > 2
  BY <1>0, <1>1, <1>2, <1>3
<1> HIDE DEF s, b
<1>7. IsElement(s)
  BY <1>1, <1>4, <1>5, <1>6 DEF IsElement
<1> QED BY <1>1, <1>7 DEF s, j

\* What it finds are elements.
LEMMA XmlSpansAre ==
  ASSUME NEW text \in Seq(Char)
  PROVE  XmlSpans(text) \subseteq Envelopes(text)
<1> DEFINE L == Len(text)
           last == [i \in 1..L |-> IF IsTagged(text, i) THEN EndTag(text, i) ELSE i]
           add == [i \in 1..L |-> IF IsTagged(text, i) THEN {<<i, EndTag(text, i)>>} ELSE {}]
           Found(g, i) == IF IsTagged(text, i) THEN g[EndTag(text, i) + 1] \cup {<<i, EndTag(text, i)>>}
                          ELSE g[i + 1]
<1>1. L \in Nat /\ DOMAIN text = 1..L
  OBVIOUS
<1>2. Onward(L, last)
  <2> SUFFICES ASSUME NEW i \in 1..L PROVE last[i] \in i..L
    BY DEF Onward
  <2>1. IsTagged(text, i) => EndTag(text, i) \in (i + 1)..L
    BY TaggedElement
  <2> HIDE DEF L
  <2> QED BY <1>1, <2>1
<1>3. \A i \in 1..L : add[i] \subseteq Envelopes(text)
  <2> SUFFICES ASSUME NEW i \in 1..L, IsTagged(text, i)
               PROVE  <<i, EndTag(text, i)>> \in Envelopes(text)
    OBVIOUS
  <2> DEFINE j == EndTag(text, i)
             s == SubSeq(text, i, j)
  <2>1. j \in (i + 1)..L /\ IsElement(s)
    BY TaggedElement
  <2> HIDE DEF j, L, s
  <2>5. <<i, j>> \in (DOMAIN text) \X (DOMAIN text) /\ <<i, j>>[1] = i /\ <<i, j>>[2] = j
    BY <1>1, <2>1
  <2> QED BY <2>1, <2>5 DEF Envelopes, s, j
<1>4. \A g : Scan(g, L, last, add) <=>
        g = [i \in 1..(Len(text) + 1) |-> IF i > Len(text) THEN {} ELSE Found(g, i)]
  <2> SUFFICES ASSUME NEW g, NEW i \in 1..L
               PROVE  Found(g, i) = g[last[i] + 1] \cup add[i]
    <3>1. ASSUME NEW i \in 1..(L + 1), ~(i > L) PROVE i \in 1..L
      BY <1>1, <3>1
    <3> HIDE DEF L, Found, last, add
    <3>2. ASSUME NEW h, \A i \in 1..L : Found(h, i) = h[last[i] + 1] \cup add[i]
          PROVE  [i \in 1..(L + 1) |-> IF i > L THEN {} ELSE h[last[i] + 1] \cup add[i]]
                   = [i \in 1..(L + 1) |-> IF i > L THEN {} ELSE Found(h, i)]
      BY <3>1, <3>2
    <3> QED BY <3>2, Zenon DEF Scan, Found, L
  <2>1. CASE IsTagged(text, i)
    BY <2>1
  <2>2. CASE ~IsTagged(text, i)
    BY <2>2
  <2> QED BY <2>1, <2>2
<1> HIDE DEF last, add
<1>5. PICK g : Scan(g, L, last, add)
  BY <1>1, <1>2, ScanExists
<1>6. Scan(XmlScan(text), L, last, add)
  <2>1. Scan(XmlScan(text), L, last, add) <=>
        XmlScan(text) = [i \in 1..(Len(text) + 1) |-> IF i > Len(text) THEN {} ELSE Found(XmlScan(text), i)]
    BY <1>4, Zenon
  <2>2. \E h : h = [i \in 1..(Len(text) + 1) |-> IF i > Len(text) THEN {} ELSE Found(h, i)]
    BY <1>4, <1>5, Zenon
  <2>3. XmlScan(text) = [i \in 1..(Len(text) + 1) |-> IF i > Len(text) THEN {} ELSE Found(XmlScan(text), i)]
    BY <2>2, Zenon DEF XmlScan, IsTagged, EndTag
  <2> QED BY <2>1, <2>3
<1>7. XmlSpans(text) = XmlScan(text)[1]
  BY Zenon DEF XmlSpans, XmlScan
<1> HIDE DEF L, XmlScan
<1>8. XmlScan(text)[1] \subseteq Envelopes(text)
  BY <1>1, <1>2, <1>3, <1>6, ScanFinds
<1> QED BY <1>7, <1>8

\* What is cut from a text are envelopes.
LEMMA SpansAreEnvelopes ==
  ASSUME NEW text \in Seq(Char)
  PROVE  extract_tool_calls_with_spans(text) \in SUBSET Envelopes(text)
BY JsonSpansAre, XmlSpansAre DEF extract_tool_calls_with_spans

-----------------------------------------------------------------------------
(* The text of frames.                                                     *)

\* The text of frames, if they begin a text's frames.
LEMMA UntaggedPrefix ==
  ASSUME NEW S, NEW x \in Seq(Frame), NEW y \in Seq(Frame), NEW kind, NEW t \in Seq(S),
         x \o y = Tagged(kind, t)
  PROVE  /\ Untagged(x) \in Seq(S) /\ Len(Untagged(x)) = Len(x)
         /\ IsPrefix(Untagged(x), t)
         /\ y = <<>> => Untagged(x) = t
<1> DEFINE u == Untagged(x)
           F == {kind} \X S
<1>1. Len(x) \in Nat /\ Len(y) \in Nat /\ Len(t) \in Nat /\ DOMAIN x = 1..Len(x)
  OBVIOUS
<1>2. /\ Len(x \o y) = Len(x) + Len(y)
      /\ \A i \in 1..Len(x) : (x \o y)[i] = x[i]
  OBVIOUS
<1>3. /\ Len(Tagged(kind, t)) = Len(t)
      /\ \A i \in 1..Len(t) : Tagged(kind, t)[i] = <<kind, t[i]>>
  <2>1. Puts(kind, S, F)
    BY DEF Puts
  <2> HIDE DEF F
  <2> QED BY <2>1, TaggedIs
<1>4. Len(x) + Len(y) = Len(t) /\ \A i \in 1..Len(x) : x[i] = <<kind, t[i]>>
  <2>1. Len(x) + Len(y) = Len(t)
    BY <1>2, <1>3
  <2>2. \A i \in 1..Len(x) : i \in 1..Len(t)
    BY <1>1, <2>1
  <2> QED BY <1>2, <1>3, <2>1, <2>2
<1>5. u = [i \in 1..Len(x) |-> x[i][2]]
  BY <1>1 DEF Untagged
<1>6. \A i \in 1..Len(x) : x[i][2] = t[i] /\ t[i] \in S
  <2>1. \A i \in 1..Len(x) : i \in 1..Len(t)
    BY <1>1, <1>4
  <2>2. \A i \in 1..Len(t) : t[i] \in S
    OBVIOUS
  <2>3. \A e : <<kind, e>>[2] = e
    OBVIOUS
  <2> QED BY <1>4, <2>1, <2>2, <2>3
<1>7. u \in Seq(S) /\ Len(u) = Len(x) /\ \A i \in 1..Len(x) : u[i] = t[i]
  <2> DEFINE n == Len(x)
             f == [i \in 1..n |-> t[i]]
  <2>1. u = f
    BY <1>5, <1>6
  <2>2. n \in Nat /\ \A i \in 1..n : t[i] \in S
    BY <1>1, <1>6
  <2> HIDE DEF u, n
  <2>3. f \in Seq(S) /\ Len(f) = n /\ \A i \in 1..n : f[i] = t[i]
    BY <2>2
  <2> QED BY <2>1, <2>3 DEF n
<1> HIDE DEF u
<1>8. IsPrefix(u, t)
  <2>1. Len(u) <= Len(t)
    BY <1>1, <1>4, <1>7
  <2> QED BY <1>7, <2>1, PrefixBy
<1>9. ASSUME y = <<>> PROVE u = t
  <2>1. Len(u) = Len(t)
    BY <1>1, <1>4, <1>7, <1>9
  <2> QED BY <1>7, <2>1, SeqEqual
<1> QED BY <1>7, <1>8, <1>9 DEF u

\* The text of a text's frames.
LEMMA UntaggedTagged ==
  ASSUME NEW t \in Seq(Char)
  PROVE  Untagged(Tagged("content", t)) = t
<1>1. Tagged("content", t) \in Seq(Frame) /\ <<>> \in Seq(Frame)
  BY TaggedFrames, Joins
<1>2. Tagged("content", t) \o <<>> = Tagged("content", t)
  BY <1>1, Joins
<1> DEFINE x == Tagged("content", t)
<1> HIDE DEF x
<1>3. x \in Seq(Frame) /\ x \o <<>> = Tagged("content", t)
  BY <1>1, <1>2 DEF x
<1>4. Untagged(x) = t
  BY <1>1, <1>3, UntaggedPrefix
<1> QED BY <1>4 DEF x

\* More frames, more text.
LEMMA UntaggedGrows ==
  ASSUME NEW S, NEW x \in Seq(Frame), NEW w \in Seq(Frame),
         Untagged(x) \in Seq(S), Untagged(x \o w) \in Seq(S)
  PROVE  IsPrefix(Untagged(x), Untagged(x \o w))
<1> DEFINE u == Untagged(x)
           v == Untagged(x \o w)
<1>1. /\ Len(x) \in Nat /\ Len(w) \in Nat /\ DOMAIN x = 1..Len(x)
      /\ DOMAIN (x \o w) = 1..(Len(x) + Len(w))
      /\ \A i \in 1..Len(x) : (x \o w)[i] = x[i]
  OBVIOUS
<1>2. /\ u = [i \in 1..Len(x) |-> x[i][2]]
      /\ v = [i \in 1..(Len(x) + Len(w)) |-> (x \o w)[i][2]]
  BY <1>1 DEF Untagged
<1>3. Len(u) = Len(x) /\ Len(v) = Len(x) + Len(w)
  BY <1>1, <1>2
<1>4. \A i \in 1..Len(x) : i \in 1..(Len(x) + Len(w))
  BY <1>1
<1>5. \A i \in 1..Len(x) : u[i] = v[i]
  BY <1>1, <1>2, <1>4
<1> HIDE DEF u, v
<1>6. Len(u) <= Len(v) /\ u \in Seq(S) /\ v \in Seq(S)
  BY <1>1, <1>3 DEF u, v
<1>7. IsPrefix(u, v)
  BY <1>3, <1>5, <1>6, PrefixBy
<1> QED BY <1>7 DEF u, v

-----------------------------------------------------------------------------
(* What the stripper has let through, and what is shown of it.             *)

\* The phases in which more of the reply may come to be shown.
Streaming == {"stream", "tail"}

\* What the stripper let through of the text so far is what it would have let
\* through of it in one piece; at the end that is all that is visible.
TextInv ==
  /\ phase = "stream" =>
       Push[Strip(FALSE, sent)]
         = [out |-> said, in_think |-> strip.in_think, pending |-> strip.pending]
  /\ phase = "tail" => said = Visible[sent]

\* It is in the frames, written or to come, or all of it in the buffer.
ShownInv ==
  phase \in Streaming =>
    /\ Flow(co, {"thought"}) = Tagged("thought", thought)
    /\ Live => Flow(co, {"content"}) = Tagged("content", base \o said)
    /\ ~Live => Flow(co, {"content"}) = <<>> /\ buffer = base \o said

\* The invariant the refinement rests on.
RInv == IInv /\ TextInv /\ ShownInv

\* Of the kinds, one by one.
LEMMA OneKind ==
  /\ \A s \in Seq({"r"}) :
       /\ OfKind(Tagged("thought", s), {"thought"}) = Tagged("thought", s)
       /\ OfKind(Tagged("thought", s), {"content"}) = <<>>
  /\ \A t \in Seq(Char) :
       /\ OfKind(Tagged("content", t), {"content"}) = Tagged("content", t)
       /\ OfKind(Tagged("content", t), {"thought"}) = <<>>
BY OfKindTagged

\* A chunk adds to what is shown, or is to be, what it adds to what was said.
LEMMA OnChunkShows ==
  ASSUME ReplyInv, HeldInv, ShownInv, phase \in Streaming, UNCHANGED mode,
         NEW s \in Seq({"r"}), NEW t \in Seq(Char), OnChunk(s, t)
  PROVE  /\ Flow(co', {"thought"}) = Tagged("thought", thought \o s)
         /\ Live => Flow(co', {"content"}) = Tagged("content", base \o said')
         /\ ~Live => Flow(co', {"content"}) = <<>> /\ buffer' = base \o said'
<1>1. /\ \A K : Flow(co', K) = (Flow(co, K) \o OfKind(Tagged("thought", s), K))
                     \o (IF Live THEN OfKind(Tagged("content", t), K) ELSE <<>>)
      /\ said' = said \o t
      /\ buffer' = IF Live THEN buffer ELSE buffer \o t
  BY OnChunkIs
<1>2. /\ Flow(co, {"thought"}) = Tagged("thought", thought)
      /\ Live => Flow(co, {"content"}) = Tagged("content", base \o said)
      /\ ~Live => Flow(co, {"content"}) = <<>> /\ buffer = base \o said
  BY DEF ShownInv
<1>3. /\ Flow(co', {"thought"})
           = (Tagged("thought", thought) \o Tagged("thought", s)) \o <<>>
      /\ Flow(co', {"content"})
           = (Flow(co, {"content"}) \o <<>>) \o (IF Live THEN Tagged("content", t) ELSE <<>>)
  <2>1. Flow(co', {"thought"}) = (Flow(co, {"thought"}) \o OfKind(Tagged("thought", s), {"thought"}))
                     \o (IF Live THEN OfKind(Tagged("content", t), {"thought"}) ELSE <<>>)
    BY <1>1
  <2>2. Flow(co', {"content"}) = (Flow(co, {"content"}) \o OfKind(Tagged("thought", s), {"content"}))
                     \o (IF Live THEN OfKind(Tagged("content", t), {"content"}) ELSE <<>>)
    BY <1>1
  <2> QED BY <1>2, <2>1, <2>2, OneKind, Zenon
<1>4. /\ thought \in Seq({"r"}) /\ base \in Seq(Char) /\ said \in Seq(Char)
      /\ base \o said \in Seq(Char) /\ thought \o s \in Seq({"r"})
  BY DEF ReplyInv
<1>5. /\ Tagged("thought", thought) \o Tagged("thought", s) = Tagged("thought", thought \o s)
      /\ Tagged("thought", thought \o s) \in Seq(Frame)
  BY <1>4, TaggedConcat, TaggedFrames
<1>6. (base \o said) \o t = base \o (said \o t)
  <2>1. Regroups(base, said, t)
    BY <1>4, TextRegroups
  <2> QED BY <2>1 DEF Regroups
<1>7. /\ Tagged("content", base \o said) \o Tagged("content", t) = Tagged("content", (base \o said) \o t)
      /\ Tagged("content", base \o said) \in Seq(Frame)
      /\ Tagged("content", t) \in Seq(Frame)
  <2> DEFINE x == base \o said
  <2>1. x \in Seq(Char)
    BY <1>4
  <2> HIDE DEF x
  <2>2. /\ Tagged("content", x \o t) = Tagged("content", x) \o Tagged("content", t)
        /\ Tagged("content", x) \in Seq(Frame) /\ Tagged("content", t) \in Seq(Frame)
    BY <2>1, TaggedConcat, TaggedFrames
  <2> QED BY <2>2 DEF x
<1>8. Flow(co', {"thought"}) = Tagged("thought", thought \o s)
  BY <1>3, <1>5, Joins
<1>9. Live => Flow(co', {"content"}) = Tagged("content", base \o said')
  BY <1>1, <1>2, <1>3, <1>6, <1>7, Joins
<1>10. ~Live => Flow(co', {"content"}) = <<>> /\ buffer' = base \o said'
  BY <1>1, <1>2, <1>3, <1>6, Joins
<1> QED BY <1>8, <1>9, <1>10

-----------------------------------------------------------------------------
(* It stays so.                                                            *)

\* A new stripper has let nothing through and holds nothing.
LEMMA FreshStrip ==
  Push[Strip(FALSE, <<>>)] = [out |-> <<>>, in_think |-> FALSE, pending |-> <<>>]
<1> DEFINE e == Strip(FALSE, <<>>)
<1>1. <<>> \in Seq(Char) /\ FALSE \in BOOLEAN
  OBVIOUS
<1>2. e \in Stripper /\ e.in_think = FALSE /\ e.pending = <<>>
  BY <1>1, StripIs
<1>3. NoTag(<<>>, FALSE)
  BY DEF NoTag, Opens, Closes
<1> HIDE DEF e
<1>4. Push[e] = LoopEnd(<<>>, FALSE)
  BY <1>2, <1>3, PushQuiet DEF LoopEnd
<1>5. PICK a, k \in Seq(Char) : EndsAs(<<>>, FALSE, a, k)
  BY <1>1, <1>3, EndsIs
<1>6. <<>> = a \o k /\ LoopEnd(<<>>, FALSE) = [out |-> a, in_think |-> FALSE, pending |-> k]
  BY <1>5 DEF EndsAs, Shown
<1>7. a = <<>> /\ k = <<>>
  <2>1. Len(a \o k) = Len(a) + Len(k) /\ Len(a) \in Nat /\ Len(k) \in Nat
    BY TextJoin
  <2>2. Len(a \o k) = 0
    BY <1>6
  <2>3. Len(a) = 0 /\ Len(k) = 0
    BY <2>1, <2>2
  <2> QED BY <2>3
<1> QED BY <1>4, <1>6, <1>7 DEF e

\* At the start.
LEMMA InitShows ==
  ASSUME Init
  PROVE  TextInv /\ ShownInv
<1>1. TextInv
  BY FreshStrip DEF Init, TextInv
<1>2. Flow(co, {"thought"}) = <<>> /\ Flow(co, {"content"}) = <<>>
  <2>1. \A K : OfKind(<<>>, K) = <<>>
    BY PickEmpty DEF OfKind
  <2>2. <<>> \o (<<>> \o <<>>) = <<>>
    BY Joins
  <2> QED BY <2>1, <2>2, TaggedEmpty DEF Init, Flow
<1>3. <<>> \o <<>> = <<>>
  OBVIOUS
<1>4. ShownInv
  BY <1>2, <1>3, TaggedEmpty DEF Init, ShownInv
<1> QED BY <1>1, <1>4

\* The phase, the mode and the base of a chunk.
LEMMA ChunkShows ==
  ASSUME RInv, Chunk
  PROVE  TextInv' /\ ShownInv'
<1>1. PICK piece \in Seq(Char), s \in Seq({"r"}) :
        LET p == Push[Strip(strip.in_think, strip.pending \o piece)]
        IN  /\ p \in Pushed /\ PartOfTag(p.pending)
            /\ sent' = sent \o piece /\ thought' = thought \o s
            /\ strip' = [in_think |-> p.in_think, pending |-> p.pending]
            /\ OnChunk(s, p.out)
  BY ChunkIs DEF RInv
<1>2. mode' = mode /\ base' = base /\ phase = "stream" /\ phase' = "stream"
  BY DEF Chunk
<1>i. IInv /\ ReplyInv /\ HeldInv /\ TextInv /\ ShownInv
  BY DEF RInv, IInv
<1> DEFINE p == Push[Strip(strip.in_think, strip.pending \o piece)]
<1>3. /\ p \in Pushed
      /\ sent' = sent \o piece /\ thought' = thought \o s
      /\ strip' = [in_think |-> p.in_think, pending |-> p.pending]
      /\ OnChunk(s, p.out)
  BY <1>1
<1>4. p.out \in Seq(Char)
  <2> HIDE DEF p
  <2> QED BY <1>3 DEF Pushed
<1>5. said' = said \o p.out
  BY <1>3 DEF OnChunk
<1>6. TextInv'
  <2> DEFINE S == Strip(FALSE, sent)
             q == Push[S]
  <2>1. S \in Stripper /\ S.in_think = FALSE /\ S.pending = sent
    BY <1>i, StripIs DEF ReplyInv
  <2>2. q.out = said /\ q.in_think = strip.in_think /\ q.pending = strip.pending
    <3>1. q = [out |-> said, in_think |-> strip.in_think, pending |-> strip.pending]
      BY <1>2, <1>i DEF TextInv
    <3> HIDE DEF q
    <3> QED BY <3>1
  <2> HIDE DEF S
  <2>3. Push[Strip(S.in_think, S.pending \o piece)]
          = Emit(q.out, Push[Strip(q.in_think, q.pending \o piece)])
    BY <2>1, PushResumes
  <2> HIDE DEF q
  <2>4. Push[Strip(FALSE, sent \o piece)] = Emit(said, p)
    BY <2>1, <2>2, <2>3
  <2>5. Emit(said, p) = [out |-> said \o p.out, in_think |-> p.in_think, pending |-> p.pending]
    <3>1. said \in Seq(Char)
      BY <1>i DEF ReplyInv
    <3> HIDE DEF p
    <3>2. /\ Emit(said, p) \in Pushed /\ Emit(said, p).out = said \o p.out
          /\ Emit(said, p).in_think = p.in_think /\ Emit(said, p).pending = p.pending
      BY <1>3, <3>1, EmitIs
    <3> QED BY <3>2 DEF Pushed
  <2> HIDE DEF p, OnChunk
  <2>6. strip'.in_think = p.in_think /\ strip'.pending = p.pending
    BY <1>3
  <2> QED BY <1>2, <1>3, <1>5, <2>4, <2>5, <2>6 DEF TextInv
<1>7. ShownInv'
  <2> HIDE DEF p
  <2>1. phase \in Streaming /\ phase' \in Streaming
    BY <1>2 DEF Streaming
  <2>2. /\ Flow(co', {"thought"}) = Tagged("thought", thought \o s)
        /\ Live => Flow(co', {"content"}) = Tagged("content", base \o said')
        /\ ~Live => Flow(co', {"content"}) = <<>> /\ buffer' = base \o said'
    BY <1>2, <1>3, <1>4, <1>i, <2>1, OnChunkShows
  <2>3. Live' = Live
    BY <1>2 DEF Live, should_buffer_tool_content
  <2> HIDE DEF OnChunk
  <2> QED BY <1>2, <1>3, <2>2, <2>3 DEF ShownInv
<1> QED BY <1>6, <1>7

\* At the end of the stream what the stripper holds goes the same way.
LEMMA StreamEndsShows ==
  ASSUME RInv, StreamEnds
  PROVE  TextInv' /\ ShownInv'
<1>1. /\ mode' = mode /\ base' = base /\ phase = "stream" /\ phase' = "tail"
      /\ sent' = sent /\ thought' = thought /\ OnChunk(<<>>, Flush(strip))
  BY DEF StreamEnds
<1>i. IInv /\ ReplyInv /\ HeldInv /\ TextInv /\ ShownInv
  BY DEF RInv, IInv
<1>2. Flush(strip) \in Seq(Char) /\ <<>> \in Seq({"r"})
  BY <1>i DEF Flush, ReplyInv, Stripper
<1>3. said' = said \o Flush(strip)
  BY <1>1 DEF OnChunk
<1>4. said' = Visible[sent]
  <2> DEFINE S == Strip(FALSE, sent)
             q == Push[S]
  <2>1. S \in Stripper /\ S.in_think = FALSE /\ S.pending = sent
    BY <1>i, StripIs DEF ReplyInv
  <2>2. q.out = said /\ q.in_think = strip.in_think /\ q.pending = strip.pending
    <3>1. q = [out |-> said, in_think |-> strip.in_think, pending |-> strip.pending]
      BY <1>1, <1>i DEF TextInv
    <3> HIDE DEF q
    <3> QED BY <3>1
  <2> HIDE DEF S
  <2>3. q.out \o Flush(q) = VisibleOf(S)
    BY <2>1, PushVisible
  <2> HIDE DEF q
  <2>4. Flush(q) = Flush(strip)
    BY <2>2 DEF Flush
  <2>5. VisibleOf(S) = Visible[sent]
    BY <1>i, <2>1, VisibleIs DEF VisibleOf, ReplyInv
  <2> QED BY <1>3, <2>2, <2>3, <2>4, <2>5
<1>5. TextInv'
  BY <1>1, <1>4 DEF TextInv
<1>6. ShownInv'
  <2>1. phase \in Streaming /\ phase' \in Streaming
    BY <1>1 DEF Streaming
  <2>2. /\ Flow(co', {"thought"}) = Tagged("thought", thought \o <<>>)
        /\ Live => Flow(co', {"content"}) = Tagged("content", base \o said')
        /\ ~Live => Flow(co', {"content"}) = <<>> /\ buffer' = base \o said'
    BY <1>1, <1>2, <1>i, <2>1, OnChunkShows
  <2>3. Live' = Live
    BY <1>1 DEF Live, should_buffer_tool_content
  <2>4. thought \o <<>> = thought
    BY <1>i DEF ReplyInv
  <2> HIDE DEF OnChunk
  <2> QED BY <1>1, <2>2, <2>3, <2>4 DEF ShownInv
<1> QED BY <1>5, <1>6

\* A new request begins with a new stripper, behind the text there is.
LEMMA OverflowShows ==
  ASSUME RInv, Overflow
  PROVE  TextInv' /\ ShownInv'
<1>1. /\ mode' = mode /\ base' = base \o said /\ phase = "stream" /\ phase' = "stream"
      /\ sent' = <<>> /\ said' = <<>> /\ thought' = thought /\ co' = co /\ buffer' = buffer
      /\ strip' = [in_think |-> FALSE, pending |-> <<>>]
  BY DEF Overflow
<1>2. TextInv'
  BY <1>1, FreshStrip DEF TextInv
<1>3. (base \o said) \o <<>> = base \o said
  BY DEF RInv, IInv, ReplyInv
<1>4. ShownInv'
  <2>1. base' \o said' = base \o said
    BY <1>1, <1>3
  <2>2. Live' = Live
    BY <1>1 DEF Live, should_buffer_tool_content
  <2> QED BY <1>1, <2>1, <2>2 DEF RInv, ShownInv, Streaming
<1> QED BY <1>2, <1>4

\* The other actions do not touch it, or end the reply.
LEMMA OtherShows ==
  ASSUME RInv, ToolDelta \/ StreamFails \/ PostStream \/ ToolRows
  PROVE  TextInv' /\ ShownInv'
<1>1. CASE ToolDelta
  <2>1. /\ mode' = mode /\ base' = base /\ phase' = phase /\ sent' = sent /\ said' = said
        /\ thought' = thought /\ co' = co /\ buffer' = buffer /\ strip' = strip
    BY <1>1 DEF ToolDelta
  <2> QED BY <2>1 DEF RInv, TextInv, ShownInv, Live, should_buffer_tool_content
<1>2. CASE StreamFails \/ PostStream \/ ToolRows
  <2>1. phase' \notin Streaming
    BY <1>2 DEF StreamFails, PostStream, ToolRows, Streaming
  <2> QED BY <2>1 DEF TextInv, ShownInv, Streaming
<1> QED BY <1>1, <1>2

\* The stripper lets through exactly the text that is visible, however the reply
\* is cut into pieces, and all of it is shown or kept in its order.
THEOREM StrippedText == Spec => []RInv
<1>1. Init => RInv
  BY InitKeeps, InitShows DEF RInv
<1>2. RInv /\ [Next]_vars => RInv'
  <2> SUFFICES ASSUME RInv, [Next]_vars PROVE RInv'
    OBVIOUS
  <2>1. IInv'
    <3>1. CASE UNCHANGED vars
      BY <3>1 DEF RInv, vars, replyVars, IInv, ReplyInv, HeldInv, FlowInv, Live,
                should_buffer_tool_content
    <3>2. CASE Next
      BY <3>2, ChunkKeeps, OtherKeeps, StreamEndsKeeps, PostStreamKeeps, ToolRowsKeeps
      DEF Next, RInv
    <3> QED BY <3>1, <3>2
  <2>2. TextInv' /\ ShownInv'
    <3>1. CASE UNCHANGED vars
      BY <3>1 DEF RInv, vars, replyVars, TextInv, ShownInv, Live, should_buffer_tool_content
    <3>2. CASE Next
      BY <3>2, ChunkShows, StreamEndsShows, OverflowShows, OtherShows DEF Next
    <3> QED BY <3>1, <3>2
  <2> QED BY <2>1, <2>2 DEF RInv
<1> QED BY <1>1, <1>2, PTL DEF Spec

\* DeliveredText reads a text as StreamPipeline does: its copies of ReplyText's
\* operators are the same ones.  What is visible of a text:
LEMMA SameVisible == Delivered!Visible = Visible
BY Zenon DEF Delivered!Visible, Visible, Delivered!Opens, Opens, Delivered!Closes, Closes,
   Delivered!Has, Has, Delivered!Pick, Pick, Delivered!OPEN, OPEN, Delivered!CLOSE, CLOSE,
   Delivered!Char, Char, Delivered!LBRACE, LBRACE, Delivered!RBRACE, RBRACE

\* what is left of it without some spans,
LEMMA SameOutside == \A t, s : Delivered!Outside(t, s) = Outside(t, s)
BY Zenon DEF Delivered!Outside, Outside, Delivered!Pick, Pick

\* without the white space around it,
LEMMA SameTrim == \A t : Delivered!Trim(t) = Trim(t)
BY Zenon DEF Delivered!Trim, Trim, Delivered!Min, Min, Delivered!Max, Max

\* whether it echoes the schemas,
LEMMA SameBleeds == \A t : Delivered!Bleeds(t) <=> Bleeds(t)
BY Zenon DEF Delivered!Bleeds, Bleeds, Delivered!Contains, Contains

\* what it begins with,
LEMMA SamePrefix == \A s, t : Delivered!IsPrefix(s, t) <=> IsPrefix(s, t)
BY Zenon DEF Delivered!IsPrefix, IsPrefix

\* how deep its braces go,
LEMMA SameDepth == \A s, i : Delivered!Depth(s, i) = Depth(s, i)
BY Zenon DEF Delivered!Depth, Depth, Delivered!InString, InString,
   Delivered!Cardinality, Cardinality, Delivered!IsFiniteSet, IsFiniteSet,
   Delivered!LBRACE, LBRACE, Delivered!RBRACE, RBRACE

\* whether it is an object,
LEMMA SameObject == \A s : Delivered!IsObject(s) <=> IsObject(s)
BY SameDepth, Zenon DEF Delivered!IsObject, IsObject,
   Delivered!LBRACE, LBRACE, Delivered!RBRACE, RBRACE

\* an inline call,
LEMMA SameCall == \A s : Delivered!IsInlineCall(s) <=> IsInlineCall(s)
BY SameObject DEF Delivered!IsInlineCall, IsInlineCall

\* the body of an element,
LEMMA SameBody == \A s : Delivered!IsCallBody(s) <=> IsCallBody(s)
BY SameObject DEF Delivered!IsCallBody, IsCallBody

\* an element,
LEMMA SameElement == \A s : Delivered!IsElement(s) <=> IsElement(s)
BY SameBody, SameTrim DEF Delivered!IsElement, IsElement

\* and where its envelopes are.
LEMMA SameEnvelopes == \A s : Delivered!Envelopes(s) = Envelopes(s)
BY SameCall, SameElement, Zenon DEF Delivered!Envelopes, Envelopes

-----------------------------------------------------------------------------
(* What the user has seen.                                                 *)

\* What the frames of a coalescer have of a kind.
FramesText(c, k) == Untagged(OfKind(c.frames, {k}))

\* Of what is written or to come the user has seen the beginning, and all of it
\* once nothing is held.
LEMMA SeenIs ==
  ASSUME NEW S, NEW c \in Coalescer, NEW k, NEW t \in Seq(S), Flow(c, {k}) = Tagged(k, t)
  PROVE  /\ FramesText(c, k) \in Seq(S) /\ IsPrefix(FramesText(c, k), t)
         /\ c.content = <<>> /\ c.reasoning = <<>> => FramesText(c, k) = t
<1> DEFINE x == OfKind(c.frames, {k})
           y == OfKind(Tagged("thought", c.reasoning), {k})
                  \o OfKind(Tagged("content", c.content), {k})
<1>1. x \in Seq(Frame) /\ y \in Seq(Frame)
  BY CoalescerIs, OfKindType, Joins
<1>2. x \o y = Tagged(k, t)
  BY DEF Flow
<1>3. c.content = <<>> /\ c.reasoning = <<>> => y = <<>>
  <2> SUFFICES ASSUME c.content = <<>>, c.reasoning = <<>> PROVE y = <<>>
    OBVIOUS
  <2> QED BY NothingTagged, Joins
<1> HIDE DEF x, y
<1>4. /\ Untagged(x) \in Seq(S) /\ IsPrefix(Untagged(x), t)
      /\ y = <<>> => Untagged(x) = t
  BY <1>1, <1>2, UntaggedPrefix
<1> QED BY <1>3, <1>4 DEF FramesText, x

\* What was seen stays seen.
LEMMA SeenStays ==
  ASSUME NEW S, NEW c \in Coalescer, NEW d \in Coalescer, Grows(c, d), NEW k,
         FramesText(c, k) \in Seq(S), FramesText(d, k) \in Seq(S)
  PROVE  IsPrefix(FramesText(c, k), FramesText(d, k))
<1>1. PICK w \in Seq(Frame) : d.frames = c.frames \o w
  BY DEF Grows
<1> DEFINE x == OfKind(c.frames, {k})
           v == OfKind(w, {k})
<1>2. x \in Seq(Frame) /\ v \in Seq(Frame)
  BY CoalescerIs, OfKindType
<1>3. OfKind(d.frames, {k}) = x \o v
  <2>1. c.frames \in Seq(Frame)
    BY CoalescerIs
  <2>2. \A f, g \in Seq(Frame) : OfKind(f \o g, {k}) = OfKind(f, {k}) \o OfKind(g, {k})
    BY OfKindFrames
  <2>3. OfKind(c.frames \o w, {k}) = OfKind(c.frames, {k}) \o OfKind(w, {k})
    BY <2>1, <2>2, Zenon
  <2> QED BY <1>1, <2>3
<1> HIDE DEF x, v
<1>4. Untagged(x) \in Seq(S) /\ Untagged(x \o v) \in Seq(S)
  BY <1>3 DEF FramesText, x
<1>5. IsPrefix(Untagged(x), Untagged(x \o v))
  BY <1>2, <1>4, UntaggedGrows
<1> QED BY <1>3, <1>5 DEF FramesText, x

\* What the stripper lets through is the beginning of what is visible.
LEMMA LetThrough ==
  ASSUME NEW t \in Seq(Char)
  PROVE  /\ Visible[t] \in Seq(Char)
         /\ IsPrefix(Push[Strip(FALSE, t)].out, Visible[t])
<1> DEFINE S == Strip(FALSE, t)
           q == Push[S]
<1>1. S \in Stripper /\ S.in_think = FALSE /\ S.pending = t
  BY StripIs
<1> HIDE DEF S
<1>2. q \in Pushed /\ q.out \o Flush(q) = VisibleOf(S)
  BY <1>1, PushType, PushVisible
<1>3. VisibleOf(S) = Visible[t]
  BY <1>1, VisibleIs DEF VisibleOf
<1> HIDE DEF q
<1>4. q.out \in Seq(Char) /\ Flush(q) \in Seq(Char)
  BY <1>2 DEF Pushed, Flush
<1>5. q.out \o Flush(q) \in Seq(Char)
  BY <1>4, TextJoin
<1>6. IsPrefix(q.out, q.out \o Flush(q))
  BY <1>4, PrefixOfConcat
<1> QED BY <1>2, <1>3, <1>5, <1>6 DEF q, S

\* In an open reply the user has seen the beginning of its text and thoughts.
SeenInv ==
  phase \in Streaming =>
    /\ Visible[sent] \in Seq(Char)
    /\ IsPrefix(base \o said, base \o Visible[sent])
    /\ Chars("content") \in Seq(Char) /\ IsPrefix(Chars("content"), base \o said)
    /\ ~Live => Chars("content") = <<>>
    /\ Chars("thought") \in Seq({"r"}) /\ IsPrefix(Chars("thought"), thought)

\* It follows from what the stripper let through and what is shown of it.
LEMMA SeenHolds == RInv => SeenInv
<1> SUFFICES ASSUME RInv, phase \in Streaming
             PROVE  /\ Visible[sent] \in Seq(Char)
                    /\ IsPrefix(base \o said, base \o Visible[sent])
                    /\ Chars("content") \in Seq(Char) /\ IsPrefix(Chars("content"), base \o said)
                    /\ ~Live => Chars("content") = <<>>
                    /\ Chars("thought") \in Seq({"r"}) /\ IsPrefix(Chars("thought"), thought)
  BY DEF SeenInv
<1>i. /\ ReplyInv /\ HeldInv /\ TextInv /\ ShownInv
      /\ sent \in Seq(Char) /\ said \in Seq(Char) /\ base \in Seq(Char) /\ co \in Coalescer
      /\ thought \in Seq({"r"})
  BY DEF RInv, IInv, ReplyInv, HeldInv
<1>1. Visible[sent] \in Seq(Char) /\ IsPrefix(said, Visible[sent])
  <2>1. CASE phase = "stream"
    <3> DEFINE q == Push[Strip(FALSE, sent)]
    <3>0. q = [out |-> said, in_think |-> strip.in_think, pending |-> strip.pending]
      BY <1>i, <2>1 DEF TextInv
    <3>1. q.out = said
      <4> HIDE DEF q
      <4> QED BY <3>0
    <3> QED BY <1>i, <3>1, LetThrough
  <2>2. CASE phase = "tail"
    <3>1. said = Visible[sent]
      BY <1>i, <2>2 DEF TextInv
    <3>2. IsPrefix(said, said)
      BY <1>i, PrefixBy
    <3> QED BY <1>i, <3>1, <3>2
  <2> QED BY <2>1, <2>2 DEF Streaming
<1>2. IsPrefix(base \o said, base \o Visible[sent])
  BY <1>i, <1>1, PrefixOn
<1>3. /\ Flow(co, {"thought"}) = Tagged("thought", thought)
      /\ Live => Flow(co, {"content"}) = Tagged("content", base \o said)
      /\ ~Live => Flow(co, {"content"}) = <<>>
  BY <1>i DEF ShownInv
<1>4. Chars("content") = FramesText(co, "content") /\ Chars("thought") = FramesText(co, "thought")
  BY DEF Chars, FramesText
<1>5. FramesText(co, "thought") \in Seq({"r"}) /\ IsPrefix(FramesText(co, "thought"), thought)
  BY <1>i, <1>3, SeenIs
<1>6. CASE Live
  <2> DEFINE t == base \o said
  <2>1. t \in Seq(Char) /\ Flow(co, {"content"}) = Tagged("content", t)
    BY <1>i, <1>3, <1>6
  <2> HIDE DEF t
  <2>2. FramesText(co, "content") \in Seq(Char) /\ IsPrefix(FramesText(co, "content"), t)
    BY <1>i, <2>1, SeenIs
  <2> QED BY <1>1, <1>2, <1>4, <1>5, <1>6, <2>2 DEF t
<1>7. CASE ~Live
  <2>1. <<>> \in Seq(Char) /\ Flow(co, {"content"}) = Tagged("content", <<>>)
    BY <1>3, <1>7, TaggedEmpty
  <2>2. FramesText(co, "content") \in Seq(Char) /\ IsPrefix(FramesText(co, "content"), <<>>)
    BY <1>i, <2>1, SeenIs
  <2>3. FramesText(co, "content") = <<>>
    BY <2>2 DEF IsPrefix
  <2>4. base \o said \in Seq(Char)
    BY <1>i
  <2>5. IsPrefix(<<>>, base \o said)
    <3>1. \A t \in Seq(Char) : <<>> \o t = t
      OBVIOUS
    <3>2. \A t \in Seq(Char) : IsPrefix(<<>>, <<>> \o t)
      BY <2>1, PrefixOfConcat
    <3> QED BY <2>4, <3>1, <3>2
  <2> QED BY <1>1, <1>2, <1>4, <1>5, <1>7, <2>1, <2>3, <2>5
<1> QED BY <1>6, <1>7

-----------------------------------------------------------------------------
(* StreamPipeline implements DeliveredText.                                *)

\* What a chunk, or the end of the stream, does to what the host sees.
LEMMA ArrivalIs ==
  ASSUME IInv, Chunk \/ StreamEnds
  PROVE  /\ phase = "stream" /\ phase' \in Streaming /\ base' = base
         /\ IsPrefix(sent, sent') /\ IsPrefix(thought, thought')
         /\ Grows(co, co') /\ co \in Coalescer /\ co' \in Coalescer
<1>i. ReplyInv /\ HeldInv /\ sent \in Seq(Char) /\ thought \in Seq({"r"}) /\ co \in Coalescer
  BY DEF IInv, ReplyInv, HeldInv
<1>1. /\ phase = "stream" /\ phase' \in Streaming /\ base' = base /\ mode' = mode
  BY DEF Chunk, StreamEnds, Streaming
<1>2. PICK piece \in Seq(Char), s \in Seq({"r"}), t \in Seq(Char) :
        sent' = sent \o piece /\ thought' = thought \o s /\ OnChunk(s, t)
  <2>1. CASE Chunk
    <3>1. PICK piece \in Seq(Char), s \in Seq({"r"}) :
            LET p == Push[Strip(strip.in_think, strip.pending \o piece)]
            IN  /\ p \in Pushed /\ PartOfTag(p.pending)
                /\ sent' = sent \o piece /\ thought' = thought \o s
                /\ strip' = [in_think |-> p.in_think, pending |-> p.pending]
                /\ OnChunk(s, p.out)
      BY <2>1, ChunkIs
    <3> DEFINE p == Push[Strip(strip.in_think, strip.pending \o piece)]
    <3> HIDE DEF OnChunk
    <3>2. p \in Pushed /\ sent' = sent \o piece /\ thought' = thought \o s /\ OnChunk(s, p.out)
      BY <3>1
    <3> HIDE DEF p
    <3>3. p.out \in Seq(Char)
      BY <3>2 DEF Pushed
    <3> QED BY <3>2, <3>3
  <2>2. CASE StreamEnds
    <3>1. /\ sent' = sent /\ thought' = thought /\ OnChunk(<<>>, Flush(strip))
      BY <2>2 DEF StreamEnds
    <3>2. Flush(strip) \in Seq(Char) /\ <<>> \in Seq({"r"}) /\ <<>> \in Seq(Char)
      BY <1>i DEF Flush, ReplyInv, Stripper
    <3>3. sent \o <<>> = sent /\ thought \o <<>> = thought
      BY <1>i
    <3> HIDE DEF OnChunk
    <3> QED BY <3>1, <3>2, <3>3
  <2> QED BY <2>1, <2>2
<1>3. co' \in Coalescer /\ Grows(co, co')
  BY <1>1, <1>2, <1>i, OnChunkIs
<1>4. IsPrefix(sent, sent') /\ IsPrefix(thought, thought')
  <2>1. IsPrefix(sent, sent \o piece) /\ IsPrefix(thought, thought \o s)
    BY <1>i, PrefixOfConcat
  <2> QED BY <1>2, <2>1
<1> QED BY <1>1, <1>3, <1>4, <1>i

\* A chunk, and the end of the stream, show as more of the text.
LEMMA ArrivalImplements ==
  ASSUME IInv, IInv', SeenInv, SeenInv', Chunk \/ StreamEnds
  PROVE  Delivered!Stream
<1>1. /\ phase = "stream" /\ phase' \in Streaming /\ base' = base
      /\ IsPrefix(sent, sent') /\ IsPrefix(thought, thought')
      /\ Grows(co, co') /\ co \in Coalescer /\ co' \in Coalescer
  BY ArrivalIs
<1>2. Chars("content") \in Seq(Char) /\ Chars("thought") \in Seq({"r"})
  BY <1>1 DEF SeenInv, Streaming
<1>3. /\ Visible[sent'] \in Seq(Char)
      /\ IsPrefix(base' \o said', base' \o Visible[sent'])
      /\ Chars("content")' \in Seq(Char) /\ IsPrefix(Chars("content")', base' \o said')
      /\ Chars("thought")' \in Seq({"r"}) /\ IsPrefix(Chars("thought")', thought')
  BY <1>1 DEF SeenInv
<1>4. \A k : Chars(k) = FramesText(co, k) /\ Chars(k)' = FramesText(co', k)
  BY DEF Chars, FramesText
<1>5. /\ IsPrefix(Chars("content"), Chars("content")')
      /\ IsPrefix(Chars("thought"), Chars("thought")')
  BY <1>1, <1>2, <1>3, <1>4, SeenStays
<1>6. IsPrefix(Chars("content")', base' \o Visible[sent'])
  <2> DEFINE x == Chars("content")'
             y == base' \o said'
             z == base' \o Visible[sent']
  <2>1. x \in Seq(Char) /\ y \in Seq(Char) /\ z \in Seq(Char) /\ IsPrefix(x, y) /\ IsPrefix(y, z)
    BY <1>3 DEF IInv, ReplyInv
  <2> HIDE DEF x, y, z
  <2>2. IsPrefix(x, z)
    BY <2>1, PrefixOn
  <2> QED BY <2>2 DEF x, z
<1> QED BY <1>1, <1>3, <1>5, <1>6, SamePrefix, SameVisible
     DEF Delivered!Stream, Delivered!Text, Streaming

\* An overflow in the stream shows as a new request, behind what was said.
LEMMA OverflowImplements ==
  ASSUME IInv, SeenInv, Overflow
  PROVE  Delivered!Restart
<1>1. /\ phase = "stream" /\ phase' = "stream" /\ sent' = <<>> /\ base' = base \o said
      /\ thought' = thought /\ co' = co
  BY DEF Overflow
<1>2. Chars("content")' = Chars("content") /\ Chars("thought")' = Chars("thought")
  BY <1>1 DEF Chars
<1>3. IsPrefix(Chars("content"), base') /\ IsPrefix(base', base \o Visible[sent])
  BY <1>1 DEF SeenInv, Streaming
<1> QED BY <1>1, <1>2, <1>3, SamePrefix, SameVisible DEF Delivered!Restart, Delivered!Text

\* A failed stream shows nothing more.
LEMMA FailureImplements ==
  ASSUME StreamFails
  PROVE  Delivered!Drop
<1>1. /\ phase = "stream" /\ phase' = "failed"
      /\ UNCHANGED <<sent, thought, base, co>>
  BY DEF StreamFails, replyVars
<1>2. Chars("content")' = Chars("content") /\ Chars("thought")' = Chars("thought")
  BY <1>1 DEF Chars
<1> QED BY <1>1, <1>2 DEF Delivered!Drop

\* A call's row is no text.
LEMMA RowsImplement ==
  ASSUME IInv, ToolRows
  PROVE  Delivered!Act
<1>1. /\ phase = "calls" /\ phase' = "acting"
      /\ UNCHANGED <<mode, replyVars, buffer, released, base, retries>>
      /\ co.content = <<>> /\ co.reasoning = <<>>
      /\ co' \in Coalescer /\ co'.content = <<>> /\ co'.reasoning = <<>>
      /\ \A K : "row" \notin K => Flow(co', K) = Flow(co, K)
  BY ToolRowsIs
<1>2. co \in Coalescer
  BY DEF IInv, HeldInv
<1>3. ASSUME NEW k \in {"content", "thought"} PROVE Chars(k)' = Chars(k)
  <2>1. Flow(co', {k}) = Flow(co, {k})
    BY <1>1
  <2>2. Flow(co', {k}) = OfKind(co'.frames, {k}) /\ Flow(co, {k}) = OfKind(co.frames, {k})
    BY <1>1, <1>2, NothingHeldBack
  <2>3. OfKind(co'.frames, {k}) = OfKind(co.frames, {k})
    BY <2>1, <2>2
  <2> QED BY <2>3 DEF Chars
<1> QED BY <1>1, <1>3 DEF Delivered!Act, replyVars

\* Once nothing is held the user has seen what was shown.
LEMMA AllSeen ==
  ASSUME NEW S, NEW c \in Coalescer, NEW k, NEW t \in Seq(S), Flow(c, {k}) = Tagged(k, t),
         c.content = <<>>, c.reasoning = <<>>
  PROVE  FramesText(c, k) = t
BY SeenIs

\* The answer, and what of it is text.
LEMMA AnswerText ==
  ASSUME buffer \in Seq(Char)
  PROVE  /\ OfKind(Answer, {"thought"}) = <<>>
         /\ \/ /\ Synth /\ extract_tool_calls_with_spans(buffer) # {}
               /\ clean_envelope_remainder(buffer) \in Seq(Char)
               /\ OfKind(Answer, {"content"})
                    = Tagged("content", clean_envelope_remainder(buffer))
            \/ /\ schema_bleed_tripped
               /\ OfKind(Answer, {"content"}) = <<>>
            \/ OfKind(Answer, {"content"}) = Tagged("content", buffer)
<1> DEFINE rest == clean_envelope_remainder(buffer)
           note == Note("schema_bleed")
           spans == extract_tool_calls_with_spans(buffer)
<1>1. rest \in Seq(Char)
  <2>1. Outside(buffer, spans) \in Seq(Char)
    BY OutsideType
  <2> QED BY <2>1, TrimType DEF clean_envelope_remainder
<1>2. OfKind(note, {"thought"}) = <<>> /\ OfKind(note, {"content"}) = <<>>
  <2> DEFINE N == {"note"} \X Notes
  <2>1. <<"note", "schema_bleed">> \in N
    BY DEF Notes
  <2>2. note \in Seq(N)
    BY <2>1, Single DEF Note
  <2>3. \A e \in N : e[1] \notin {"thought"} /\ e[1] \notin {"content"}
    OBVIOUS
  <2> HIDE DEF N, note
  <2> QED BY <2>2, <2>3, OfKindNone
<1>3. <<>> \in Seq(Char) /\ Tagged("content", <<>>) = <<>>
  BY TaggedEmpty
<1> HIDE DEF rest, note, spans
<1>4. \/ buffer = <<>> /\ Answer = Tagged("content", buffer)
      \/ Synth /\ spans # {} /\ Answer = Tagged("content", rest)
      \/ schema_bleed_tripped /\ Answer = note
      \/ Answer = Tagged("content", buffer)
  BY <1>3 DEF Answer, rest, note, spans
<1>5. ASSUME NEW t \in Seq(Char)
      PROVE  /\ OfKind(Tagged("content", t), {"content"}) = Tagged("content", t)
             /\ OfKind(Tagged("content", t), {"thought"}) = <<>>
  BY OneKind
<1> QED BY <1>1, <1>2, <1>4, <1>5 DEF rest, spans

\* The end of the reply shows all that was not shown yet, without the written-out
\* calls, or nothing of an echo of the schemas.
LEMMA PostStreamImplements ==
  ASSUME RInv, SeenInv, PostStream
  PROVE  Delivered!Complete
<1>i. /\ IInv /\ ReplyInv /\ HeldInv /\ TextInv /\ ShownInv
      /\ thought \in Seq({"r"}) /\ base \in Seq(Char) /\ said \in Seq(Char)
      /\ co \in Coalescer /\ buffer \in Seq(Char)
  BY DEF RInv, IInv, ReplyInv, HeldInv
<1>1. /\ phase = "tail" /\ phase' \in {"calls", "answered"}
      /\ Synth => phase' = "calls"
      /\ schema_bleed_tripped => phase' = "answered"
      /\ sent' = sent /\ thought' = thought /\ base' = base
      /\ Answer \in Seq(Frame) /\ (buffer = <<>> => Answer = <<>>)
      /\ co' \in Coalescer /\ co'.content = <<>> /\ co'.reasoning = <<>>
  BY <1>i, PostStreamIs DEF replyVars
<1>2. /\ Flow(co', {"thought"}) = Flow(co, {"thought"}) \o OfKind(Answer, {"thought"})
      /\ Flow(co', {"content"}) = Flow(co, {"content"}) \o OfKind(Answer, {"content"})
  <2>1. \A K : "note" \notin K => Flow(co', K) = Flow(co, K) \o OfKind(Answer, K)
    BY <1>i, PostStreamIs
  <2> QED BY <2>1
<1>3. /\ Flow(co, {"thought"}) = Tagged("thought", thought)
      /\ Live => Flow(co, {"content"}) = Tagged("content", base \o said) /\ buffer = <<>>
      /\ ~Live => Flow(co, {"content"}) = <<>> /\ buffer = base \o said
  BY <1>1, <1>i DEF ShownInv, Streaming, HeldInv
<1>4. OfKind(Answer, {"thought"}) = <<>>
  BY <1>i, AnswerText
<1>5. Chars("thought")' = thought
  <2>1. Tagged("thought", thought) \in Seq(Frame)
    BY <1>i, TaggedFrames
  <2>2. Flow(co', {"thought"}) = Tagged("thought", thought)
    BY <1>2, <1>3, <1>4, <2>1, Joins
  <2>3. FramesText(co', "thought") = thought
    BY <1>1, <1>i, <2>2, AllSeen
  <2> QED BY <2>3 DEF Chars, FramesText
<1>6. ASSUME NEW t \in Seq(Char), Flow(co', {"content"}) = Tagged("content", t)
      PROVE  Chars("content")' = t
  <2>1. FramesText(co', "content") = t
    BY <1>1, <1>6, AllSeen
  <2> QED BY <2>1 DEF Chars, FramesText
<1>7. said = Visible[sent]
  BY <1>1, <1>i DEF TextInv
<1>8. IsPrefix(Chars("content"), base \o said) /\ (~Live => Chars("content") = <<>>)
  BY <1>1 DEF SeenInv, Streaming
<1> DEFINE text == base \o said
<1>9. text \in Seq(Char)
  BY <1>i
<1>10. Delivered!Text = text
  BY <1>7, SameVisible DEF Delivered!Text
<1>11. IsPrefix(Chars("content"), text)
  BY <1>8
<1>12. ~Live => buffer = text
  BY <1>3
<1>13. Live => Flow(co, {"content"}) = Tagged("content", text)
  BY <1>3
<1> HIDE DEF text
<1>14. CASE Chars("content")' = text
  <2>1. Delivered!IsPrefix(Chars("content"), Chars("content")')
    BY <1>11, <1>14, SamePrefix
  <2>2. Delivered!Verbatim
    BY <1>1, <1>7, <1>10, <1>14, SameVisible DEF Delivered!Verbatim, Delivered!Text
  <2> QED BY <1>1, <1>5, <2>1, <2>2 DEF Delivered!Complete
<1>15. CASE Live
  <2>1. Tagged("content", text) \in Seq(Frame)
    BY <1>9, TaggedFrames
  <2>2. OfKind(Answer, {"content"}) = <<>>
    <3>1. Answer = <<>> /\ \A K : OfKind(<<>>, K) = <<>>
      BY <1>1, <1>3, <1>15, PickEmpty DEF OfKind
    <3> QED BY <3>1
  <2>3. Flow(co', {"content"}) = Tagged("content", text)
    BY <1>2, <1>13, <1>15, <2>1, <2>2, Joins
  <2> QED BY <1>6, <1>9, <1>14, <2>3
<1>16. CASE ~Live
  <2>1. Chars("content") = <<>> /\ Flow(co, {"content"}) = <<>> /\ buffer = text
    BY <1>3, <1>8, <1>12, <1>16
  <2>2. OfKind(Answer, {"content"}) \in Seq(Frame)
    BY <1>1, OfKindType
  <2>3. Flow(co', {"content"}) = OfKind(Answer, {"content"})
    BY <1>2, <2>1, <2>2, Joins
  <2>4. \A t \in Seq(Char) : Delivered!IsPrefix(Chars("content"), t)
    <3>1. <<>> \in Seq(Char) /\ \A t \in Seq(Char) : <<>> \o t = t
      OBVIOUS
    <3>2. \A t \in Seq(Char) : IsPrefix(<<>>, <<>> \o t)
      BY <3>1, PrefixOfConcat
    <3> QED BY <2>1, <3>1, <3>2, SamePrefix
  <2> DEFINE spans == extract_tool_calls_with_spans(text)
             rest == clean_envelope_remainder(text)
  <2>5. CASE Synth /\ spans # {} /\ rest \in Seq(Char)
               /\ OfKind(Answer, {"content"}) = Tagged("content", rest)
    <3>1. Chars("content")' = rest
      BY <1>6, <2>3, <2>5
    <3>2. spans \in SUBSET Delivered!Envelopes(text)
      BY <1>9, SpansAreEnvelopes, SameEnvelopes
    <3>3. rest = Delivered!Trim(Delivered!Outside(text, spans))
      BY SameTrim, SameOutside DEF clean_envelope_remainder
    <3> HIDE DEF spans, rest
    <3>4. Delivered!Stripped
      BY <1>1, <1>10, <2>5, <3>1, <3>2, <3>3 DEF Delivered!Stripped
    <3> QED BY <1>1, <1>5, <2>4, <2>5, <3>1, <3>4 DEF Delivered!Complete
  <2>6. CASE schema_bleed_tripped /\ OfKind(Answer, {"content"}) = <<>>
    <3>1. <<>> \in Seq(Char) /\ Tagged("content", <<>>) = <<>>
      BY TaggedEmpty
    <3>2. Chars("content")' = <<>>
      BY <1>6, <2>3, <2>6, <3>1
    <3>3. Delivered!Bleeds(text)
      BY <2>1, <2>6, SameBleeds DEF schema_bleed_tripped
    <3>4. Delivered!Refused
      BY <1>1, <1>10, <2>6, <3>2, <3>3 DEF Delivered!Refused
    <3> QED BY <1>1, <1>5, <2>4, <3>1, <3>2, <3>4 DEF Delivered!Complete
  <2>7. CASE OfKind(Answer, {"content"}) = Tagged("content", text)
    BY <1>6, <1>9, <1>14, <2>3, <2>7
  <2>8. \/ /\ Synth /\ extract_tool_calls_with_spans(buffer) # {}
           /\ clean_envelope_remainder(buffer) \in Seq(Char)
           /\ OfKind(Answer, {"content"}) = Tagged("content", clean_envelope_remainder(buffer))
        \/ schema_bleed_tripped /\ OfKind(Answer, {"content"}) = <<>>
        \/ OfKind(Answer, {"content"}) = Tagged("content", buffer)
    BY <1>i, AnswerText
  <2> QED BY <2>1, <2>5, <2>6, <2>7, <2>8
<1> QED BY <1>15, <1>16

\* A native fragment, or no step at all, shows nothing.
LEMMA SilentImplements ==
  ASSUME ToolDelta \/ UNCHANGED vars
  PROVE  UNCHANGED Delivered!vars
<1>1. phase' = phase /\ sent' = sent /\ thought' = thought /\ base' = base /\ co' = co
  BY DEF ToolDelta, vars, replyVars
<1> QED BY <1>1 DEF Delivered!vars, Chars

\* The reply as the user sees it is what DeliveredText promises.
THEOREM PipelineImplementsDelivered == Spec => Refinement
<1>1. Init => Delivered!Init
  <2> SUFFICES ASSUME Init PROVE Delivered!Init
    OBVIOUS
  <2>1. \A K : OfKind(<<>>, K) = <<>>
    BY PickEmpty DEF OfKind
  <2>2. Untagged(<<>>) = <<>>
    BY DEF Untagged
  <2>3. co.frames = <<>>
    BY DEF Init
  <2>4. Chars("content") = <<>> /\ Chars("thought") = <<>>
    BY <2>1, <2>2, <2>3 DEF Chars
  <2> QED BY <2>4 DEF Init, Delivered!Init
<1>2. RInv => SeenInv
  BY SeenHolds
<1>3. RInv /\ RInv' /\ SeenInv /\ SeenInv' /\ [Next]_vars
      => [Delivered!Next]_(Delivered!vars)
  <2> SUFFICES ASSUME RInv, RInv', SeenInv, SeenInv', [Next]_vars
               PROVE  [Delivered!Next]_(Delivered!vars)
    OBVIOUS
  <2>1. IInv /\ IInv'
    BY DEF RInv
  <2>3. CASE Chunk \/ StreamEnds
    BY <2>1, <2>3, ArrivalImplements DEF Delivered!Next
  <2>4. CASE Overflow
    BY <2>1, <2>4, OverflowImplements DEF Delivered!Next
  <2>5. CASE StreamFails
    BY <2>5, FailureImplements DEF Delivered!Next
  <2>6. CASE PostStream
    BY <2>1, <2>6, PostStreamImplements DEF Delivered!Next
  <2>7. CASE ToolRows
    BY <2>1, <2>7, RowsImplement DEF Delivered!Next
  <2>8. CASE ToolDelta \/ UNCHANGED vars
    BY <2>8, SilentImplements
  <2> QED BY <2>3, <2>4, <2>5, <2>6, <2>7, <2>8 DEF Next
<1> QED BY <1>1, <1>2, <1>3, StrippedText, PTL DEF Spec, Refinement, Delivered!Spec
=================================================================================
