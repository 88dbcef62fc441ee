-------------------------- MODULE ConnectionProofs --------------------------
(***************************************************************************)
(* What holds of every link of connections, for any links, sizes of        *)
(* buffers, messages and ways the kernel cuts the stream: types and sizes, *)
(* the order of the bytes, and that messages which fit arrive whole.  The  *)
(* module that has connections shows that all it does to them are the      *)
(* steps below.                                                            *)
(*                                                                         *)
(* FlattenSeq puts any number of strings together.  What it gives is found *)
(* out by looking for the least number of strings for which it would be    *)
(* otherwise: there is none.                                               *)
(***************************************************************************)
EXTENDS Connection, SequenceTheorems, WellFoundedInduction, NaturalsInduction, TLAPS

-----------------------------------------------------------------------------
(* Strings put together                                                      *)

\* A set of natural numbers that is not empty has a least element: the form in
\* which induction on naturals is used below.
LEMMA LeastElement ==
  ASSUME NEW T \in SUBSET Nat, T # {}
  PROVE  \E m \in T : \A n \in T : m <= n
<1>1. IsWellFoundedOn(OpToRel(<, Nat), Nat)
  BY NatLessThanWellFounded
<1>2. \E m \in T : \A n \in T : ~(<<n, m>> \in OpToRel(<, Nat))
  BY <1>1, WFMin
<1>3. \E m \in T : \A n \in T : ~(n < m)
  BY <1>2 DEF OpToRel
<1> QED BY <1>3

-----------------------------------------------------------------------------
(* Sequences put one after another *)

\* f collects the first n members of s, one after another.
IsFlattening(f, s, n) ==
  f = [i \in 1..n |-> IF i = 1 THEN s[i] ELSE f[i - 1] \o s[i]]

\* The recursion of FlattenSeq has a solution of every length.
LEMMA FlatteningExists ==
  ASSUME NEW s, NEW k \in Nat
  PROVE  \E f : IsFlattening(f, s, k)
<1> DEFINE T == {m \in Nat : ~\E f : IsFlattening(f, s, m)}
<1>1. SUFFICES ASSUME T # {} PROVE FALSE
  OBVIOUS
<1>2. PICK m \in T : \A n \in T : m <= n
  BY <1>1, LeastElement
<1>3. m # 0
  <2>1. IsFlattening([i \in 1..0 |-> s], s, 0)
    BY DEF IsFlattening
  <2> QED BY <2>1, <1>2
<1>4. m \in Nat /\ m - 1 \in Nat /\ m - 1 \notin T
  BY <1>2, <1>3
<1>5. PICK f : IsFlattening(f, s, m - 1)
  BY <1>4
<1> DEFINE g == [i \in 1..m |-> IF i < m THEN f[i] ELSE IF m = 1 THEN s[m] ELSE f[m - 1] \o s[m]]
<1>6. IsFlattening(g, s, m)
  <2>1. ASSUME NEW i \in 1..m
        PROVE  g[i] = IF i = 1 THEN s[i] ELSE g[i - 1] \o s[i]
    <3>1. i # 1 => g[i - 1] = f[i - 1]
      BY <1>4
    <3>2. CASE i < m
      <4>1. g[i] = f[i]
        BY <3>2
      <4>2. f[i] = IF i = 1 THEN s[i] ELSE f[i - 1] \o s[i]
        <5>1. i \in 1..m - 1
          BY <3>2, <1>4
        <5> QED BY <5>1, <1>5 DEF IsFlattening
      <4> QED BY <4>1, <4>2, <3>1
    <3>3. CASE i = m
      BY <3>3, <3>1, <1>3
    <3> QED BY <3>2, <3>3, <1>4
  <2> QED BY <2>1 DEF IsFlattening
<1> QED BY <1>6, <1>2

\* The recursion has one solution only.
LEMMA FlatteningUnique ==
  ASSUME NEW s, NEW k \in Nat, NEW f, NEW g, IsFlattening(f, s, k), IsFlattening(g, s, k)
  PROVE  f = g
<1> DEFINE T == {i \in 1..k : f[i] # g[i]}
<1>0. f = [i \in 1..k |-> f[i]] /\ g = [i \in 1..k |-> g[i]]
  BY DEF IsFlattening
<1>1. SUFFICES ASSUME T # {} PROVE FALSE
  BY <1>0
<1>2. PICK i \in T : \A j \in T : i <= j
  <2>1. T \in SUBSET Nat
    OBVIOUS
  <2> QED BY <2>1, <1>1, LeastElement
<1>3. i \in 1..k
  BY <1>2
<1>4. /\ f[i] = IF i = 1 THEN s[i] ELSE f[i - 1] \o s[i]
      /\ g[i] = IF i = 1 THEN s[i] ELSE g[i - 1] \o s[i]
  BY <1>3 DEF IsFlattening
<1>5. i # 1
  BY <1>2, <1>3, <1>4
<1>6. i - 1 \in 1..k /\ i - 1 \notin T
  BY <1>2, <1>3, <1>5
<1>7. f[i - 1] = g[i - 1]
  BY <1>6
<1> QED BY <1>2, <1>3, <1>4, <1>5, <1>7

\* FlattenSeq is what its recursion says.
LEMMA FlattenIsFlattening ==
  ASSUME NEW s, Len(s) \in Nat, Len(s) # 0
  PROVE  \E f : IsFlattening(f, s, Len(s)) /\ FlattenSeq(s) = f[Len(s)]
<1> DEFINE f == CHOOSE flatten :
       flatten = [i \in 1..Len(s) |-> IF i = 1 THEN s[i] ELSE flatten[i - 1] \o s[i]]
<1>1. \E g : IsFlattening(g, s, Len(s))
  BY FlatteningExists
<1>2. IsFlattening(f, s, Len(s))
  BY <1>1 DEF IsFlattening
<1>3. FlattenSeq(s) = f[Len(s)]
  BY DEF FlattenSeq
<1> QED BY <1>2, <1>3

\* No strings put together are the empty one.
LEMMA FlattenEmpty ==
  FlattenSeq(<<>>) = <<>>
BY DEF FlattenSeq

\* What is put after the last member comes after everything else.
LEMMA FlattenAppend ==
  ASSUME NEW S, NEW s \in Seq(Seq(S)), NEW x \in Seq(S)
  PROVE  FlattenSeq(Append(s, x)) = FlattenSeq(s) \o x
<1> DEFINE t == Append(s, x)
           n == Len(s)
<1>1. /\ n \in Nat /\ Len(t) = n + 1 /\ t \in Seq(Seq(S))
      /\ \A i \in 1..n : t[i] = s[i]
      /\ t[n + 1] = x
  BY AppendProperties, LenProperties
<1>2. PICK g : IsFlattening(g, t, n + 1) /\ FlattenSeq(t) = g[n + 1]
  <2>1. Len(t) \in Nat /\ Len(t) # 0
    BY <1>1
  <2>2. \E g : IsFlattening(g, t, Len(t)) /\ FlattenSeq(t) = g[Len(t)]
    <3> HIDE DEF t
    <3> QED BY <2>1, FlattenIsFlattening
  <2> HIDE DEF t, n
  <2> QED BY <1>1, <2>2
<1>3. g[n + 1] = IF n + 1 = 1 THEN x ELSE g[n] \o x
  <2>1. n + 1 \in 1..n + 1 /\ (n + 1) - 1 = n
    BY <1>1
  <2> HIDE DEF t
  <2> QED BY <1>1, <1>2, <2>1 DEF IsFlattening
<1>4. CASE n = 0
  <2>1. s = <<>>
    BY <1>4, EmptySeq
  <2>2. <<>> \o x = x
    BY ConcatEmptySeq
  <2> QED BY <1>2, <1>3, <1>4, <2>1, <2>2, FlattenEmpty
<1>5. CASE n # 0
  <2> DEFINE h == [i \in 1..n |-> g[i]]
  <2>1. PICK f : IsFlattening(f, s, n) /\ FlattenSeq(s) = f[n]
    BY <1>1, <1>5, FlattenIsFlattening
  <2>2. IsFlattening(h, s, n)
    <3>1. ASSUME NEW i \in 1..n
          PROVE  h[i] = IF i = 1 THEN s[i] ELSE h[i - 1] \o s[i]
      <4>1. i \in 1..n + 1 /\ i \in Nat /\ (i # 1 => i - 1 \in 1..n) /\ t[i] = s[i]
        BY <1>1
      <4>2. g[i] = IF i = 1 THEN t[i] ELSE g[i - 1] \o t[i]
        BY <4>1, <1>2 DEF IsFlattening
      <4> HIDE DEF t
      <4> QED BY <4>1, <4>2
    <3> QED BY <3>1 DEF IsFlattening
  <2>3. h = f
    <3> HIDE DEF h, n
    <3> QED BY <1>1, <2>1, <2>2, FlatteningUnique
  <2>4. f[n] = g[n]
    BY <2>3, <1>1, <1>5
  <2> QED BY <1>1, <1>2, <1>3, <1>5, <2>1, <2>4
<1> QED BY <1>4, <1>5

\* Three sequences, one after another.
LEMMA Regroup ==
  ASSUME NEW S, NEW a \in Seq(S), NEW b \in Seq(S), NEW c \in Seq(S)
  PROVE  /\ a \o b \in Seq(S) /\ b \o c \in Seq(S)
         /\ (a \o b) \o c = a \o (b \o c)
  BY ConcatAssociative, ConcatProperties

\* z is a and then b.  As a relation, so that the provers need not look for
\* the right way to put many sequences together.
Joined(a, b, z) == a \in Seq(Chars) /\ b \in Seq(Chars) /\ z = a \o b

\* Any two strings can be joined.
LEMMA JoinExists ==
  ASSUME NEW a \in Seq(Chars), NEW b \in Seq(Chars)
  PROVE  \E z \in Seq(Chars) : Joined(a, b, z)
BY ConcatProperties DEF Joined

\* Joining is associative.
LEMMA JoinAssociative ==
  ASSUME NEW a, NEW b, NEW c, NEW z, NEW ab, NEW bc, Joined(a, b, ab), Joined(b, c, bc)
  PROVE  Joined(ab, c, z) <=> Joined(a, bc, z)
<1>1. a \in Seq(Chars) /\ b \in Seq(Chars) /\ c \in Seq(Chars)
  BY DEF Joined
<1>2. (a \o b) \o c = a \o (b \o c) /\ a \o b \in Seq(Chars) /\ b \o c \in Seq(Chars)
  BY <1>1, Regroup
<1>3. ab = a \o b /\ bc = b \o c
  BY DEF Joined
<1> QED BY <1>1, <1>2, <1>3 DEF Joined

\* a with b and c after it is a and b with c after them.
LEMMA JoinLeft ==
  ASSUME NEW a, NEW b, NEW c, NEW z, NEW ab, NEW bc,
         Joined(a, b, ab), Joined(b, c, bc), Joined(a, bc, z)
  PROVE  Joined(ab, c, z)
BY JoinAssociative

\* The other way round.
LEMMA JoinRight ==
  ASSUME NEW a, NEW b, NEW c, NEW z, NEW ab, NEW bc,
         Joined(a, b, ab), Joined(b, c, bc), Joined(ab, c, z)
  PROVE  Joined(a, bc, z)
BY JoinAssociative

\* What is where in the two.
LEMMA JoinedAt ==
  ASSUME NEW a, NEW b, NEW z, Joined(a, b, z)
  PROVE  /\ a \in Seq(Chars) /\ b \in Seq(Chars) /\ z \in Seq(Chars)
         /\ Len(a) \in Nat /\ Len(b) \in Nat /\ Len(z) = Len(a) + Len(b)
         /\ \A i \in 1..Len(a) : z[i] = a[i]
         /\ \A i \in 1..Len(b) : z[Len(a) + i] = b[i]
<1>1. a \in Seq(Chars) /\ b \in Seq(Chars) /\ z = a \o b
  BY DEF Joined
<1>2. Len(a) \in Nat /\ Len(b) \in Nat
  BY <1>1, LenProperties
<1>3. /\ a \o b \in Seq(Chars) /\ Len(a \o b) = Len(a) + Len(b)
      /\ \A i \in 1..Len(a) + Len(b) : (a \o b)[i] = IF i <= Len(a) THEN a[i] ELSE b[i - Len(a)]
  BY <1>1, ConcatProperties
<1>4. /\ z \in Seq(Chars) /\ Len(z) = Len(a) + Len(b)
      /\ \A i \in 1..Len(a) + Len(b) : z[i] = IF i <= Len(a) THEN a[i] ELSE b[i - Len(a)]
  BY <1>1, <1>3, Zenon
<1>5. \A i \in 1..Len(a) : z[i] = a[i]
  BY <1>2, <1>4
<1>6. ASSUME NEW i \in 1..Len(b) PROVE z[Len(a) + i] = b[i]
  <2>1. Len(a) + i \in 1..Len(a) + Len(b) /\ ~(Len(a) + i <= Len(a)) /\ Len(a) + i - Len(a) = i
    BY <1>2
  <2> QED BY <2>1, <1>4
<1> QED BY <1>1, <1>2, <1>4, <1>5, <1>6

\* The result is made of what the members are made of.
LEMMA FlattenTyped ==
  ASSUME NEW S, NEW s \in Seq(Seq(S))
  PROVE  FlattenSeq(s) \in Seq(S)
<1> DEFINE n == Len(s)
<1>1. n \in Nat /\ \A i \in 1..n : s[i] \in Seq(S)
  BY LenProperties, ElementOfSeq
<1>2. CASE n = 0
  <2>1. s = <<>>
    BY <1>2, EmptySeq
  <2> QED BY <2>1, FlattenEmpty, EmptySeq
<1>3. CASE n # 0
  <2>1. PICK f : IsFlattening(f, s, n) /\ FlattenSeq(s) = f[n]
    BY <1>1, <1>3, FlattenIsFlattening
  <2> DEFINE T == {i \in 1..n : f[i] \notin Seq(S)}
  <2>2. T = {}
    <3>1. SUFFICES ASSUME T # {} PROVE FALSE
      OBVIOUS
    <3>2. PICK i \in T : \A j \in T : i <= j
      <4>1. T \in SUBSET Nat
        BY <1>1
      <4> QED BY <4>1, <3>1, LeastElement
    <3>3. i \in 1..n /\ f[i] \notin Seq(S) /\ s[i] \in Seq(S)
      BY <3>2, <1>1
    <3>4. f[i] = IF i = 1 THEN s[i] ELSE f[i - 1] \o s[i]
      BY <3>3, <2>1 DEF IsFlattening
    <3>5. i # 1
      BY <3>3, <3>4
    <3>6. i - 1 \in 1..n /\ i - 1 \notin T
      BY <3>2, <3>3, <3>5, <1>1
    <3>7. f[i - 1] \in Seq(S)
      BY <3>6
    <3>8. f[i - 1] \o s[i] \in Seq(S)
      BY <3>7, <3>3, ConcatProperties
    <3> QED BY <3>3, <3>4, <3>5, <3>8
  <2>3. f[n] \in Seq(S)
    BY <2>2, <1>1, <1>3
  <2> QED BY <2>1, <2>3
<1> QED BY <1>2, <1>3

\* One more member of s is one more piece of the result.
LEMMA FlattenOneMore ==
  ASSUME NEW S, NEW s \in Seq(Seq(S)), NEW k \in 1..Len(s)
  PROVE  /\ SubSeq(s, 1, k) \in Seq(Seq(S)) /\ SubSeq(s, 1, k - 1) \in Seq(Seq(S))
         /\ FlattenSeq(SubSeq(s, 1, k)) = FlattenSeq(SubSeq(s, 1, k - 1)) \o s[k]
<1>1. Len(s) \in Nat /\ k \in Nat /\ s[k] \in Seq(S) /\ 1 \in 1..Len(s) /\ k \in 1..Len(s)
  BY LenProperties, ElementOfSeq
<1>2. \A i \in 1..k : s[i] \in Seq(S)
  BY <1>1, ElementOfSeq
<1>3. SubSeq(s, 1, k) \in Seq(Seq(S)) /\ SubSeq(s, 1, k - 1) \in Seq(Seq(S))
  <2>1. \A i \in 1..k - 1 : s[i] \in Seq(S)
    BY <1>1, <1>2
  <2> QED BY <1>1, <1>2, <2>1, SubSeqProperties
<1>4. SubSeq(s, 1, k) = SubSeq(s, 1, k - 1) \o <<s[k]>>
  BY <1>1, SubSeqRecursiveSecond
<1>5. SubSeq(s, 1, k - 1) \o <<s[k]>> = Append(SubSeq(s, 1, k - 1), s[k])
  BY <1>1, <1>3, AppendIsConcat
<1> QED BY <1>1, <1>3, <1>4, <1>5, FlattenAppend

\* The result of the first k members is where the whole result starts.
LEMMA FlattenStarts ==
  ASSUME NEW S, NEW s \in Seq(Seq(S)), NEW k \in 0..Len(s)
  PROVE  \E u \in Seq(S) : FlattenSeq(s) = FlattenSeq(SubSeq(s, 1, k)) \o u
<1> DEFINE F(n) == FlattenSeq(SubSeq(s, 1, n))
           T == {n \in k..Len(s) : ~\E u \in Seq(S) : F(n) = F(k) \o u}
<1>1. Len(s) \in Nat /\ k \in Nat /\ \A n \in 1..Len(s) : s[n] \in Seq(S)
  BY LenProperties, ElementOfSeq
<1>2. \A n \in 0..Len(s) : F(n) \in Seq(S)
  <2>1. TAKE n \in 0..Len(s)
  <2>2. \A i \in 1..n : s[i] \in Seq(S)
    BY <1>1
  <2>3. SubSeq(s, 1, n) \in Seq(Seq(S))
    BY <2>2, SubSeqProperties
  <2> QED BY <2>3, FlattenTyped
<1>3. T = {}
  <2>1. SUFFICES ASSUME T # {} PROVE FALSE
    OBVIOUS
  <2>2. PICK n \in T : \A m \in T : n <= m
    <3>1. T \in SUBSET Nat
      BY <1>1
    <3> QED BY <3>1, <2>1, LeastElement
  <2>3. n \in k..Len(s) /\ ~\E u \in Seq(S) : F(n) = F(k) \o u
    BY <2>2
  <2>4. n # k
    <3>1. <<>> \in Seq(S) /\ F(k) \o <<>> = F(k)
      BY <1>1, <1>2, EmptySeq, ConcatEmptySeq
    <3> QED BY <3>1, <2>3
  <2>5. n \in Nat /\ n \in 1..Len(s) /\ n - 1 \in k..Len(s)
    BY <1>1, <2>3, <2>4
  <2>9. n - 1 \notin T
    <3> HIDE DEF T
    <3> QED BY <2>2, <2>5
  <2>6. PICK u \in Seq(S) : F(n - 1) = F(k) \o u
    BY <2>5, <2>9
  <2>7. F(n) = F(n - 1) \o s[n]
    BY <2>5, FlattenOneMore
  <2>8. PICK a \in Seq(S), x \in Seq(S) : a = F(k) /\ x = s[n]
    BY <1>1, <1>2, <2>5
  <2>10. (a \o u) \o x = a \o (u \o x) /\ u \o x \in Seq(S)
    BY Regroup
  <2>11. F(n) = F(k) \o (u \o x)
    <3> HIDE DEF F
    <3> QED BY <2>6, <2>7, <2>8, <2>10
  <2> QED BY <2>3, <2>10, <2>11
<1>4. SubSeq(s, 1, Len(s)) = s
  BY SubSeqFull
<1>5. Len(s) \in k..Len(s)
  BY <1>1
<1> QED BY <1>3, <1>4, <1>5

\* A sequence starts with another one when it goes on from there.
LEMMA PrefixGoesOn ==
  ASSUME NEW S, NEW s \in Seq(S), NEW u \in Seq(S)
  PROVE  IsPrefix(s, s \o u)
<1>1. Len(s) \in Nat /\ Len(u) \in Nat /\ Len(s \o u) = Len(s) + Len(u)
  BY LenProperties, ConcatProperties
<1>2. SubSeq(s, 1, Len(s)) = SubSeq(s \o u, 1, Len(s))
  <2>1. CASE Len(s) = 0
    BY <2>1, SubSeqEmpty
  <2>2. CASE Len(s) # 0
    BY <2>2, <1>1, SubSeqOfConcat1
  <2> QED BY <2>1, <2>2
<1> QED BY <1>1, <1>2 DEF IsPrefix

-----------------------------------------------------------------------------
(* Types, and the sizes of the buffers                                       *)

\* Everything in the streams is what it should be, for any links and sizes.
ConnectionTypes ==
  /\ open \in [Ends -> BOOLEAN]
  /\ m_last_result \in [Ends -> Results]
  /\ sent \in [Links -> Seq(Messages)]
  /\ left \in [Links -> Seq(Chars)]
  /\ wire \in [Links -> Seq(Chars)]
  /\ rio_buf \in [Links -> Seq(Chars)]
  /\ usrbuf \in [Links -> Seq(Chars)]
  /\ received \in [Links -> Seq(Seq(Chars))]

\* A connection is made: nothing has been sent before.
Opened ==
  /\ \A d \in Links :
       /\ sent[d] = <<>> /\ left[d] = <<>> /\ wire[d] = <<>>
       /\ rio_buf[d] = <<>> /\ usrbuf[d] = <<>> /\ received[d] = <<>>
  /\ open' = [e \in Ends |-> TRUE]
  /\ UNCHANGED <<m_last_result, writing, wire, reading>>

\* Everything an end of a connection does.
LinkStep(d) ==
  \/ \E msg \in Messages : Send(d, msg) \/ SendRefused(d, msg)
  \/ Transfer(d)

ConnectionStep ==
  \/ \E d \in Links : LinkStep(d)
  \/ \E e \in Ends : Close(e)
  \/ Opened

\* The ends of a link are ends.
LEMMA LinksHaveEnds ==
  ASSUME NEW d \in Links
  PROVE  d[1] \in Ends /\ d[2] \in Ends
BY DEF Ends

\* An encoded message is a string, and so are its parts.
LEMMA EncodeTyped ==
  ASSUME NEW msg \in Messages
  PROVE  /\ Encode(msg) \in Seq(Chars)
         /\ msg.tag \in Seq(Letters) /\ msg.tag \in Seq(Chars) /\ msg.data \in Seq(Chars)
         /\ <<Colon>> \in Seq(Chars) /\ <<Newline>> \in Seq(Chars)
<1>1. msg.tag \in Seq(Letters) /\ msg.data \in Seq(Chars)
  BY DEF Messages
<1>2. Letters \subseteq Chars /\ Colon \in Chars /\ Newline \in Chars
  BY DEF Chars
<1>3. msg.tag \in Seq(Chars)
  BY <1>1, <1>2, SeqMonotonic
<1>4. <<Colon>> \in Seq(Chars) /\ <<Newline>> \in Seq(Chars)
  BY <1>2
<1>5. msg.tag \o <<Colon>> \in Seq(Chars)
  BY <1>3, <1>4, ConcatProperties
<1>6. (msg.tag \o <<Colon>>) \o msg.data \in Seq(Chars)
  BY <1>1, <1>5, ConcatProperties
<1> QED BY <1>1, <1>3, <1>4, <1>6, ConcatProperties DEF Encode

\* The types of one link.
LEMMA LinkTypes ==
  ASSUME ConnectionTypes, NEW d \in Links
  PROVE  /\ sent[d] \in Seq(Messages) /\ received[d] \in Seq(Seq(Chars))
         /\ left[d] \in Seq(Chars) /\ wire[d] \in Seq(Chars)
         /\ rio_buf[d] \in Seq(Chars) /\ usrbuf[d] \in Seq(Chars)
         /\ d[1] \in Ends /\ d[2] \in Ends
BY LinksHaveEnds DEF ConnectionTypes

\* Pieces of a sequence.
LEMMA Pieces ==
  ASSUME NEW S, NEW s \in Seq(S), NEW n \in 1..Len(s)
  PROVE  /\ SubSeq(s, 1, n) \in Seq(S) /\ Len(SubSeq(s, 1, n)) = n
         /\ SubSeq(s, n + 1, Len(s)) \in Seq(S) /\ Len(SubSeq(s, n + 1, Len(s))) = Len(s) - n
         /\ SubSeq(s, 1, n) \o SubSeq(s, n + 1, Len(s)) = s
<1>1. Len(s) \in Nat /\ n \in Nat /\ n <= Len(s) /\ \A i \in 1..Len(s) : s[i] \in S
  BY LenProperties, ElementOfSeq
<1>2. (\A i \in 1..n : s[i] \in S) /\ (\A i \in n + 1..Len(s) : s[i] \in S)
  BY <1>1
<1>3. /\ SubSeq(s, 1, n) \in Seq(S) /\ SubSeq(s, n + 1, Len(s)) \in Seq(S)
      /\ Len(SubSeq(s, 1, n)) = IF 1 <= n THEN n - 1 + 1 ELSE 0
      /\ Len(SubSeq(s, n + 1, Len(s))) = IF n + 1 <= Len(s) THEN Len(s) - (n + 1) + 1 ELSE 0
  BY <1>1, <1>2, SubSeqProperties
<1>4. SubSeq(s, 1, n) \o SubSeq(s, n + 1, Len(s)) = SubSeq(s, 1, Len(s))
  <2>1. 1 \in 1..Len(s) + 1 /\ n \in 1 - 1..Len(s) /\ Len(s) \in n..Len(s)
    BY <1>1
  <2> QED BY <2>1, ConcatAdjacentSubSeq, Zenon
<1>5. SubSeq(s, 1, Len(s)) = s
  BY SubSeqFull
<1>6. Len(SubSeq(s, 1, n)) = n
  BY <1>1, <1>3
<1>7. Len(SubSeq(s, n + 1, Len(s))) = Len(s) - n
  BY <1>1, <1>3
<1> QED BY <1>3, <1>4, <1>5, <1>6, <1>7

\* The first of a sequence and the rest.
LEMMA FirstAndRest ==
  ASSUME NEW S, NEW s \in Seq(S), s # <<>>
  PROVE  /\ Head(s) \in S /\ Tail(s) \in Seq(S) /\ Len(Tail(s)) = Len(s) - 1 /\ Len(s) \in Nat \ {0}
         /\ <<Head(s)>> \in Seq(S)
         /\ s = <<Head(s)>> \o Tail(s)
<1>1. Head(s) \in S /\ Tail(s) \in Seq(S) /\ Len(Tail(s)) = Len(s) - 1 /\ Len(s) \in Nat \ {0}
  BY HeadTailProperties, EmptySeq
<1>2. 1 \in 1..Len(s) /\ Len(s) \in 1..Len(s)
  BY <1>1
<1>3. SubSeq(s, 1, Len(s)) = <<s[1]>> \o SubSeq(s, 1 + 1, Len(s))
  BY <1>2, SubSeqRecursiveFirst
<1>4. Tail(s) = SubSeq(s, 2, Len(s)) /\ SubSeq(s, 1, Len(s)) = s
  BY TailIsSubSeq, SubSeqFull
<1>5. s[1] = Head(s)
  OBVIOUS
<1> QED BY <1>1, <1>3, <1>4, <1>5

-----------------------------------------------------------------------------
(* The bytes of one link: s was sent, c has come out as lines, x is on its   *)
(* way, l is still to be written; a and b say whether the ends are open.     *)

Encoded(s) == [k \in DOMAIN s |-> Encode(s[k])]

\* Lines and bytes on their way are how the bytes of all messages start, and
\* with what is left to write they are all of them.
Ordered(s, c, x, l, a, b) ==
  /\ \E lost \in Seq(Chars) : FlattenSeq(Encoded(s)) = FlattenSeq(c) \o (x \o lost)
  /\ a /\ b => FlattenSeq(Encoded(s)) = FlattenSeq(c) \o (x \o l)

\* The encodings of messages are strings, one for each message.
LEMMA EncodedTyped ==
  ASSUME NEW s \in Seq(Messages)
  PROVE  /\ Encoded(s) \in Seq(Seq(Chars)) /\ Len(Encoded(s)) = Len(s)
         /\ DOMAIN Encoded(s) = 1..Len(s)
         /\ \A k \in 1..Len(s) : Encoded(s)[k] = Encode(s[k]) /\ s[k] \in Messages
         /\ FlattenSeq(Encoded(s)) \in Seq(Chars)
<1>1. DOMAIN s = 1..Len(s) /\ Len(s) \in Nat /\ \A k \in 1..Len(s) : s[k] \in Messages
  BY LenProperties, ElementOfSeq
<1>2. \A k \in 1..Len(s) : Encode(s[k]) \in Seq(Chars)
  BY <1>1, EncodeTyped
<1>3. Encoded(s) = [k \in 1..Len(s) |-> Encode(s[k])]
  BY <1>1 DEF Encoded
<1>4. Encoded(s) \in Seq(Seq(Chars))
  BY <1>1, <1>2, <1>3
<1>5. Len(Encoded(s)) = Len(s) /\ DOMAIN Encoded(s) = 1..Len(s)
  BY <1>1, <1>3
<1> QED BY <1>1, <1>3, <1>4, <1>5, FlattenTyped

\* Sending puts the bytes of the message after all others.
LEMMA EncodedAppend ==
  ASSUME NEW s \in Seq(Messages), NEW msg \in Messages
  PROVE  /\ Encoded(Append(s, msg)) = Append(Encoded(s), Encode(msg))
         /\ FlattenSeq(Encoded(Append(s, msg))) = FlattenSeq(Encoded(s)) \o Encode(msg)
<1> DEFINE t == Append(s, msg)
<1>1. /\ t \in Seq(Messages) /\ Len(t) = Len(s) + 1 /\ Len(s) \in Nat
      /\ (\A i \in 1..Len(s) : t[i] = s[i]) /\ t[Len(s) + 1] = msg
  BY AppendProperties, LenProperties
<1>2. /\ Encoded(t) \in Seq(Seq(Chars)) /\ Len(Encoded(t)) = Len(t)
      /\ \A k \in 1..Len(t) : Encoded(t)[k] = Encode(t[k])
  <2> HIDE DEF t
  <2> QED BY <1>1, EncodedTyped
<1>3. /\ Encoded(s) \in Seq(Seq(Chars)) /\ Len(Encoded(s)) = Len(s)
      /\ \A k \in 1..Len(s) : Encoded(s)[k] = Encode(s[k])
  BY EncodedTyped
<1> DEFINE v == Append(Encoded(s), Encode(msg))
<1>4. Encode(msg) \in Seq(Chars)
  BY EncodeTyped
<1>5. /\ v \in Seq(Seq(Chars)) /\ Len(v) = Len(s) + 1
      /\ (\A i \in 1..Len(s) : v[i] = Encoded(s)[i]) /\ v[Len(s) + 1] = Encode(msg)
  <2>1. PICK w \in Seq(Seq(Chars)), e \in Seq(Chars) : w = Encoded(s) /\ e = Encode(msg)
    BY <1>3, <1>4
  <2>2. /\ Append(w, e) \in Seq(Seq(Chars)) /\ Len(Append(w, e)) = Len(w) + 1
        /\ (\A i \in 1..Len(w) : Append(w, e)[i] = w[i]) /\ Append(w, e)[Len(w) + 1] = e
    BY AppendProperties
  <2> QED BY <2>1, <2>2, <1>3
<1>6. \A i \in 1..Len(s) + 1 : Encoded(t)[i] = v[i]
  <2> HIDE DEF t, v
  <2> SUFFICES ASSUME NEW i \in 1..Len(s) + 1 PROVE Encoded(t)[i] = v[i]
    OBVIOUS
  <2>1. CASE i \in 1..Len(s)
    BY <2>1, <1>1, <1>2, <1>3, <1>5
  <2>2. CASE i = Len(s) + 1
    BY <2>2, <1>1, <1>2, <1>5
  <2> QED BY <2>1, <2>2, <1>1
<1>7. Encoded(t) = v
  <2> HIDE DEF t, v
  <2> QED BY <1>1, <1>2, <1>5, <1>6, SeqEqual
<1> QED BY <1>3, <1>4, <1>7, FlattenAppend

\* The bytes of a message that is sent are left to be written.
LEMMA OrderedSend ==
  ASSUME NEW s \in Seq(Messages), NEW c \in Seq(Seq(Chars)), NEW x \in Seq(Chars),
         NEW a, NEW b, NEW msg \in Messages, Ordered(s, c, x, <<>>, a, b)
  PROVE  Ordered(Append(s, msg), c, x, Encode(msg), a, b)
<1>1. PICK f \in Seq(Chars), g \in Seq(Chars), e \in Seq(Chars), h \in Seq(Chars) :
        /\ f = FlattenSeq(Encoded(s)) /\ g = FlattenSeq(c) /\ e = Encode(msg)
        /\ h = FlattenSeq(Encoded(Append(s, msg)))
  <2>1. Append(s, msg) \in Seq(Messages)
    BY AppendProperties
  <2>2. FlattenSeq(Encoded(Append(s, msg))) \in Seq(Chars)
    BY <2>1, EncodedTyped
  <2> QED BY <2>2, EncodedTyped, FlattenTyped, EncodeTyped
<1>2. h = f \o e
  BY <1>1, EncodedAppend
<1>3. PICK lost \in Seq(Chars) : f = g \o (x \o lost)
  BY <1>1 DEF Ordered
<1>4. \E w \in Seq(Chars) : h = g \o (x \o w)
  <2>1. PICK y \in Seq(Chars), w \in Seq(Chars), v \in Seq(Chars) :
          Joined(x, lost, y) /\ Joined(lost, e, w) /\ Joined(x, w, v)
    <3>1. PICK y \in Seq(Chars), w \in Seq(Chars) : Joined(x, lost, y) /\ Joined(lost, e, w)
      BY JoinExists
    <3>2. PICK v \in Seq(Chars) : Joined(x, w, v)
      BY JoinExists
    <3> QED BY <3>1, <3>2
  <2>2. Joined(g, y, f) /\ Joined(f, e, h)
    BY <1>2, <1>3, <2>1 DEF Joined
  <2>3. Joined(y, e, v)
    BY <2>1, JoinLeft
  <2>4. Joined(g, v, h)
    BY <2>1, <2>2, <2>3, JoinRight
  <2> QED BY <2>1, <2>4 DEF Joined
<1>5. ASSUME a, b PROVE h = g \o (x \o e)
  <2>1. f = g \o (x \o <<>>) /\ x \o <<>> = x
    BY <1>1, <1>5, ConcatEmptySeq DEF Ordered
  <2>2. Joined(g, x, f) /\ Joined(f, e, h)
    BY <1>2, <2>1 DEF Joined
  <2>3. PICK v \in Seq(Chars) : Joined(x, e, v)
    BY JoinExists
  <2>4. Joined(g, v, h)
    BY <2>2, <2>3, JoinRight
  <2> QED BY <2>3, <2>4 DEF Joined
<1> QED BY <1>1, <1>4, <1>5 DEF Ordered

\* Writing moves bytes from what is left to what is on its way.
LEMMA OrderedWrite ==
  ASSUME NEW s \in Seq(Messages), NEW c \in Seq(Seq(Chars)), NEW x \in Seq(Chars),
         NEW p \in Seq(Chars), NEW q \in Seq(Chars), NEW a, NEW b, a, b,
         Ordered(s, c, x, p \o q, a, b)
  PROVE  Ordered(s, c, x \o p, q, a, b)
<1>1. (x \o p) \o q = x \o (p \o q)
  BY Regroup
<1> QED BY <1>1 DEF Ordered

\* A line comes out.
LEMMA OrderedTake ==
  ASSUME NEW s \in Seq(Messages), NEW c \in Seq(Seq(Chars)), NEW line \in Seq(Chars),
         NEW x \in Seq(Chars), NEW l \in Seq(Chars), NEW a, NEW b,
         Ordered(s, c, line \o x, l, a, b)
  PROVE  Ordered(s, Append(c, line), x, l, a, b)
<1>1. PICK g \in Seq(Chars), h \in Seq(Chars), m \in Seq(Chars) :
        g = FlattenSeq(c) /\ h = FlattenSeq(Append(c, line)) /\ m = line \o x
  <2>1. Append(c, line) \in Seq(Seq(Chars)) /\ line \o x \in Seq(Chars)
    BY AppendProperties, ConcatProperties
  <2> QED BY <2>1, FlattenTyped
<1>2. Joined(g, line, h) /\ Joined(line, x, m)
  BY <1>1, FlattenAppend DEF Joined
<1>3. ASSUME NEW v \in Seq(Chars) PROVE g \o (m \o v) = h \o (x \o v)
  <2>1. PICK y \in Seq(Chars), w \in Seq(Chars), z \in Seq(Chars) :
          Joined(x, v, y) /\ Joined(m, v, w) /\ Joined(g, w, z)
    <3>1. PICK y \in Seq(Chars), w \in Seq(Chars) : Joined(x, v, y) /\ Joined(m, v, w)
      BY JoinExists
    <3>2. PICK z \in Seq(Chars) : Joined(g, w, z)
      BY JoinExists
    <3> QED BY <3>1, <3>2
  <2>2. Joined(line, y, w)
    BY <1>2, <2>1, JoinRight
  <2>3. Joined(h, y, z)
    BY <1>2, <2>1, <2>2, JoinLeft
  <2> QED BY <2>1, <2>3 DEF Joined
<1> QED BY <1>1, <1>3 DEF Ordered

\* What is on its way is lost, when one end has gone.
LEMMA OrderedLose ==
  ASSUME NEW s \in Seq(Messages), NEW c \in Seq(Seq(Chars)), NEW x \in Seq(Chars),
         NEW l, NEW m, NEW a, NEW b, ~a \/ ~b, Ordered(s, c, x, l, a, b)
  PROVE  /\ Ordered(s, c, x, m, a, b)
         /\ Ordered(s, c, <<>>, m, a, b)
<1>1. PICK lost \in Seq(Chars) : FlattenSeq(Encoded(s)) = FlattenSeq(c) \o (x \o lost)
  BY DEF Ordered
<1>2. x \o lost \in Seq(Chars) /\ <<>> \o (x \o lost) = x \o lost
  BY ConcatProperties, ConcatEmptySeq
<1> QED BY <1>1, <1>2 DEF Ordered

\* An end closes.
LEMMA OrderedClose ==
  ASSUME NEW s, NEW c, NEW x, NEW l, NEW a, NEW b, NEW a2, NEW b2,
         a2 /\ b2 => a /\ b, Ordered(s, c, x, l, a, b)
  PROVE  Ordered(s, c, x, l, a2, b2)
BY DEF Ordered

\* Nothing has been sent.
LEMMA OrderedEmpty ==
  ASSUME NEW a, NEW b
  PROVE  Ordered(<<>>, <<>>, <<>>, <<>>, a, b)
<1>1. Encoded(<<>>) = <<>>
  BY DEF Encoded
<1>2. <<>> \in Seq(Chars) /\ <<>> \o (<<>> \o <<>>) = <<>>
  BY EmptySeq, ConcatEmptySeq
<1> QED BY <1>1, <1>2, FlattenEmpty DEF Ordered

-----------------------------------------------------------------------------
(* Lines and messages                                                        *)

\* Where the parts of a message are in its line (connection.cpp:58-68).
LEMMA EncodeLayout ==
  ASSUME NEW msg \in Messages
  PROVE  /\ Len(msg.tag) \in Nat /\ Len(msg.data) \in Nat
         /\ Len(Encode(msg)) = Len(msg.tag) + Len(msg.data) + 2
         /\ \A i \in 1..Len(msg.tag) : Encode(msg)[i] = msg.tag[i]
         /\ Encode(msg)[Len(msg.tag) + 1] = Colon
         /\ \A i \in 1..Len(msg.data) : Encode(msg)[Len(msg.tag) + 1 + i] = msg.data[i]
         /\ Encode(msg)[Len(msg.tag) + Len(msg.data) + 2] = Newline
<1>1. PICK t \in Seq(Chars), m \in Seq(Chars), p \in Seq(Chars), q \in Seq(Chars) :
        t = msg.tag /\ m = msg.data /\ p = <<Colon>> /\ q = <<Newline>>
  BY EncodeTyped
<1>2. Len(p) = 1 /\ Len(q) = 1 /\ p[1] = Colon /\ q[1] = Newline
  BY <1>1
<1>3. PICK u \in Seq(Chars) : Joined(t, p, u)
  BY JoinExists
<1>4. PICK v \in Seq(Chars) : Joined(u, m, v)
  BY JoinExists
<1>5. PICK w \in Seq(Chars) : Joined(v, q, w)
  BY JoinExists
<1>6. Encode(msg) = w
  BY <1>1, <1>3, <1>4, <1>5 DEF Encode, Joined
<1>7. /\ Len(t) \in Nat /\ Len(u) = Len(t) + 1
      /\ \A i \in 1..Len(t) : u[i] = t[i]
      /\ u[Len(t) + 1] = Colon
  <2>1. /\ Len(t) \in Nat /\ Len(u) = Len(t) + Len(p)
        /\ \A i \in 1..Len(t) : u[i] = t[i]
        /\ \A i \in 1..Len(p) : u[Len(t) + i] = p[i]
    BY <1>3, JoinedAt
  <2> QED BY <2>1, <1>2
<1>8. /\ Len(m) \in Nat /\ Len(v) = Len(u) + Len(m)
      /\ \A i \in 1..Len(u) : v[i] = u[i]
      /\ \A i \in 1..Len(m) : v[Len(u) + i] = m[i]
  BY <1>4, JoinedAt
<1>9. /\ Len(w) = Len(v) + 1
      /\ \A i \in 1..Len(v) : w[i] = v[i]
      /\ w[Len(v) + 1] = Newline
  <2>1. /\ Len(v) \in Nat /\ Len(w) = Len(v) + Len(q)
        /\ \A i \in 1..Len(v) : w[i] = v[i]
        /\ \A i \in 1..Len(q) : w[Len(v) + i] = q[i]
    BY <1>5, JoinedAt
  <2> QED BY <2>1, <1>2
<1> HIDE DEF Colon, Newline
<1>10. Len(w) = Len(t) + Len(m) + 2 /\ Len(v) = Len(t) + 1 + Len(m)
  BY <1>7, <1>8, <1>9
<1>11. \A i \in 1..Len(t) : w[i] = t[i]
  BY <1>7, <1>8, <1>9
<1>12. w[Len(t) + 1] = Colon
  BY <1>2, <1>7, <1>8, <1>9, <1>10
<1>13. \A i \in 1..Len(m) : w[Len(t) + 1 + i] = m[i]
  <2> SUFFICES ASSUME NEW i \in 1..Len(m) PROVE w[Len(t) + 1 + i] = m[i]
    OBVIOUS
  <2>1. v[Len(t) + 1 + i] = m[i]
    BY <1>7, <1>8
  <2>2. Len(t) + 1 + i \in 1..Len(v)
    BY <1>7, <1>8, <1>10
  <2> QED BY <1>9, <2>1, <2>2
<1>14. w[Len(t) + Len(m) + 2] = Newline
  <2>1. Len(t) + Len(m) + 2 = Len(v) + 1
    BY <1>7, <1>8, <1>10
  <2> QED BY <1>2, <1>9, <2>1
<1> QED BY <1>1, <1>6, <1>7, <1>8, <1>10, <1>11, <1>12, <1>13, <1>14

\* The only newline of a message of one line is at its end.
LEMMA OneNewline ==
  ASSUME NEW msg \in Messages, ~Contains(msg.data, Newline)
  PROVE  /\ Len(Encode(msg)) \in Nat \ {0}
         /\ Encode(msg)[Len(Encode(msg))] = Newline
         /\ \A i \in 1..Len(Encode(msg)) - 1 : Encode(msg)[i] # Newline
<1>1. PICK e, n, m : e = Encode(msg) /\ n = Len(msg.tag) /\ m = Len(msg.data)
  OBVIOUS
<1>2. /\ n \in Nat /\ m \in Nat /\ Len(e) = n + m + 2
      /\ \A i \in 1..n : e[i] = msg.tag[i]
      /\ e[n + 1] = Colon /\ e[n + m + 2] = Newline
      /\ \A i \in 1..m : e[n + 1 + i] = msg.data[i]
  BY <1>1, EncodeLayout
<1>3. \A i \in 1..n : msg.tag[i] # Newline
  BY <1>1, EncodeTyped, ElementOfSeq, ConnectionAssumption
<1>4. \A i \in 1..m : msg.data[i] # Newline
  BY <1>1 DEF Contains
<1>5. ASSUME NEW i \in 1..Len(e) - 1 PROVE e[i] # Newline
  <2>1. CASE i \in 1..n
    BY <2>1, <1>2, <1>3
  <2>2. CASE i = n + 1
    BY <2>2, <1>2 DEF Colon, Newline
  <2>3. CASE i \notin 1..n + 1
    <3>0. i \in Int /\ 1 <= i /\ i <= n + m + 1
      BY <1>2
    <3>1. PICK j \in Int : i = n + 1 + j
      BY <3>0, <1>2
    <3>2. j \in 1..m
      BY <2>3, <3>0, <3>1, <1>2
    <3> QED BY <3>1, <3>2, <1>2, <1>4
  <2> QED BY <2>1, <2>2, <2>3, <1>2
<1>6. Len(e) \in Nat \ {0} /\ e[Len(e)] = Newline
  BY <1>2
<1> QED BY <1>1, <1>5, <1>6

\* receive finds tag and data again (connection.cpp:99-104).
LEMMA ParseEncoded ==
  ASSUME NEW msg \in Messages
  PROVE  Parse(Encode(msg)) = [tag |-> msg.tag, data |-> msg.data \o <<Newline>>]
<1>1. PICK e \in Seq(Chars), n \in Nat, m \in Nat :
        e = Encode(msg) /\ n = Len(msg.tag) /\ m = Len(msg.data)
  BY EncodeTyped, EncodeLayout
<1>2. /\ n \in Nat /\ m \in Nat /\ Len(e) = n + m + 2
      /\ \A i \in 1..n : e[i] = msg.tag[i]
      /\ e[n + 1] = Colon /\ e[n + m + 2] = Newline
      /\ \A i \in 1..m : e[n + 1 + i] = msg.data[i]
  BY <1>1, EncodeLayout
<1>3. \A i \in 1..n : msg.tag[i] # Colon
  BY <1>1, EncodeTyped, ElementOfSeq, ConnectionAssumption
<1>4. FirstColon(e) = n + 1
  <2> DEFINE I == {i \in 1..Len(e) : e[i] = Colon}
  <2>1. n + 1 \in I /\ I \subseteq Int /\ \A i \in I : n + 1 <= i
    BY <1>2, <1>3
  <2>2. Min(I) = n + 1
    <3>1. \E k \in I : \A i \in I : k <= i
      BY <2>1
    <3>2. Min(I) \in I /\ \A i \in I : Min(I) <= i
      <4> HIDE DEF I
      <4> QED BY <3>1 DEF Min
    <3>3. Min(I) <= n + 1 /\ n + 1 <= Min(I) /\ Min(I) \in Int
      BY <2>1, <3>2, Zenon
    <3> HIDE DEF I
    <3> QED BY <3>3, <1>2
  <2> QED BY <2>1, <2>2 DEF FirstColon, SelectInSeq
<1>5. SubSeq(e, 1, (n + 1) - 1) = msg.tag
  <2>1. msg.tag \in Seq(Chars) /\ \A i \in 1..n : e[i] \in Chars
    BY <1>1, <1>2, EncodeTyped, ElementOfSeq
  <2>2. /\ SubSeq(e, 1, n) \in Seq(Chars) /\ Len(SubSeq(e, 1, n)) = IF 1 <= n THEN n - 1 + 1 ELSE 0
        /\ \A i \in 1..n - 1 + 1 : SubSeq(e, 1, n)[i] = e[1 + i - 1]
    BY <1>2, <2>1, SubSeqProperties
  <2>3. Len(SubSeq(e, 1, n)) = n /\ \A i \in 1..n : SubSeq(e, 1, n)[i] = msg.tag[i]
    BY <1>2, <2>2
  <2>4. SubSeq(e, 1, n) = msg.tag
    BY <1>1, <2>1, <2>2, <2>3, SeqEqual
  <2> QED BY <1>2, <2>4
<1>6. SubSeq(e, (n + 1) + 1, Len(e)) = msg.data \o <<Newline>>
  <2> DEFINE p == SubSeq(e, n + 2, Len(e))
             q == msg.data \o <<Newline>>
  <2>1. \A i \in n + 2..Len(e) : e[i] \in Chars
    <3>1. \A i \in 1..Len(e) : e[i] \in Chars
      BY ElementOfSeq
    <3> QED BY <3>1, <1>2
  <2>2. /\ p \in Seq(Chars) /\ Len(p) = IF n + 2 <= Len(e) THEN Len(e) - (n + 2) + 1 ELSE 0
        /\ \A i \in 1..Len(e) - (n + 2) + 1 : p[i] = e[n + 2 + i - 1]
    BY <1>2, <2>1, SubSeqProperties
  <2>3. Len(p) = m + 1 /\ \A i \in 1..m + 1 : p[i] = e[n + 1 + i]
    BY <1>2, <2>2
  <2>4. PICK d \in Seq(Chars), w \in Seq(Chars) : d = msg.data /\ w = <<Newline>>
    BY EncodeTyped
  <2>9. PICK z \in Seq(Chars) : Joined(d, w, z)
    BY JoinExists
  <2>10. Len(d) = m /\ Len(w) = 1 /\ w[1] = Newline
    BY <1>1, <2>4
  <2>5. /\ Len(z) = m + 1
        /\ \A i \in 1..m : z[i] = d[i]
        /\ z[m + 1] = Newline
    <3>1. /\ Len(d) \in Nat /\ Len(z) = Len(d) + Len(w)
          /\ \A i \in 1..Len(d) : z[i] = d[i]
          /\ \A i \in 1..Len(w) : z[Len(d) + i] = w[i]
      BY <2>9, JoinedAt
    <3> QED BY <3>1, <2>10
  <2>6. \A i \in 1..m + 1 : p[i] = z[i]
    <3> SUFFICES ASSUME NEW i \in 1..m + 1 PROVE p[i] = z[i]
      OBVIOUS
    <3>1. p[i] = e[n + 1 + i]
      BY <2>3
    <3> HIDE DEF p, Newline
    <3>2. CASE i \in 1..m
      BY <3>1, <3>2, <1>2, <2>4, <2>5
    <3>3. CASE i = m + 1
      <4>1. n + 1 + i = n + m + 2
        BY <3>3, <1>2
      <4>2. z[i] = Newline
        BY <3>3, <2>5, <2>10
      <4> QED BY <4>1, <4>2, <3>1, <1>2
    <3> QED BY <3>2, <3>3, <1>2
  <2>7. p = z /\ z = d \o w
    <3>1. p = z
      <4> HIDE DEF p
      <4> QED BY <2>2, <2>3, <2>5, <2>6, SeqEqual
    <3> QED BY <3>1, <2>9 DEF Joined
  <2>8. (n + 1) + 1 = n + 2
    BY <1>2
  <2> QED BY <2>4, <2>7, <2>8
<1>7. n + 1 # 0
  BY <1>2
<1> QED BY <1>1, <1>4, <1>5, <1>6, <1>7 DEF Parse

\* What follows the same sequence is the same.
LEMMA JoinCancel ==
  ASSUME NEW g, NEW v, NEW y, NEW f, Joined(g, v, f), Joined(g, y, f)
  PROVE  v = y
<1>1. /\ v \in Seq(Chars) /\ Len(g) \in Nat /\ Len(v) \in Nat /\ Len(f) = Len(g) + Len(v)
      /\ \A i \in 1..Len(v) : f[Len(g) + i] = v[i]
  BY JoinedAt
<1>2. /\ y \in Seq(Chars) /\ Len(y) \in Nat /\ Len(f) = Len(g) + Len(y)
      /\ \A i \in 1..Len(y) : f[Len(g) + i] = y[i]
  BY JoinedAt
<1>3. Len(v) = Len(y)
  BY <1>1, <1>2
<1>4. \A i \in 1..Len(v) : v[i] = y[i]
  BY <1>1, <1>2, <1>3
<1> QED BY <1>1, <1>2, <1>3, <1>4, SeqEqual

\* No message fills the buffer of receive, or is of more than one line.
Short(s) ==
  \A k \in 1..Len(s) : Len(Encode(s[k])) <= MAX_LEN - 1 /\ ~Contains(s[k].data, Newline)

\* Lines that have come out are those of the messages sent; only the last one
\* may be cut off, when the sender has gone, and nothing comes after it.
Whole(s, c, x, a) ==
  Short(s) =>
    /\ Len(c) <= Len(s)
    /\ \/ \A k \in 1..Len(c) : c[k] = Encode(s[k])
       \/ /\ ~a /\ x = <<>> /\ c # <<>>
          /\ \A k \in 1..Len(c) - 1 : c[k] = Encode(s[k])
          /\ IsPrefix(c[Len(c)], Encode(s[Len(c)]))

\* A line that is being collected is the next message, or the beginning of it:
\* what has come out is the first messages, so what is on its way starts with
\* the next one, whose only newline is at its end.
LEMMA NextLine ==
  ASSUME NEW s \in Seq(Messages), NEW c \in Seq(Seq(Chars)), NEW line \in Seq(Chars),
         NEW x \in Seq(Chars), NEW l, NEW a, NEW b,
         Ordered(s, c, line \o x, l, a, b), Short(s),
         Len(c) <= Len(s), \A k \in 1..Len(c) : c[k] = Encode(s[k]),
         line # <<>>, \A i \in 1..Len(line) - 1 : line[i] # Newline
  PROVE  /\ Len(c) + 1 \in 1..Len(s)
         /\ s[Len(c) + 1] \in Messages /\ ~Contains(s[Len(c) + 1].data, Newline)
         /\ Len(Encode(s[Len(c) + 1])) <= MAX_LEN - 1
         /\ Len(line) <= Len(Encode(s[Len(c) + 1]))
         /\ \A i \in 1..Len(line) : line[i] = Encode(s[Len(c) + 1])[i]
<1>1. PICK E \in Seq(Seq(Chars)) :
        /\ E = Encoded(s) /\ Len(E) = Len(s) /\ Len(s) \in Nat
        /\ \A k \in 1..Len(s) : E[k] = Encode(s[k]) /\ s[k] \in Messages
  BY EncodedTyped, LenProperties
<1>2. PICK r \in Nat : r = Len(c) /\ r <= Len(E)
  BY <1>1, LenProperties
<1>3. c = SubSeq(E, 1, r)
  <2>1. \A i \in 1..r : E[i] \in Seq(Chars)
    BY <1>2, ElementOfSeq
  <2>2. /\ SubSeq(E, 1, r) \in Seq(Seq(Chars)) /\ Len(SubSeq(E, 1, r)) = IF 1 <= r THEN r - 1 + 1 ELSE 0
        /\ \A i \in 1..r - 1 + 1 : SubSeq(E, 1, r)[i] = E[1 + i - 1]
    BY <1>2, <2>1, SubSeqProperties
  <2>3. Len(SubSeq(E, 1, r)) = r /\ \A i \in 1..r : SubSeq(E, 1, r)[i] = E[i]
    BY <1>2, <2>2
  <2>4. \A i \in 1..r : c[i] = SubSeq(E, 1, r)[i]
    BY <1>1, <1>2, <2>3
  <2> QED BY <1>2, <2>2, <2>3, <2>4, SeqEqual
<1>4. PICK f \in Seq(Chars), g \in Seq(Chars), m \in Seq(Chars) :
        f = FlattenSeq(E) /\ g = FlattenSeq(c) /\ m = line \o x
  BY FlattenTyped, ConcatProperties
<1>5. PICK lost \in Seq(Chars), y \in Seq(Chars) : Joined(m, lost, y) /\ Joined(g, y, f)
  <2>1. PICK lost \in Seq(Chars) : f = g \o (m \o lost)
    BY <1>1, <1>4 DEF Ordered
  <2>2. PICK y \in Seq(Chars) : Joined(m, lost, y)
    BY JoinExists
  <2> QED BY <2>1, <2>2 DEF Joined
<1>6. PICK rest \in Seq(Chars) : Joined(line, rest, y)
  <2>1. PICK rest \in Seq(Chars) : Joined(x, lost, rest)
    BY JoinExists
  <2>2. Joined(line, x, m)
    BY <1>4 DEF Joined
  <2> QED BY <1>5, <2>1, <2>2, JoinRight
<1>7. Len(line) \in Nat \ {0} /\ Len(y) \in Nat /\ Len(y) >= Len(line)
  <2>1. Len(line) \in Nat /\ Len(rest) \in Nat /\ Len(y) = Len(line) + Len(rest)
    BY <1>6, JoinedAt
  <2>2. Len(line) # 0
    BY EmptySeq
  <2> QED BY <2>1, <2>2
<1>8. r < Len(E)
  <2>1. SUFFICES ASSUME r = Len(E) PROVE FALSE
    BY <1>1, <1>2
  <2>2. c = E
    BY <1>3, <2>1, SubSeqFull
  <2>3. f = g
    BY <1>4, <2>2
  <2>4. Len(g) \in Nat /\ Len(f) = Len(g) + Len(y)
    BY <1>5, JoinedAt
  <2> QED BY <1>7, <2>3, <2>4
<1>9. PICK k \in 1..Len(E) : k = r + 1
  BY <1>1, <1>2, <1>8
<1>10. PICK e \in Seq(Chars) : e = E[k] /\ e = Encode(s[k])
  BY <1>1, <1>9, ElementOfSeq
<1>11. PICK u \in Seq(Chars) : Joined(e, u, y)
  <2>1. PICK h \in Seq(Chars) : h = FlattenSeq(SubSeq(E, 1, k))
    BY <1>9, FlattenOneMore, FlattenTyped
  <2>2. Joined(g, e, h)
    <3>1. k - 1 = r
      BY <1>9
    <3>2. FlattenSeq(SubSeq(E, 1, k)) = FlattenSeq(SubSeq(E, 1, k - 1)) \o E[k]
      BY <1>9, FlattenOneMore
    <3>3. h = g \o e
      BY <1>3, <1>4, <1>10, <2>1, <3>1, <3>2
    <3> QED BY <3>3 DEF Joined
  <2>3. PICK u \in Seq(Chars) : Joined(h, u, f)
    <3>1. k \in 0..Len(E)
      BY <1>9
    <3>2. PICK u \in Seq(Chars) : FlattenSeq(E) = FlattenSeq(SubSeq(E, 1, k)) \o u
      BY <3>1, FlattenStarts
    <3> QED BY <1>4, <2>1, <3>2 DEF Joined
  <2>4. PICK v \in Seq(Chars) : Joined(e, u, v)
    BY JoinExists
  <2>5. Joined(g, v, f)
    BY <2>2, <2>3, <2>4, JoinRight
  <2>6. v = y
    BY <1>5, <2>5, JoinCancel
  <2> QED BY <2>4, <2>6
<1>12. \A i \in 1..Len(line) : i <= Len(e) => line[i] = e[i]
  <2>1. Len(line) \in Nat /\ \A i \in 1..Len(line) : y[i] = line[i]
    BY <1>6, JoinedAt
  <2>2. Len(e) \in Nat /\ \A i \in 1..Len(e) : y[i] = e[i]
    BY <1>11, JoinedAt
  <2> QED BY <2>1, <2>2
<1>13. /\ s[k] \in Messages /\ ~Contains(s[k].data, Newline) /\ Len(Encode(s[k])) <= MAX_LEN - 1
  BY <1>1, <1>9 DEF Short
<1>14. Len(e) \in Nat \ {0} /\ e[Len(e)] = Newline
  BY <1>10, <1>13, OneNewline
<1>15. Len(line) <= Len(e)
  <2>1. SUFFICES ASSUME Len(line) > Len(e) PROVE FALSE
    BY <1>7, <1>14
  <2>2. Len(e) \in 1..Len(line) - 1 /\ Len(e) \in 1..Len(line) /\ Len(e) <= Len(e)
    BY <1>7, <1>14, <2>1
  <2>3. line[Len(e)] = e[Len(e)] /\ line[Len(e)] # Newline
    BY <1>12, <2>2
  <2> QED BY <1>14, <2>3
<1>16. \A i \in 1..Len(line) : line[i] = e[i]
  BY <1>7, <1>12, <1>14, <1>15
<1> QED BY <1>1, <1>2, <1>9, <1>10, <1>13, <1>15, <1>16

\* Another message is sent.
LEMMA WholeSend ==
  ASSUME NEW s \in Seq(Messages), NEW c \in Seq(Seq(Chars)), NEW x, NEW msg \in Messages,
         NEW a, a, Whole(s, c, x, a)
  PROVE  Whole(Append(s, msg), c, x, a)
<1>1. PICK t : t = Append(s, msg)
  OBVIOUS
<1>2. Len(s) \in Nat /\ Len(t) = Len(s) + 1 /\ \A k \in 1..Len(s) : t[k] = s[k]
  BY <1>1, AppendProperties, LenProperties
<1>3. Short(t) => Short(s)
  BY <1>2 DEF Short
<1>4. Len(c) \in Nat
  BY LenProperties
<1>5. SUFFICES ASSUME Short(t) PROVE Len(c) <= Len(t) /\ \A k \in 1..Len(c) : c[k] = Encode(t[k])
  BY <1>1 DEF Whole
<1>6. Len(c) <= Len(s) /\ \A k \in 1..Len(c) : c[k] = Encode(s[k])
  BY <1>3, <1>5 DEF Whole
<1>7. \A k \in 1..Len(c) : k \in 1..Len(s)
  BY <1>2, <1>4, <1>6
<1> QED BY <1>2, <1>4, <1>6, <1>7

\* As long as the sender is there, what is on its way does not matter.
LEMMA WholeWrite ==
  ASSUME NEW s, NEW c, NEW x, NEW y, NEW a, a, Whole(s, c, x, a)
  PROVE  Whole(s, c, y, a)
BY DEF Whole

\* What is on its way is lost.
LEMMA WholeLose ==
  ASSUME NEW s, NEW c, NEW x, NEW a, Whole(s, c, x, a)
  PROVE  Whole(s, c, <<>>, a)
BY DEF Whole

\* An end closes, or does not.
LEMMA WholeClose ==
  ASSUME NEW s, NEW c, NEW x, NEW a, NEW a2, a2 => a, Whole(s, c, x, a)
  PROVE  Whole(s, c, x, a2)
BY DEF Whole

\* Nothing has been sent.
LEMMA WholeEmpty ==
  ASSUME NEW a
  PROVE  Whole(<<>>, <<>>, <<>>, a)
BY DEF Whole

\* What has come out, and a line more.
LEMMA OneMoreLine ==
  ASSUME NEW c \in Seq(Seq(Chars)), NEW line \in Seq(Chars)
  PROVE  /\ Append(c, line) \in Seq(Seq(Chars)) /\ Append(c, line) # <<>>
         /\ Len(c) \in Nat /\ Len(Append(c, line)) = Len(c) + 1
         /\ \A k \in 1..Len(c) : Append(c, line)[k] = c[k]
         /\ Append(c, line)[Len(c) + 1] = line
BY AppendProperties, LenProperties

\* A line that ends with a newline, or fills the buffer, is a message.
LEMMA WholeTake ==
  ASSUME NEW s \in Seq(Messages), NEW c \in Seq(Seq(Chars)), NEW line \in Seq(Chars),
         NEW x \in Seq(Chars), NEW l, NEW a, NEW b,
         Ordered(s, c, line \o x, l, a, b), Whole(s, c, line \o x, a),
         line # <<>>, \A i \in 1..Len(line) - 1 : line[i] # Newline, LineEnds(line)
  PROVE  Whole(s, Append(c, line), x, a)
<1>1. SUFFICES ASSUME Short(s) PROVE Whole(s, Append(c, line), x, a)
  BY DEF Whole
<1>2. line \o x # <<>>
  BY ConcatEqualIffEmpty
<1>3. Len(c) <= Len(s) /\ \A k \in 1..Len(c) : c[k] = Encode(s[k])
  BY <1>1, <1>2 DEF Whole
<1>4. PICK n \in Nat, e \in Seq(Chars) :
        /\ n = Len(c) /\ e = Encode(s[n + 1]) /\ n + 1 \in 1..Len(s)
        /\ s[n + 1] \in Messages /\ ~Contains(s[n + 1].data, Newline)
        /\ Len(e) <= MAX_LEN - 1 /\ Len(line) <= Len(e)
        /\ \A i \in 1..Len(line) : line[i] = e[i]
  <2>1. Len(c) \in Nat
    BY LenProperties
  <2>2. /\ Len(c) + 1 \in 1..Len(s)
        /\ s[Len(c) + 1] \in Messages /\ ~Contains(s[Len(c) + 1].data, Newline)
        /\ Len(Encode(s[Len(c) + 1])) <= MAX_LEN - 1
        /\ Len(line) <= Len(Encode(s[Len(c) + 1]))
        /\ \A i \in 1..Len(line) : line[i] = Encode(s[Len(c) + 1])[i]
    BY <1>1, <1>3, NextLine
  <2> QED BY <2>1, <2>2, EncodeTyped
<1>5. /\ Len(e) \in Nat \ {0} /\ \A i \in 1..Len(e) - 1 : e[i] # Newline
  BY <1>4, OneNewline
<1>6. Len(line) \in Nat \ {0}
  BY EmptySeq
<1>7. Len(line) = Len(e)
  <2>1. CASE line[Len(line)] = Newline
    <3>1. e[Len(line)] = Newline /\ Len(line) \in 1..Len(e)
      BY <1>4, <1>5, <1>6, <2>1
    <3> QED BY <3>1, <1>5
  <2>2. CASE Len(line) = MAX_LEN - 1
    BY <2>2, <1>4, <1>5, <1>6, ConnectionAssumption
  <2> QED BY <2>1, <2>2 DEF LineEnds, Last
<1>8. line = e
  BY <1>4, <1>7, SeqEqual
<1>9. PICK t : t = Append(c, line)
  OBVIOUS
<1>10. Len(t) = n + 1 /\ (\A k \in 1..n : t[k] = c[k]) /\ t[n + 1] = line
  BY <1>4, <1>9, OneMoreLine
<1>11. \A k \in 1..Len(t) : t[k] = Encode(s[k])
  <2> SUFFICES ASSUME NEW k \in 1..Len(t) PROVE t[k] = Encode(s[k])
    OBVIOUS
  <2>1. CASE k = n + 1
    BY <2>1, <1>4, <1>8, <1>10
  <2>2. CASE k \in 1..n
    BY <2>2, <1>3, <1>4, <1>10
  <2> QED BY <2>1, <2>2, <1>10
<1>12. Len(t) <= Len(s)
  BY <1>4, <1>10
<1> QED BY <1>9, <1>11, <1>12 DEF Whole

\* What the end of the connection cuts off is the beginning of a message.
LEMMA WholeLast ==
  ASSUME NEW s \in Seq(Messages), NEW c \in Seq(Seq(Chars)), NEW line \in Seq(Chars),
         NEW l, NEW a, NEW b, ~a,
         Ordered(s, c, line, l, a, b), Whole(s, c, line, a),
         line # <<>>, \A i \in 1..Len(line) : line[i] # Newline
  PROVE  Whole(s, Append(c, line), <<>>, a)
<1>1. SUFFICES ASSUME Short(s) PROVE Whole(s, Append(c, line), <<>>, a)
  BY DEF Whole
<1>2. line \o <<>> = line /\ <<>> \in Seq(Chars) /\ Len(line) \in Nat \ {0}
  BY ConcatEmptySeq, EmptySeq
<1>3. Len(c) <= Len(s) /\ \A k \in 1..Len(c) : c[k] = Encode(s[k])
  BY <1>1 DEF Whole
<1>4. Ordered(s, c, line \o <<>>, l, a, b) /\ \A i \in 1..Len(line) - 1 : line[i] # Newline
  BY <1>2
<1>5. PICK n \in Nat, e \in Seq(Chars) :
        /\ n = Len(c) /\ e = Encode(s[n + 1]) /\ n + 1 \in 1..Len(s)
        /\ Len(line) <= Len(e) /\ \A i \in 1..Len(line) : line[i] = e[i]
  <2>1. Len(c) \in Nat
    BY LenProperties
  <2>2. /\ Len(c) + 1 \in 1..Len(s) /\ s[Len(c) + 1] \in Messages
        /\ Len(line) <= Len(Encode(s[Len(c) + 1]))
        /\ \A i \in 1..Len(line) : line[i] = Encode(s[Len(c) + 1])[i]
    BY <1>1, <1>2, <1>3, <1>4, NextLine
  <2> QED BY <2>1, <2>2, EncodeTyped
<1>6. IsPrefix(line, e)
  <2>1. Len(e) \in Nat /\ (\A i \in 1..Len(line) : e[i] \in Chars)
    BY <1>5, LenProperties, ElementOfSeq
  <2>2. /\ SubSeq(e, 1, Len(line)) \in Seq(Chars)
        /\ Len(SubSeq(e, 1, Len(line))) = IF 1 <= Len(line) THEN Len(line) - 1 + 1 ELSE 0
        /\ \A i \in 1..Len(line) - 1 + 1 : SubSeq(e, 1, Len(line))[i] = e[1 + i - 1]
    BY <1>2, <2>1, SubSeqProperties
  <2>3. Len(SubSeq(e, 1, Len(line))) = Len(line)
        /\ \A i \in 1..Len(line) : SubSeq(e, 1, Len(line))[i] = line[i]
    BY <1>2, <1>5, <2>2
  <2>4. SubSeq(e, 1, Len(line)) = line /\ SubSeq(line, 1, Len(line)) = line
    BY <2>2, <2>3, SeqEqual, SubSeqFull
  <2> QED BY <1>5, <2>4 DEF IsPrefix
<1>7. PICK t : t = Append(c, line)
  OBVIOUS
<1>8. t # <<>> /\ Len(t) = n + 1 /\ (\A k \in 1..n : t[k] = c[k]) /\ t[n + 1] = line
  BY <1>5, <1>7, OneMoreLine
<1>9. \A k \in 1..Len(t) - 1 : t[k] = Encode(s[k])
  BY <1>3, <1>5, <1>8
<1>10. Len(t) <= Len(s) /\ IsPrefix(t[Len(t)], Encode(s[Len(t)]))
  BY <1>5, <1>6, <1>8
<1> QED BY <1>7, <1>8, <1>9, <1>10 DEF Whole

-----------------------------------------------------------------------------
(* One link in every step of its two ends                                    *)

\* What has been taken from the sender and has not come out as a line.
OnItsWay(u, r, w) == u \o (r \o w)

\* What is in the buffers fits them, and the line being collected goes on.
Bounded(s, w, r, u) ==
  /\ \A k \in 1..Len(s) : Len(s[k].data) <= MAX_LEN
  /\ Len(w) <= Capacity /\ Len(r) <= RioSize /\ Len(u) < MAX_LEN - 1
  /\ \A i \in 1..Len(u) : u[i] # Newline

LinkOK(s, l, w, r, u, c, a, b) ==
  /\ Bounded(s, w, r, u)
  /\ Ordered(s, c, OnItsWay(u, r, w), l, a, b)
  /\ Whole(s, c, OnItsWay(u, r, w), a)

LinkTyped(s, l, w, r, u, c) ==
  /\ s \in Seq(Messages) /\ l \in Seq(Chars) /\ w \in Seq(Chars)
  /\ r \in Seq(Chars) /\ u \in Seq(Chars) /\ c \in Seq(Seq(Chars))

\* What is on its way is a string.
LEMMA OnItsWayTyped ==
  ASSUME NEW u \in Seq(Chars), NEW r \in Seq(Chars), NEW w \in Seq(Chars)
  PROVE  OnItsWay(u, r, w) \in Seq(Chars)
BY ConcatProperties DEF OnItsWay

\* Nothing is on its way but the line that has been begun.
LEMMA EmptyOnItsWay ==
  OnItsWay(<<>>, <<>>, <<>>) = <<>> /\ \A u \in Seq(Chars) : OnItsWay(u, <<>>, <<>>) = u
<1>1. <<>> \in Seq(Chars) /\ <<>> \o <<>> = <<>>
  BY EmptySeq, ConcatEmptySeq
<1> QED BY <1>1, ConcatEmptySeq DEF OnItsWay

\* send (connection.cpp:49-78)
LEMMA SendOK ==
  ASSUME NEW s, NEW w, NEW r, NEW u, NEW c, NEW a, NEW b, NEW msg \in Messages,
         LinkTyped(s, <<>>, w, r, u, c), LinkOK(s, <<>>, w, r, u, c, a, b), a, Valid(msg)
  PROVE  LinkTyped(Append(s, msg), Encode(msg), w, r, u, c)
         /\ LinkOK(Append(s, msg), Encode(msg), w, r, u, c, a, b)
<1> DEFINE x == OnItsWay(u, r, w)
<1>1. s \in Seq(Messages) /\ c \in Seq(Seq(Chars)) /\ x \in Seq(Chars)
  BY OnItsWayTyped DEF LinkTyped
<1>2. Ordered(s, c, x, <<>>, a, b) /\ Whole(s, c, x, a)
  BY DEF LinkOK
<1> HIDE DEF x
<1>3. Ordered(Append(s, msg), c, x, Encode(msg), a, b)
  BY <1>1, <1>2, OrderedSend
<1>4. Whole(Append(s, msg), c, x, a)
  BY <1>1, <1>2, WholeSend
<1>5. PICK t \in Seq(Messages) : t = Append(s, msg)
  BY <1>1, AppendProperties
<1>6. Len(s) \in Nat /\ Len(t) = Len(s) + 1 /\ (\A k \in 1..Len(s) : t[k] = s[k]) /\ t[Len(s) + 1] = msg
  BY <1>1, <1>5, AppendProperties, LenProperties
<1>7. Bounded(t, w, r, u)
  <2>1. Bounded(s, w, r, u)
    BY DEF LinkOK
  <2>2. \A k \in 1..Len(t) : Len(t[k].data) <= MAX_LEN
    <3> SUFFICES ASSUME NEW k \in 1..Len(t) PROVE Len(t[k].data) <= MAX_LEN
      OBVIOUS
    <3>1. CASE k = Len(s) + 1
      BY <3>1, <1>6 DEF Valid
    <3>2. CASE k \in 1..Len(s)
      BY <3>2, <2>1, <1>6 DEF Bounded
    <3> QED BY <3>1, <3>2, <1>6
  <2> QED BY <2>1, <2>2 DEF Bounded
<1>8. LinkTyped(t, Encode(msg), w, r, u, c)
  BY EncodeTyped DEF LinkTyped
<1> QED BY <1>3, <1>4, <1>5, <1>7, <1>8 DEF LinkOK, x

\* write takes some of what is left (csapp.c:749-770).
LEMMA WriteOK ==
  ASSUME NEW s, NEW l, NEW w, NEW r, NEW u, NEW c, NEW a, NEW b, NEW n \in 1..Len(l),
         LinkTyped(s, l, w, r, u, c), LinkOK(s, l, w, r, u, c, a, b), a, b,
         Len(w) + n <= Capacity
  PROVE  LinkTyped(s, SubSeq(l, n + 1, Len(l)), w \o SubSeq(l, 1, n), r, u, c)
         /\ LinkOK(s, SubSeq(l, n + 1, Len(l)), w \o SubSeq(l, 1, n), r, u, c, a, b)
<1>1. PICK p \in Seq(Chars), q \in Seq(Chars), x \in Seq(Chars) :
        /\ p = SubSeq(l, 1, n) /\ q = SubSeq(l, n + 1, Len(l)) /\ x = OnItsWay(u, r, w)
        /\ Len(p) = n /\ p \o q = l
  <2>1. l \in Seq(Chars) /\ OnItsWay(u, r, w) \in Seq(Chars)
    BY OnItsWayTyped DEF LinkTyped
  <2>2. /\ SubSeq(l, 1, n) \in Seq(Chars) /\ Len(SubSeq(l, 1, n)) = n
        /\ SubSeq(l, n + 1, Len(l)) \in Seq(Chars)
        /\ SubSeq(l, 1, n) \o SubSeq(l, n + 1, Len(l)) = l
    BY <2>1, Pieces
  <2> QED BY <2>1, <2>2
<1>2. /\ s \in Seq(Messages) /\ c \in Seq(Seq(Chars)) /\ u \in Seq(Chars) /\ r \in Seq(Chars)
      /\ w \in Seq(Chars)
  BY DEF LinkTyped
<1>3. Ordered(s, c, x, p \o q, a, b) /\ Whole(s, c, x, a)
  BY <1>1 DEF LinkOK
<1>4. PICK v \in Seq(Chars) : Joined(w, p, v)
  BY <1>2, JoinExists
<1>5. Len(v) = Len(w) + n
  BY <1>1, <1>4, JoinedAt
<1>6. Joined(x, p, OnItsWay(u, r, v))
  <2>1. PICK rw \in Seq(Chars) : Joined(r, w, rw)
    BY <1>2, JoinExists
  <2>2. PICK rv \in Seq(Chars) : Joined(r, v, rv)
    BY <1>2, JoinExists
  <2>3. Joined(u, rw, x) /\ Joined(u, rv, OnItsWay(u, r, v))
    BY <1>1, <1>2, <2>1, <2>2 DEF Joined, OnItsWay
  <2>4. Joined(rw, p, rv)
    BY <1>4, <2>1, <2>2, JoinLeft
  <2> QED BY <2>3, <2>4, JoinLeft
<1>7. Ordered(s, c, x \o p, q, a, b)
  BY <1>2, <1>3, OrderedWrite
<1>8. OnItsWay(u, r, v) = x \o p
  BY <1>6 DEF Joined
<1>9. Whole(s, c, x \o p, a)
  BY <1>3, WholeWrite
<1>10. Bounded(s, v, r, u)
  BY <1>5 DEF LinkOK, Bounded
<1>11. v = w \o SubSeq(l, 1, n)
  BY <1>1, <1>4 DEF Joined
<1>12. LinkOK(s, q, v, r, u, c, a, b)
  BY <1>7, <1>8, <1>9, <1>10 DEF LinkOK
<1>13. LinkTyped(s, q, v, r, u, c)
  BY DEF LinkTyped
<1> QED BY <1>1, <1>11, <1>12, <1>13

\* What the other end will not read is forgotten.
LEMMA WriteLostOK ==
  ASSUME NEW s, NEW l, NEW w, NEW r, NEW u, NEW c, NEW a, NEW b,
         LinkTyped(s, l, w, r, u, c), LinkOK(s, l, w, r, u, c, a, b), ~b
  PROVE  LinkTyped(s, <<>>, w, r, u, c) /\ LinkOK(s, <<>>, w, r, u, c, a, b)
<1>1. PICK x \in Seq(Chars) : x = OnItsWay(u, r, w)
  BY OnItsWayTyped DEF LinkTyped
<1>2. s \in Seq(Messages) /\ c \in Seq(Seq(Chars)) /\ Ordered(s, c, x, l, a, b)
  BY <1>1 DEF LinkTyped, LinkOK
<1>3. Ordered(s, c, x, <<>>, a, b)
  BY <1>2, OrderedLose
<1> QED BY <1>1, <1>3, EmptySeq DEF LinkTyped, LinkOK

\* read gives some of what is on its way (csapp.c:775-801).
LEMMA RefillOK ==
  ASSUME NEW s, NEW l, NEW w, NEW u, NEW c, NEW a, NEW b, NEW n \in 1..Len(w),
         LinkTyped(s, l, w, <<>>, u, c), LinkOK(s, l, w, <<>>, u, c, a, b), n <= RioSize
  PROVE  LinkTyped(s, l, SubSeq(w, n + 1, Len(w)), SubSeq(w, 1, n), u, c)
         /\ LinkOK(s, l, SubSeq(w, n + 1, Len(w)), SubSeq(w, 1, n), u, c, a, b)
<1>1. PICK p \in Seq(Chars), q \in Seq(Chars) :
        /\ p = SubSeq(w, 1, n) /\ q = SubSeq(w, n + 1, Len(w))
        /\ Len(p) = n /\ Len(q) = Len(w) - n /\ p \o q = w
  <2>1. w \in Seq(Chars)
    BY DEF LinkTyped
  <2>2. /\ SubSeq(w, 1, n) \in Seq(Chars) /\ Len(SubSeq(w, 1, n)) = n
        /\ SubSeq(w, n + 1, Len(w)) \in Seq(Chars) /\ Len(SubSeq(w, n + 1, Len(w))) = Len(w) - n
        /\ SubSeq(w, 1, n) \o SubSeq(w, n + 1, Len(w)) = w
    BY <2>1, Pieces
  <2> QED BY <2>2
<1>2. OnItsWay(u, p, q) = OnItsWay(u, <<>>, w)
  <2>1. <<>> \o w = w
    BY ConcatEmptySeq DEF LinkTyped
  <2> QED BY <1>1, <2>1 DEF OnItsWay
<1>3. Bounded(s, q, p, u)
  <2>1. Len(w) \in Nat /\ Capacity \in Nat
    BY LenProperties, ConnectionAssumption DEF LinkTyped
  <2>2. Bounded(s, w, <<>>, u)
    BY DEF LinkOK
  <2> QED BY <1>1, <2>1, <2>2 DEF Bounded
<1>4. LinkOK(s, l, q, p, u, c, a, b)
  BY <1>2, <1>3 DEF LinkOK
<1>5. LinkTyped(s, l, q, p, u, c)
  BY DEF LinkTyped
<1> QED BY <1>1, <1>4, <1>5

\* A line is taken from what is on its way: the next character ends it.
LEMMA NextLineOK ==
  ASSUME NEW s, NEW l, NEW w, NEW r, NEW u, NEW c, NEW a, NEW b, NEW line,
         LinkTyped(s, l, w, r, u, c), LinkOK(s, l, w, r, u, c, a, b), r # <<>>,
         line = Append(u, Head(r))
  PROVE  /\ LineEnds(line) =>
              /\ LinkTyped(s, l, w, Tail(r), <<>>, Append(c, line))
              /\ LinkOK(s, l, w, Tail(r), <<>>, Append(c, line), a, b)
         /\ ~LineEnds(line) =>
              /\ LinkTyped(s, l, w, Tail(r), line, c)
              /\ LinkOK(s, l, w, Tail(r), line, c, a, b)
<1>1. /\ s \in Seq(Messages) /\ c \in Seq(Seq(Chars)) /\ u \in Seq(Chars) /\ r \in Seq(Chars)
      /\ w \in Seq(Chars) /\ l \in Seq(Chars)
  BY DEF LinkTyped
<1>2. PICK h \in Chars, t \in Seq(Chars) :
        /\ h = Head(r) /\ t = Tail(r) /\ <<h>> \in Seq(Chars) /\ r = <<h>> \o t
        /\ Len(t) = Len(r) - 1 /\ Len(r) \in Nat
  BY <1>1, FirstAndRest
<1>3. /\ line \in Seq(Chars) /\ line = u \o <<h>> /\ line # <<>> /\ Len(line) = Len(u) + 1
      /\ Len(u) \in Nat /\ (\A i \in 1..Len(u) : line[i] = u[i]) /\ line[Len(line)] = h
  <2>1. Append(u, h) = u \o <<h>>
    BY <1>1, <1>2, AppendIsConcat
  <2>2. /\ Append(u, h) \in Seq(Chars) /\ Append(u, h) # <<>> /\ Len(Append(u, h)) = Len(u) + 1
        /\ (\A i \in 1..Len(u) : Append(u, h)[i] = u[i]) /\ Append(u, h)[Len(u) + 1] = h
    <3>1. u \in Seq(Chars)
      BY <1>1
    <3> QED BY <3>1, AppendProperties
  <2> QED BY <1>1, <1>2, <2>1, <2>2, LenProperties
<1>4. OnItsWay(u, r, w) = line \o (t \o w) /\ OnItsWay(line, t, w) = line \o (t \o w)
  <2>1. PICK tw \in Seq(Chars), rw \in Seq(Chars), z \in Seq(Chars) :
          Joined(t, w, tw) /\ Joined(r, w, rw) /\ Joined(u, rw, z)
    <3>1. PICK tw \in Seq(Chars), rw \in Seq(Chars) : Joined(t, w, tw) /\ Joined(r, w, rw)
      BY <1>1, JoinExists
    <3>2. PICK z \in Seq(Chars) : Joined(u, rw, z)
      BY <1>1, JoinExists
    <3> QED BY <3>1, <3>2
  <2>2. Joined(<<h>>, t, r) /\ Joined(u, <<h>>, line)
    BY <1>2, <1>3 DEF Joined
  <2>3. Joined(<<h>>, tw, rw)
    BY <1>1, <1>2, <2>1, <2>2, JoinRight
  <2>4. Joined(line, tw, z)
    BY <1>1, <1>2, <1>3, <2>1, <2>2, <2>3, JoinLeft
  <2> QED BY <2>1, <2>4 DEF Joined, OnItsWay
<1>5. Bounded(s, w, r, u)
  BY DEF LinkOK
<1>6. Len(t) <= RioSize
  BY <1>2, <1>5, ConnectionAssumption DEF Bounded
<1>7. PICK y \in Seq(Chars) : y = t \o w
  BY <1>1, <1>2, ConcatProperties
<1>8. Ordered(s, c, line \o y, l, a, b) /\ Whole(s, c, line \o y, a)
  BY <1>4, <1>7 DEF LinkOK
<1>9. \A i \in 1..Len(line) - 1 : line[i] # Newline
  BY <1>3, <1>5 DEF Bounded
<1>10. CASE LineEnds(line)
  <2>1. Ordered(s, Append(c, line), y, l, a, b)
    BY <1>1, <1>3, <1>8, OrderedTake
  <2>2. Whole(s, Append(c, line), y, a)
    BY <1>1, <1>3, <1>8, <1>9, <1>10, WholeTake
  <2>3. OnItsWay(<<>>, t, w) = y
    BY <1>7, ConcatEmptySeq DEF OnItsWay
  <2>4. Bounded(s, w, t, <<>>)
    BY <1>5, <1>6, ConnectionAssumption DEF Bounded
  <2>5. LinkOK(s, l, w, t, <<>>, Append(c, line), a, b)
    BY <2>1, <2>2, <2>3, <2>4 DEF LinkOK
  <2>6. LinkTyped(s, l, w, t, <<>>, Append(c, line))
    BY <1>1, <1>3, OneMoreLine, EmptySeq DEF LinkTyped
  <2> QED BY <1>2, <1>10, <2>5, <2>6
<1>11. CASE ~LineEnds(line)
  <2>1. Last(line) = line[Len(line)]
    BY DEF Last
  <2>2. h # Newline /\ Len(line) # MAX_LEN - 1
    BY <1>3, <1>11, <2>1 DEF LineEnds
  <2>3. \A i \in 1..Len(line) : line[i] # Newline
    BY <1>3, <1>9, <2>2
  <2>4. Len(line) < MAX_LEN - 1
    <3>1. Len(u) < MAX_LEN - 1 /\ MAX_LEN \in Nat
      BY <1>5, ConnectionAssumption DEF Bounded
    <3>2. Len(line) = Len(u) + 1 /\ Len(u) \in Nat
      BY <1>3
    <3> QED BY <2>2, <3>1, <3>2
  <2>5. Bounded(s, w, t, line)
    BY <1>5, <1>6, <2>3, <2>4 DEF Bounded
  <2>6. LinkOK(s, l, w, t, line, c, a, b)
    BY <1>4, <1>7, <1>8, <2>5 DEF LinkOK
  <2>7. LinkTyped(s, l, w, t, line, c)
    BY <1>1, <1>3 DEF LinkTyped
  <2> QED BY <1>2, <1>11, <2>6, <2>7
<1> QED BY <1>10, <1>11

\* The end of the file makes a line of what has been collected.
LEMMA LastLineOK ==
  ASSUME NEW s, NEW l, NEW u, NEW c, NEW a, NEW b,
         LinkTyped(s, l, <<>>, <<>>, u, c), LinkOK(s, l, <<>>, <<>>, u, c, a, b), ~a, u # <<>>
  PROVE  /\ LinkTyped(s, l, <<>>, <<>>, <<>>, Append(c, u))
         /\ LinkOK(s, l, <<>>, <<>>, <<>>, Append(c, u), a, b)
<1>1. /\ s \in Seq(Messages) /\ c \in Seq(Seq(Chars)) /\ u \in Seq(Chars) /\ l \in Seq(Chars)
      /\ <<>> \in Seq(Chars)
  BY EmptySeq DEF LinkTyped
<1>2. Bounded(s, <<>>, <<>>, u) /\ Ordered(s, c, u, l, a, b) /\ Whole(s, c, u, a)
  BY <1>1, EmptyOnItsWay DEF LinkOK
<1>3. u = u \o <<>>
  BY <1>1, ConcatEmptySeq
<1>4. Ordered(s, c, u \o <<>>, l, a, b)
  BY <1>2, <1>3
<1>5. Ordered(s, Append(c, u), <<>>, l, a, b)
  BY <1>1, <1>4, OrderedTake
<1>6. \A i \in 1..Len(u) : u[i] # Newline
  BY <1>2 DEF Bounded
<1>7. Whole(s, Append(c, u), <<>>, a)
  BY <1>1, <1>2, <1>6, WholeLast
<1>8. Bounded(s, <<>>, <<>>, <<>>)
  BY <1>2, ConnectionAssumption DEF Bounded
<1> QED BY <1>1, <1>5, <1>7, <1>8, EmptyOnItsWay, OneMoreLine DEF LinkOK, LinkTyped

\* What was on its way when the connection was reset does not come.
LEMMA ResetOK ==
  ASSUME NEW s, NEW l, NEW w, NEW u, NEW c, NEW a, NEW b,
         LinkTyped(s, l, w, <<>>, u, c), LinkOK(s, l, w, <<>>, u, c, a, b), ~a
  PROVE  LinkTyped(s, l, <<>>, <<>>, <<>>, c) /\ LinkOK(s, l, <<>>, <<>>, <<>>, c, a, b)
<1>1. PICK x \in Seq(Chars) : x = OnItsWay(u, <<>>, w)
  BY EmptySeq, OnItsWayTyped DEF LinkTyped
<1>2. s \in Seq(Messages) /\ c \in Seq(Seq(Chars)) /\ Ordered(s, c, x, l, a, b) /\ Whole(s, c, x, a)
  BY <1>1 DEF LinkTyped, LinkOK
<1>3. Ordered(s, c, <<>>, l, a, b) /\ Whole(s, c, <<>>, a)
  BY <1>2, OrderedLose, WholeLose
<1>4. Bounded(s, <<>>, <<>>, <<>>)
  BY ConnectionAssumption DEF LinkOK, Bounded
<1> QED BY <1>3, <1>4, EmptySeq, EmptyOnItsWay DEF LinkOK, LinkTyped

\* An end closes, or nothing happens to the ends.
LEMMA CloseOK ==
  ASSUME NEW s, NEW l, NEW w, NEW r, NEW u, NEW c, NEW a, NEW b, NEW a2, NEW b2,
         a2 => a, b2 => b, LinkOK(s, l, w, r, u, c, a, b)
  PROVE  LinkOK(s, l, w, r, u, c, a2, b2)
BY OrderedClose, WholeClose DEF LinkOK

\* A new connection.
LEMMA NewOK ==
  ASSUME NEW a, NEW b
  PROVE  LinkTyped(<<>>, <<>>, <<>>, <<>>, <<>>, <<>>)
         /\ LinkOK(<<>>, <<>>, <<>>, <<>>, <<>>, <<>>, a, b)
<1>1. Bounded(<<>>, <<>>, <<>>, <<>>)
  BY ConnectionAssumption DEF Bounded
<1> QED BY <1>1, OrderedEmpty, WholeEmpty, EmptyOnItsWay, EmptySeq DEF LinkOK, LinkTyped

-----------------------------------------------------------------------------
(* The steps of the ends keep every link as it should be                     *)

ConnectionInv ==
  /\ ConnectionTypes
  /\ \A d \in Links :
       LinkOK(sent[d], left[d], wire[d], rio_buf[d], usrbuf[d], received[d], open[d[1]], open[d[2]])

\* One link becomes what is said, the others stay as they are.
Becomes(d, s, l, w, r, u, c) ==
  /\ sent' = [sent EXCEPT ![d] = s] /\ left' = [left EXCEPT ![d] = l]
  /\ wire' = [wire EXCEPT ![d] = w] /\ rio_buf' = [rio_buf EXCEPT ![d] = r]
  /\ usrbuf' = [usrbuf EXCEPT ![d] = u] /\ received' = [received EXCEPT ![d] = c]

\* m_last_result stays a result.
LEMMA ResultTyped ==
  ASSUME ConnectionTypes, NEW e \in Ends, NEW r \in Results,
         Result(e, r) \/ UNCHANGED m_last_result
  PROVE  m_last_result' \in [Ends -> Results]
BY DEF ConnectionTypes, Result

\* What is said of one link, when it is so.
LEMMA LinkFacts ==
  ASSUME ConnectionInv, NEW d \in Links
  PROVE  /\ LinkTyped(sent[d], left[d], wire[d], rio_buf[d], usrbuf[d], received[d])
         /\ LinkOK(sent[d], left[d], wire[d], rio_buf[d], usrbuf[d], received[d],
                   open[d[1]], open[d[2]])
BY LinkTypes DEF ConnectionInv, LinkTyped

\* Changing one link to what it may be keeps them all.
LEMMA OneLink ==
  ASSUME ConnectionInv, NEW d \in Links, NEW s, NEW l, NEW w, NEW r, NEW u, NEW c,
         Becomes(d, s, l, w, r, u, c), UNCHANGED open, m_last_result' \in [Ends -> Results],
         LinkTyped(s, l, w, r, u, c), LinkOK(s, l, w, r, u, c, open[d[1]], open[d[2]])
  PROVE  ConnectionInv'
<1>1. ConnectionTypes
  BY DEF ConnectionInv
<1>2. /\ sent' \in [Links -> Seq(Messages)] /\ left' \in [Links -> Seq(Chars)]
      /\ wire' \in [Links -> Seq(Chars)] /\ rio_buf' \in [Links -> Seq(Chars)]
      /\ usrbuf' \in [Links -> Seq(Chars)] /\ received' \in [Links -> Seq(Seq(Chars))]
  BY <1>1 DEF ConnectionTypes, Becomes, LinkTyped
<1>3. open' \in [Ends -> BOOLEAN]
  BY <1>1 DEF ConnectionTypes
<1>4. ConnectionTypes'
  BY <1>2, <1>3 DEF ConnectionTypes
<1>5. ASSUME NEW e \in Links
      PROVE  LinkOK(sent'[e], left'[e], wire'[e], rio_buf'[e], usrbuf'[e], received'[e],
                    open'[e[1]], open'[e[2]])
  <2>1. CASE e = d
    <3>1. /\ sent'[e] = s /\ left'[e] = l /\ wire'[e] = w
          /\ rio_buf'[e] = r /\ usrbuf'[e] = u /\ received'[e] = c
      BY <1>1, <2>1 DEF ConnectionTypes, Becomes
    <3> QED BY <2>1, <3>1
  <2>2. CASE e # d
    <3>1. /\ sent'[e] = sent[e] /\ left'[e] = left[e] /\ wire'[e] = wire[e]
          /\ rio_buf'[e] = rio_buf[e] /\ usrbuf'[e] = usrbuf[e] /\ received'[e] = received[e]
      BY <1>1, <2>2 DEF ConnectionTypes, Becomes
    <3> QED BY <3>1 DEF ConnectionInv
  <2> QED BY <2>1, <2>2
<1> QED BY <1>4, <1>5 DEF ConnectionInv

\* send begins to write a message.
LEMMA SendKeeps ==
  ASSUME ConnectionInv, NEW d \in Links, NEW msg \in Messages, Send(d, msg)
  PROVE  ConnectionInv'
<1>1. ConnectionTypes
  BY DEF ConnectionInv
<1>2. /\ LinkTyped(sent[d], <<>>, wire[d], rio_buf[d], usrbuf[d], received[d])
      /\ LinkOK(sent[d], <<>>, wire[d], rio_buf[d], usrbuf[d], received[d], open[d[1]], open[d[2]])
      /\ open[d[1]] /\ Valid(msg)
  BY LinkFacts DEF Send
<1>3. /\ LinkTyped(Append(sent[d], msg), Encode(msg), wire[d], rio_buf[d], usrbuf[d], received[d])
      /\ LinkOK(Append(sent[d], msg), Encode(msg), wire[d], rio_buf[d], usrbuf[d], received[d],
                open[d[1]], open[d[2]])
  BY <1>2, SendOK
<1>4. Becomes(d, Append(sent[d], msg), Encode(msg), wire[d], rio_buf[d], usrbuf[d], received[d])
  BY <1>1 DEF Send, Becomes, ConnectionTypes, reading
<1>5. UNCHANGED open /\ m_last_result' \in [Ends -> Results]
  BY <1>1 DEF Send, ConnectionTypes
<1> QED BY <1>3, <1>4, <1>5, OneLink

\* A step that leaves the links and their ends alone.
LEMMA NothingMoved ==
  ASSUME ConnectionInv, UNCHANGED <<open, writing, wire, reading>>,
         m_last_result' \in [Ends -> Results]
  PROVE  ConnectionInv'
BY DEF ConnectionInv, ConnectionTypes, writing, reading

\* send refuses a message.
LEMMA SendRefusedKeeps ==
  ASSUME ConnectionInv, NEW d \in Links, NEW msg, SendRefused(d, msg)
  PROVE  ConnectionInv'
<1>1. m_last_result' \in [Ends -> Results]
  BY LinksHaveEnds, ResultTyped DEF SendRefused, ConnectionInv, Results
<1> QED BY <1>1, NothingMoved DEF SendRefused

\* write, short or not.
LEMMA WriteKeeps ==
  ASSUME ConnectionInv, NEW d \in Links, Write(d)
  PROVE  ConnectionInv'
<1>1. ConnectionTypes
  BY DEF ConnectionInv
<1>2. /\ LinkTyped(sent[d], left[d], wire[d], rio_buf[d], usrbuf[d], received[d])
      /\ LinkOK(sent[d], left[d], wire[d], rio_buf[d], usrbuf[d], received[d],
                open[d[1]], open[d[2]])
      /\ open[d[1]] /\ open[d[2]]
  BY LinkFacts DEF Write
<1>3. PICK n \in 1..Len(left[d]) :
        /\ Len(wire[d]) + n <= Capacity
        /\ wire' = [wire EXCEPT ![d] = @ \o SubSeq(left[d], 1, n)]
        /\ left' = [left EXCEPT ![d] = SubSeq(@, n + 1, Len(@))]
  BY DEF Write
<1> DEFINE l == SubSeq(left[d], n + 1, Len(left[d]))
           w == wire[d] \o SubSeq(left[d], 1, n)
<1>4. /\ LinkTyped(sent[d], l, w, rio_buf[d], usrbuf[d], received[d])
      /\ LinkOK(sent[d], l, w, rio_buf[d], usrbuf[d], received[d], open[d[1]], open[d[2]])
  BY <1>2, <1>3, WriteOK
<1>5. Becomes(d, sent[d], l, w, rio_buf[d], usrbuf[d], received[d])
  BY <1>1, <1>3 DEF Write, Becomes, ConnectionTypes, reading
<1>6. UNCHANGED open
  BY DEF Write
<1>7. m_last_result' \in [Ends -> Results]
  BY <1>1, LinksHaveEnds, ResultTyped DEF Write, Results
<1> HIDE DEF l, w
<1> QED BY <1>4, <1>5, <1>6, <1>7, OneLink

\* write when nobody is there to read.
LEMMA WriteLostKeeps ==
  ASSUME ConnectionInv, NEW d \in Links, WriteLost(d)
  PROVE  ConnectionInv'
<1>1. ConnectionTypes
  BY DEF ConnectionInv
<1>2. /\ LinkTyped(sent[d], <<>>, wire[d], rio_buf[d], usrbuf[d], received[d])
      /\ LinkOK(sent[d], <<>>, wire[d], rio_buf[d], usrbuf[d], received[d],
                open[d[1]], open[d[2]])
  <2>1. /\ LinkTyped(sent[d], left[d], wire[d], rio_buf[d], usrbuf[d], received[d])
        /\ LinkOK(sent[d], left[d], wire[d], rio_buf[d], usrbuf[d], received[d],
                  open[d[1]], open[d[2]])
    BY LinkFacts
  <2>2. ~open[d[2]]
    BY DEF WriteLost
  <2> QED BY <2>1, <2>2, WriteLostOK
<1>3. Becomes(d, sent[d], <<>>, wire[d], rio_buf[d], usrbuf[d], received[d])
  BY <1>1 DEF WriteLost, Becomes, ConnectionTypes, reading
<1>4. UNCHANGED open
  BY DEF WriteLost
<1>5. m_last_result' \in [Ends -> Results]
  BY <1>1, LinksHaveEnds, ResultTyped DEF WriteLost, Results
<1> QED BY <1>2, <1>3, <1>4, <1>5, OneLink

\* read, short or not.
LEMMA RefillKeeps ==
  ASSUME ConnectionInv, NEW d \in Links, Refill(d)
  PROVE  ConnectionInv'
<1>1. ConnectionTypes
  BY DEF ConnectionInv
<1>2. /\ LinkTyped(sent[d], left[d], wire[d], <<>>, usrbuf[d], received[d])
      /\ LinkOK(sent[d], left[d], wire[d], <<>>, usrbuf[d], received[d],
                open[d[1]], open[d[2]])
  BY LinkFacts DEF Refill
<1>3. PICK n \in 1..Len(wire[d]) :
        /\ n <= RioSize
        /\ rio_buf' = [rio_buf EXCEPT ![d] = SubSeq(wire[d], 1, n)]
        /\ wire' = [wire EXCEPT ![d] = SubSeq(@, n + 1, Len(@))]
  BY DEF Refill
<1> DEFINE w == SubSeq(wire[d], n + 1, Len(wire[d]))
           r == SubSeq(wire[d], 1, n)
<1>4. /\ LinkTyped(sent[d], left[d], w, r, usrbuf[d], received[d])
      /\ LinkOK(sent[d], left[d], w, r, usrbuf[d], received[d], open[d[1]], open[d[2]])
  BY <1>2, <1>3, RefillOK
<1>5. Becomes(d, sent[d], left[d], w, r, usrbuf[d], received[d])
  BY <1>1, <1>3 DEF Refill, Becomes, ConnectionTypes, writing
<1>6. UNCHANGED open /\ m_last_result' \in [Ends -> Results]
  BY <1>1 DEF Refill, ConnectionTypes
<1> HIDE DEF r, w
<1> QED BY <1>4, <1>5, <1>6, OneLink

\* rio_readlineb takes a character.
LEMMA NextCharKeeps ==
  ASSUME ConnectionInv, NEW d \in Links, NextChar(d)
  PROVE  ConnectionInv'
<1>1. ConnectionTypes
  BY DEF ConnectionInv
<1> DEFINE line == Append(usrbuf[d], Head(rio_buf[d]))
<1>2. /\ LinkTyped(sent[d], left[d], wire[d], rio_buf[d], usrbuf[d], received[d])
      /\ LinkOK(sent[d], left[d], wire[d], rio_buf[d], usrbuf[d], received[d],
                open[d[1]], open[d[2]])
      /\ rio_buf[d] # <<>>
  BY LinkFacts DEF NextChar
<1>3. UNCHANGED open
  BY DEF NextChar
<1>4. m_last_result' \in [Ends -> Results]
  BY <1>1, LinksHaveEnds, ResultTyped DEF NextChar, Received, Results
<1>5. CASE LineEnds(line)
  <2>1. /\ LinkTyped(sent[d], left[d], wire[d], Tail(rio_buf[d]), <<>>, Append(received[d], line))
        /\ LinkOK(sent[d], left[d], wire[d], Tail(rio_buf[d]), <<>>, Append(received[d], line),
                  open[d[1]], open[d[2]])
    BY <1>2, <1>5, NextLineOK
  <2>2. Becomes(d, sent[d], left[d], wire[d], Tail(rio_buf[d]), <<>>, Append(received[d], line))
    BY <1>1, <1>5 DEF NextChar, Received, Becomes, ConnectionTypes, writing
  <2> QED BY <1>3, <1>4, <2>1, <2>2, OneLink
<1>6. CASE ~LineEnds(line)
  <2>1. /\ LinkTyped(sent[d], left[d], wire[d], Tail(rio_buf[d]), line, received[d])
        /\ LinkOK(sent[d], left[d], wire[d], Tail(rio_buf[d]), line, received[d],
                  open[d[1]], open[d[2]])
    BY <1>2, <1>6, NextLineOK
  <2>2. Becomes(d, sent[d], left[d], wire[d], Tail(rio_buf[d]), line, received[d])
    BY <1>1, <1>6 DEF NextChar, Becomes, ConnectionTypes, writing
  <2> QED BY <1>3, <1>4, <2>1, <2>2, OneLink
<1> QED BY <1>5, <1>6

\* rio_readlineb at the end of the file.
LEMMA LastLineKeeps ==
  ASSUME ConnectionInv, NEW d \in Links, LastLine(d)
  PROVE  ConnectionInv'
<1>1. ConnectionTypes
  BY DEF ConnectionInv
<1>2. /\ LinkTyped(sent[d], left[d], <<>>, <<>>, usrbuf[d], received[d])
      /\ LinkOK(sent[d], left[d], <<>>, <<>>, usrbuf[d], received[d], open[d[1]], open[d[2]])
      /\ ~open[d[1]] /\ usrbuf[d] # <<>>
  BY LinkFacts DEF LastLine, AtEndOfFile
<1>3. /\ LinkTyped(sent[d], left[d], <<>>, <<>>, <<>>, Append(received[d], usrbuf[d]))
      /\ LinkOK(sent[d], left[d], <<>>, <<>>, <<>>, Append(received[d], usrbuf[d]),
                open[d[1]], open[d[2]])
  BY <1>2, LastLineOK
<1>4. Becomes(d, sent[d], left[d], <<>>, <<>>, <<>>, Append(received[d], usrbuf[d]))
  BY <1>1 DEF LastLine, AtEndOfFile, Received, Becomes, ConnectionTypes, writing
<1>5. UNCHANGED open
  BY DEF LastLine
<1>6. m_last_result' \in [Ends -> Results]
  BY <1>1, LinksHaveEnds, ResultTyped DEF LastLine, Received, Results
<1> QED BY <1>3, <1>4, <1>5, <1>6, OneLink

\* receive finds the end of the file, or a connection that was reset.
LEMMA ReceiveFailsKeeps ==
  ASSUME ConnectionInv, NEW d \in Links, ReceiveFails(d)
  PROVE  ConnectionInv'
<1>1. ConnectionTypes
  BY DEF ConnectionInv
<1>2. /\ LinkTyped(sent[d], left[d], wire[d], <<>>, usrbuf[d], received[d])
      /\ LinkOK(sent[d], left[d], wire[d], <<>>, usrbuf[d], received[d], open[d[1]], open[d[2]])
      /\ ~open[d[1]]
  BY LinkFacts DEF ReceiveFails
<1>3. /\ LinkTyped(sent[d], left[d], <<>>, <<>>, <<>>, received[d])
      /\ LinkOK(sent[d], left[d], <<>>, <<>>, <<>>, received[d], open[d[1]], open[d[2]])
  BY <1>2, ResetOK
<1>4. Becomes(d, sent[d], left[d], <<>>, <<>>, <<>>, received[d])
  BY <1>1 DEF ReceiveFails, AtEndOfFile, Becomes, ConnectionTypes, writing
<1>5. UNCHANGED open
  BY DEF ReceiveFails
<1>6. m_last_result' \in [Ends -> Results]
  BY <1>1, LinksHaveEnds, ResultTyped DEF ReceiveFails, Results
<1> QED BY <1>3, <1>4, <1>5, <1>6, OneLink

\* An end goes away.
LEMMA CloseKeeps ==
  ASSUME ConnectionInv, NEW e \in Ends, Close(e)
  PROVE  ConnectionInv'
<1>1. open \in [Ends -> BOOLEAN] /\ open' = [open EXCEPT ![e] = FALSE]
  BY DEF Close, ConnectionInv, ConnectionTypes
<1>2. ConnectionTypes'
  BY <1>1 DEF Close, ConnectionInv, ConnectionTypes, writing, reading
<1>3. \A f \in Ends : open'[f] => open[f]
  BY <1>1
<1>4. ASSUME NEW d \in Links
      PROVE  LinkOK(sent'[d], left'[d], wire'[d], rio_buf'[d], usrbuf'[d], received'[d],
                    open'[d[1]], open'[d[2]])
  <2>1. LinkOK(sent[d], left[d], wire[d], rio_buf[d], usrbuf[d], received[d],
               open[d[1]], open[d[2]])
    BY DEF ConnectionInv
  <2>2. LinkOK(sent[d], left[d], wire[d], rio_buf[d], usrbuf[d], received[d],
               open'[d[1]], open'[d[2]])
    BY <1>3, <2>1, LinksHaveEnds, CloseOK
  <2> QED BY <2>2 DEF Close, writing, reading
<1> QED BY <1>2, <1>4 DEF ConnectionInv

\* A connection is made.
LEMMA OpenedKeeps ==
  ASSUME ConnectionInv, Opened
  PROVE  ConnectionInv'
<1>1. ConnectionTypes'
  BY DEF Opened, ConnectionInv, ConnectionTypes, writing, reading
<1>2. ASSUME NEW d \in Links
      PROVE  LinkOK(sent'[d], left'[d], wire'[d], rio_buf'[d], usrbuf'[d], received'[d],
                    open'[d[1]], open'[d[2]])
  BY NewOK DEF Opened, writing, reading
<1> QED BY <1>1, <1>2 DEF ConnectionInv

\* At the start nothing has been sent.
LEMMA StreamsStart ==
  ASSUME InitStreams, open \in [Ends -> BOOLEAN]
  PROVE  ConnectionInv
<1>1. ConnectionTypes
  BY EmptySeq DEF InitStreams, ConnectionTypes, Results
<1>2. ASSUME NEW d \in Links
      PROVE  LinkOK(sent[d], left[d], wire[d], rio_buf[d], usrbuf[d], received[d],
                    open[d[1]], open[d[2]])
  BY NewOK DEF InitStreams
<1> QED BY <1>1, <1>2 DEF ConnectionInv

\* Whatever is done at either end keeps the invariant.
LEMMA ConnectionStepKeeps ==
  ASSUME ConnectionInv, ConnectionStep
  PROVE  ConnectionInv'
<1>1. CASE \E d \in Links, msg \in Messages : Send(d, msg) \/ SendRefused(d, msg)
  BY <1>1, SendKeeps, SendRefusedKeeps
<1>2. CASE \E d \in Links : Transfer(d)
  BY <1>2, WriteKeeps, WriteLostKeeps, RefillKeeps, NextCharKeeps, LastLineKeeps,
     ReceiveFailsKeeps DEF Transfer
<1>3. CASE \E e \in Ends : Close(e)
  BY <1>3, CloseKeeps
<1>4. CASE Opened
  BY <1>4, OpenedKeeps
<1> QED BY <1>1, <1>2, <1>3, <1>4 DEF ConnectionStep, LinkStep

-----------------------------------------------------------------------------
(* What holds of every link                                                  *)

\* The streams have their types, the buffers their sizes.
LEMMA InvTypes ==
  ASSUME ConnectionInv
  PROVE  StreamsOK
<1>1. ConnectionTypes
  BY DEF ConnectionInv
<1>2. ASSUME NEW d \in Links
      PROVE  /\ sent[d] \in Seq(Messages)
             /\ \A k \in DOMAIN sent[d] : Len(sent[d][k].data) <= MAX_LEN
             /\ left[d] \in Seq(Chars)
             /\ wire[d] \in Seq(Chars) /\ Len(wire[d]) <= Capacity
             /\ rio_buf[d] \in Seq(Chars) /\ Len(rio_buf[d]) <= RioSize
             /\ usrbuf[d] \in Seq(Chars) /\ Len(usrbuf[d]) < MAX_LEN - 1
             /\ received[d] \in Seq(Seq(Chars))
  <2>1. Bounded(sent[d], wire[d], rio_buf[d], usrbuf[d])
    BY LinkFacts DEF LinkOK
  <2>2. sent[d] \in Seq(Messages) /\ DOMAIN sent[d] = 1..Len(sent[d])
    BY <1>1, LinkTypes, LenProperties
  <2> QED BY <1>1, <2>1, <2>2, LinkTypes DEF Bounded
<1> QED BY <1>1, <1>2 DEF StreamsOK, ConnectionTypes

\* Bytes that have come out and bytes that have not, in one row.
InOneRow(f, u, r, w, v) == (((f \o u) \o r) \o w) \o v = f \o (OnItsWay(u, r, w) \o v)

\* What has come out, lost or not what follows, is how the row starts.
LEMMA Together ==
  ASSUME NEW f \in Seq(Chars), NEW u \in Seq(Chars), NEW r \in Seq(Chars), NEW w \in Seq(Chars),
         NEW v \in Seq(Chars)
  PROVE  /\ IsPrefix((f \o u) \o r, f \o (OnItsWay(u, r, w) \o v))
         /\ InOneRow(f, u, r, w, v)
<1>1. PICK rw \in Seq(Chars), x \in Seq(Chars), y \in Seq(Chars), wv \in Seq(Chars),
           rwv \in Seq(Chars) :
        /\ Joined(r, w, rw) /\ Joined(u, rw, x) /\ Joined(x, v, y)
        /\ Joined(w, v, wv) /\ Joined(rw, v, rwv)
  <2>1. PICK rw \in Seq(Chars), wv \in Seq(Chars) : Joined(r, w, rw) /\ Joined(w, v, wv)
    BY JoinExists
  <2>2. PICK x \in Seq(Chars), rwv \in Seq(Chars) : Joined(u, rw, x) /\ Joined(rw, v, rwv)
    BY JoinExists
  <2>3. PICK y \in Seq(Chars) : Joined(x, v, y)
    BY JoinExists
  <2> QED BY <2>1, <2>2, <2>3
<1>2. PICK fu \in Seq(Chars), t \in Seq(Chars), tw \in Seq(Chars) :
        Joined(f, u, fu) /\ Joined(fu, r, t) /\ Joined(t, w, tw)
  <2>1. PICK fu \in Seq(Chars) : Joined(f, u, fu)
    BY JoinExists
  <2>2. PICK t \in Seq(Chars) : Joined(fu, r, t)
    BY JoinExists
  <2>3. PICK tw \in Seq(Chars) : Joined(t, w, tw)
    BY JoinExists
  <2> QED BY <2>1, <2>2, <2>3
<1>3. PICK z \in Seq(Chars) : Joined(f, y, z)
  BY JoinExists
<1>0. z = f \o (OnItsWay(u, r, w) \o v)
  BY <1>1, <1>3 DEF Joined, OnItsWay
<1>4. Joined(r, wv, rwv)
  BY <1>1, JoinRight
<1>5. Joined(u, rwv, y)
  BY <1>1, JoinRight
<1>6. Joined(fu, rwv, z)
  BY <1>2, <1>3, <1>5, JoinLeft
<1>7. Joined(t, wv, z)
  BY <1>2, <1>4, <1>6, JoinLeft
<1>8. Joined(tw, v, z)
  BY <1>1, <1>2, <1>7, JoinLeft
<1>9. t = (f \o u) \o r /\ (((f \o u) \o r) \o w) \o v = z
  BY <1>2, <1>8 DEF Joined
<1>10. IsPrefix(t, z)
  BY <1>1, <1>2, <1>7, PrefixGoesOn DEF Joined
<1> QED BY <1>0, <1>9, <1>10 DEF InOneRow

\* Bytes come out in the order they went in.
LEMMA InvOrders ==
  ASSUME ConnectionInv
  PROVE  BytesInOrder
<1> SUFFICES ASSUME NEW d \in Links
             PROVE  /\ IsPrefix(TakenOut(d), Encodings(d))
                    /\ open[d[1]] /\ open[d[2]] => TakenOut(d) \o wire[d] \o left[d] = Encodings(d)
  BY DEF BytesInOrder
<1>1. ConnectionTypes
  BY DEF ConnectionInv
<1>2. PICK f \in Seq(Chars), u \in Seq(Chars), r \in Seq(Chars), w \in Seq(Chars),
           l \in Seq(Chars), z \in Seq(Chars) :
        /\ f = FlattenSeq(received[d]) /\ u = usrbuf[d] /\ r = rio_buf[d] /\ w = wire[d]
        /\ l = left[d] /\ z = FlattenSeq(Encoded(sent[d]))
  <2>1. sent[d] \in Seq(Messages) /\ received[d] \in Seq(Seq(Chars))
    BY <1>1, LinkTypes
  <2>2. FlattenSeq(received[d]) \in Seq(Chars) /\ FlattenSeq(Encoded(sent[d])) \in Seq(Chars)
    BY <2>1, FlattenTyped, EncodedTyped
  <2> QED BY <1>1, <2>2, LinkTypes
<1>3. TakenOut(d) = (f \o u) \o r /\ Encodings(d) = z
  BY <1>2 DEF TakenOut, Encodings, Encoded
<1>4. Ordered(sent[d], received[d], OnItsWay(u, r, w), l, open[d[1]], open[d[2]])
  BY <1>2, LinkFacts DEF LinkOK
<1>5. PICK lost \in Seq(Chars) : z = f \o (OnItsWay(u, r, w) \o lost)
  BY <1>2, <1>4 DEF Ordered
<1>6. IsPrefix((f \o u) \o r, z)
  BY <1>5, Together
<1>7. ASSUME open[d[1]], open[d[2]] PROVE (((f \o u) \o r) \o w) \o l = z
  <2>1. z = f \o (OnItsWay(u, r, w) \o l)
    BY <1>2, <1>4, <1>7 DEF Ordered
  <2>2. InOneRow(f, u, r, w, l)
    BY Together
  <2> QED BY <2>1, <2>2 DEF InOneRow
<1> QED BY <1>2, <1>3, <1>6, <1>7

\* Messages that fit arrive whole, and as they were sent.
LEMMA InvArrives ==
  ASSUME ConnectionInv
  PROVE  MessagesArriveWhole
<1> SUFFICES ASSUME NEW d \in Links, LinesOfAtMost(d, MAX_LEN - 1), NEW k \in DOMAIN received[d]
             PROVE  /\ InTurn(d, k)
                    /\ received[d][k] = Encode(sent[d][k]) =>
                         Parse(received[d][k]) =
                           [tag |-> sent[d][k].tag, data |-> sent[d][k].data \o <<Newline>>]
  BY DEF MessagesArriveWhole
<1>1. ConnectionTypes
  BY DEF ConnectionInv
<1>2. PICK s \in Seq(Messages), c \in Seq(Seq(Chars)) : s = sent[d] /\ c = received[d]
  BY <1>1, LinkTypes
<1>3. /\ DOMAIN s = 1..Len(s) /\ Len(s) \in Nat /\ DOMAIN c = 1..Len(c) /\ Len(c) \in Nat
      /\ k \in 1..Len(c) /\ \A i \in 1..Len(s) : s[i] \in Messages
  BY <1>2, LenProperties, ElementOfSeq
<1>4. Short(s)
  BY <1>2, <1>3 DEF LinesOfAtMost, Short
<1>5. PICK x : Whole(s, c, x, open[d[1]])
  BY <1>2, LinkFacts DEF LinkOK
<1>6. /\ Len(c) <= Len(s)
      /\ \/ \A i \in 1..Len(c) : c[i] = Encode(s[i])
         \/ /\ ~open[d[1]] /\ c # <<>>
            /\ \A i \in 1..Len(c) - 1 : c[i] = Encode(s[i])
            /\ IsPrefix(c[Len(c)], Encode(s[Len(c)]))
  BY <1>4, <1>5 DEF Whole
<1>7. k \in 1..Len(s) /\ s[k] \in Messages
  BY <1>3, <1>6
<1>8. \/ c[k] = Encode(s[k])
      \/ ~open[d[1]] /\ k = Len(c) /\ IsPrefix(c[k], Encode(s[k]))
  <2>1. CASE k = Len(c)
    BY <2>1, <1>3, <1>6
  <2>2. CASE k \in 1..Len(c) - 1
    BY <2>2, <1>3, <1>6
  <2> QED BY <2>1, <2>2, <1>3
<1>9. InTurn(d, k)
  BY <1>2, <1>3, <1>7, <1>8 DEF InTurn
<1>10. Parse(Encode(s[k])) = [tag |-> s[k].tag, data |-> s[k].data \o <<Newline>>]
  BY <1>7, ParseEncoded
<1> QED BY <1>2, <1>9, <1>10

-----------------------------------------------------------------------------
(* What parsing gives, whatever the line                                     *)

\* A piece of a string is a string.
LEMMA PieceTyped ==
  ASSUME NEW S, NEW s \in Seq(S), NEW m \in Nat \ {0}, NEW n \in 0..Len(s)
  PROVE  SubSeq(s, m, n) \in Seq(S)
<1>1. Len(s) \in Nat /\ n \in Nat /\ n <= Len(s) /\ \A i \in 1..Len(s) : s[i] \in S
  BY LenProperties, ElementOfSeq
<1>2. \A i \in m..n : s[i] \in S
  BY <1>1
<1> QED BY <1>1, <1>2, SubSeqProperties

\* The data of a message that has been received is a string.
LEMMA ParseTyped ==
  ASSUME NEW line \in Seq(Chars)
  PROVE  Parse(line).data \in Seq(Chars)
<1> DEFINE I == {i \in 1..Len(line) : line[i] = Colon}
<1>1. Len(line) \in Nat
  BY LenProperties
<1>2. FirstColon(line) \in 0..Len(line)
  <2>1. CASE I = {}
    BY <1>1, <2>1 DEF FirstColon, SelectInSeq
  <2>2. CASE I # {}
    <3>1. I \in SUBSET Nat
      BY <1>1
    <3>2. PICK k \in I : \A i \in I : k <= i
      <4> HIDE DEF I
      <4> QED BY <2>2, <3>1, LeastElement
    <3>3. Min(I) \in I
      <4> HIDE DEF I
      <4> QED BY <3>2 DEF Min
    <3> QED BY <1>1, <2>2, <3>3 DEF FirstColon, SelectInSeq
  <2> QED BY <2>1, <2>2
<1>3. PICK k \in 0..Len(line) : k = FirstColon(line)
  BY <1>2
<1>4. k + 1 \in Nat \ {0} /\ Len(line) \in 0..Len(line)
  BY <1>1
<1>5. SubSeq(line, k + 1, Len(line)) \in Seq(Chars)
  BY <1>4, PieceTyped
<1> QED BY <1>3, <1>5 DEF Parse
=============================================================================
