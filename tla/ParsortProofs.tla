--------------------------- MODULE ParsortProofs ---------------------------
(***************************************************************************)
(* Proofs about the parallel sort, for files of any length, any integers   *)
(* in them and any threshold but 0: whatever fails, exit status 0 means a  *)
(* sorted file, and no two processes work on the same elements.            *)
(*                                                                         *)
(* First, what merge yields, which is defined by recursion.  An induction  *)
(* over the results is written as the absence of a least counterexample.   *)
(* Then the tree of processes: ranges are nested, and who has succeeded    *)
(* has nobody left beneath.  Then the data: what each process has done to  *)
(* its range, which nobody above or beside it writes to meanwhile.         *)
(***************************************************************************)
EXTENDS Parsort, FiniteSetTheorems, FunctionTheorems, TLAPS

-----------------------------------------------------------------------------
(* The recursion of merge *)

\* A set of natural numbers that is not empty has a least element: the form in
\* which induction on naturals is used below.
LEMMA LeastElement ==
  ASSUME NEW T \in SUBSET Nat, T # {}
  PROVE  \E m \in T : \A n \in T : m <= n
<1>1. IsWellFoundedOn(OpToRel(<, Nat), Nat)
  BY NatLessThanWellFounded
<1>2. \E m \in T : \A n \in T : ~(<<n, m>> \in OpToRel(<, Nat))
  BY <1>1, WFMin
<1>3. \E m \in T : \A n \in T : ~(n < m)
  BY <1>2 DEF OpToRel
<1> QED BY <1>3

\* A process and its halves: where merge_sort cuts a range (parsort.c:49).
LEMMA Middle ==
  ASSUME NEW p \in Procs
  PROVE  /\ p[1] \in Nat /\ p[2] \in Nat /\ mid(p) \in Nat
         /\ p[1] <= mid(p) /\ mid(p) <= p[2]
         /\ p[1] < p[2] => mid(p) < p[2]
         /\ Size(p) >= 2 => p[1] < mid(p)
         /\ Left(p) \in Procs /\ Right(p) \in Procs
         /\ p = <<p[1], p[2]>>
         /\ Size(p) \in Nat
  BY ParsortAssumption DEF Procs, mid, Left, Right, Size

\* t counts, up to m results, what merge has taken from the left half.
IsTaken(t, p, m) ==
  t = [n \in 0..m |-> IF n = 0 THEN 0
                      ELSE IF FromLeft(p, n - 1, t[n - 1]) THEN t[n - 1] + 1
                                                           ELSE t[n - 1]]

\* The recursion of merge has a solution of every length: the shortest length
\* without one would follow a length that has one.
LEMMA TakenExists ==
  ASSUME NEW p, NEW k \in Nat
  PROVE  \E t : IsTaken(t, p, k)
<1> DEFINE T == {m \in Nat : ~\E t : IsTaken(t, p, m)}
<1>1. SUFFICES ASSUME T # {} PROVE FALSE
  OBVIOUS
<1>2. PICK m \in T : \A n \in T : m <= n
  BY <1>1, LeastElement
<1>3. m # 0
  <2>1. IsTaken([n \in 0..0 |-> 0], p, 0)
    BY DEF IsTaken
  <2> QED BY <2>1, <1>2
<1>4. m \in Nat /\ m - 1 \in Nat /\ m - 1 \notin T
  BY <1>2, <1>3
<1>5. PICK t : IsTaken(t, p, m - 1)
  BY <1>4
<1> DEFINE u == [n \in 0..m |-> IF n < m THEN t[n]
                                ELSE IF FromLeft(p, m - 1, t[m - 1]) THEN t[m - 1] + 1
                                                                     ELSE t[m - 1]]
<1>6. IsTaken(u, p, m)
  <2>1. ASSUME NEW n \in 0..m
        PROVE  u[n] = IF n = 0 THEN 0
                      ELSE IF FromLeft(p, n - 1, u[n - 1]) THEN u[n - 1] + 1
                                                           ELSE u[n - 1]
    <3>1. n # 0 => u[n - 1] = t[n - 1]
      BY <1>4
    <3>2. CASE n < m
      <4>1. u[n] = t[n]
        BY <3>2
      <4>2. t[n] = IF n = 0 THEN 0
                   ELSE IF FromLeft(p, n - 1, t[n - 1]) THEN t[n - 1] + 1 ELSE t[n - 1]
        <5>1. n \in 0..m - 1
          BY <3>2, <1>4
        <5> QED BY <5>1, <1>5 DEF IsTaken
      <4> QED BY <4>1, <4>2, <3>1
    <3>3. CASE n = m
      BY <3>3, <3>1, <1>3
    <3> QED BY <3>2, <3>3, <1>4
  <2> QED BY <2>1 DEF IsTaken
<1> QED BY <1>6, <1>2

\* Taken(p) is what its recursion says.
LEMMA TakenRecursion ==
  ASSUME NEW p \in Procs
  PROVE  IsTaken(Taken(p), p, Size(p))
<1>1. PICK t : IsTaken(t, p, Size(p))
  BY TakenExists, Middle
<1> QED BY <1>1 DEF IsTaken, Taken

\* Taken(p) one result at a time: the loop of merge (parsort.c:28-45).
LEMMA TakenStep ==
  ASSUME NEW p \in Procs
  PROVE  /\ Taken(p)[0] = 0
         /\ \A n \in 0..Size(p) - 1 :
              Taken(p)[n + 1] = IF FromLeft(p, n, Taken(p)[n]) THEN Taken(p)[n] + 1
                                                               ELSE Taken(p)[n]
<1> DEFINE t == Taken(p)
<1>1. Size(p) \in Nat
  BY Middle
<1>2. t = [n \in 0..Size(p) |-> IF n = 0 THEN 0
                      ELSE IF FromLeft(p, n - 1, t[n - 1]) THEN t[n - 1] + 1
                                                           ELSE t[n - 1]]
  BY TakenRecursion DEF IsTaken
<1> HIDE DEF t
<1>3. t[0] = 0
  BY <1>1, <1>2
<1>4. ASSUME NEW n \in 0..Size(p) - 1
      PROVE  t[n + 1] = IF FromLeft(p, n, t[n]) THEN t[n] + 1 ELSE t[n]
  <2>1. n + 1 \in 0..Size(p) /\ n + 1 # 0 /\ (n + 1) - 1 = n
    BY <1>1
  <2> DEFINE m == n + 1
  <2>2. m \in 0..Size(p) /\ m # 0 /\ m - 1 = n
    BY <2>1
  <2> HIDE DEF m
  <2>3. t[m] = IF FromLeft(p, m - 1, t[m - 1]) THEN t[m - 1] + 1 ELSE t[m - 1]
    BY <1>2, <2>2
  <2> QED BY <2>2, <2>3 DEF m
<1> QED BY <1>3, <1>4 DEF t

\* merge never runs past the end of a half: it takes at most the elements there
\* are from the left one and from the right one.
LEMMA TakenBounds ==
  ASSUME NEW p \in Procs
  PROVE  \A n \in 0..Size(p) :
           /\ Taken(p)[n] \in 0..mid(p) - p[1]
           /\ n - Taken(p)[n] \in 0..p[2] - mid(p)
<1> DEFINE t == Taken(p)
           Bounded(n) == t[n] \in 0..mid(p) - p[1] /\ n - t[n] \in 0..p[2] - mid(p)
           T == {n \in 0..Size(p) : ~Bounded(n)}
<1>0. /\ p[1] \in Nat /\ p[2] \in Nat /\ mid(p) \in Nat
      /\ p[1] <= mid(p) /\ mid(p) <= p[2] /\ Size(p) \in Nat /\ Size(p) = p[2] - p[1]
  BY Middle DEF Size
<1>1. SUFFICES ASSUME T # {} PROVE FALSE
  OBVIOUS
<1>2. PICK m \in T : \A n \in T : m <= n
  <2>1. T \in SUBSET Nat
    BY <1>0
  <2> HIDE DEF T
  <2> QED BY <2>1, <1>1, LeastElement
<1>3. m \in 1..Size(p)
  BY <1>2, <1>0, TakenStep
<1>4. m - 1 \in 0..Size(p) - 1 /\ Bounded(m - 1)
  <2>1. m - 1 \notin T
    BY <1>2, <1>3
  <2> QED BY <2>1, <1>3, <1>0
<1> DEFINE c == t[m - 1]
<1>5. t[m] = IF FromLeft(p, m - 1, c) THEN c + 1 ELSE c
  <2>1. t[(m - 1) + 1] = IF FromLeft(p, m - 1, c) THEN c + 1 ELSE c
    BY <1>4, TakenStep
  <2> QED BY <2>1, <1>3, <1>0
<1>6. Bounded(m)
  <2>1. c \in 0..mid(p) - p[1] /\ (m - 1) - c \in 0..p[2] - mid(p)
    BY <1>4
  <2> HIDE DEF c, t
  <2>2. CASE FromLeft(p, m - 1, c)
    <3>1. p[1] + c < mid(p)
      BY <2>2 DEF FromLeft
    <3> QED BY <3>1, <2>1, <2>2, <1>5, <1>3, <1>0
  <2>3. CASE ~FromLeft(p, m - 1, c)
    <3>1. p[1] + c >= mid(p) \/ mid(p) + (m - 1) - c < p[2]
      BY <2>3, <2>1, <1>3, <1>0 DEF FromLeft
    <3> QED BY <3>1, <2>1, <2>3, <1>5, <1>3, <1>0
  <2> QED BY <2>2, <2>3
<1> QED BY <1>6, <1>2

\* From one result to a later one, as many are taken from the two halves
\* together as there are results between.
LEMMA TakenMonotone ==
  ASSUME NEW p \in Procs, NEW n \in 0..Size(p)
  PROVE  \A m \in n..Size(p) :
           Taken(p)[n] <= Taken(p)[m] /\ Taken(p)[m] - Taken(p)[n] <= m - n
<1> DEFINE t == Taken(p)
           Good(m) == t[n] <= t[m] /\ t[m] - t[n] <= m - n
           T == {m \in n..Size(p) : ~Good(m)}
<1>0. /\ Size(p) \in Nat
      /\ \A k \in 0..Size(p) : t[k] \in Int
  BY Middle, TakenBounds
<1>1. SUFFICES ASSUME T # {} PROVE FALSE
  OBVIOUS
<1>2. PICK m \in T : \A k \in T : m <= k
  <2>1. T \in SUBSET Nat
    BY <1>0
  <2> HIDE DEF T
  <2> QED BY <2>1, <1>1, LeastElement
<1>3. m \in n + 1..Size(p)
  BY <1>2, <1>0
<1>4. m - 1 \in n..Size(p) - 1 /\ m - 1 \in 0..Size(p) - 1 /\ Good(m - 1)
  <2>1. m - 1 \notin T
    BY <1>2, <1>3
  <2> QED BY <2>1, <1>3, <1>0
<1>5. t[m] = t[m - 1] + 1 \/ t[m] = t[m - 1]
  <2>1. t[(m - 1) + 1] = t[m - 1] + 1 \/ t[(m - 1) + 1] = t[m - 1]
    BY <1>4, TakenStep
  <2> QED BY <2>1, <1>3, <1>0
<1>6. Good(m)
  BY <1>5, <1>4, <1>3, <1>0
<1> QED BY <1>6, <1>2

\* What is known of the place a result is read from: it is the next element of
\* its half, and not greater than the next of the other half, if there is one.
LEMMA SourceFacts ==
  ASSUME NEW p \in Procs, NEW k \in Span(p)
  PROVE  \E n \in 0..Size(p) - 1, c \in Nat :
           /\ k = p[1] + n /\ c = Taken(p)[n] /\ n - c \in Nat
           /\ \/ /\ Source(p, k) = p[1] + c
                 /\ Source(p, k) \in Span(Left(p))
                 /\ Taken(p)[n + 1] = c + 1
                 /\ mid(p) + (n - c) >= p[2] \/ arr[p[1] + c] <= arr[mid(p) + (n - c)]
              \/ /\ Source(p, k) = mid(p) + (n - c)
                 /\ Source(p, k) \in Span(Right(p))
                 /\ Taken(p)[n + 1] = c
                 /\ p[1] + c >= mid(p) \/ ~(arr[p[1] + c] <= arr[mid(p) + (n - c)])
<1>0. /\ p[1] \in Nat /\ p[2] \in Nat /\ mid(p) \in Nat
      /\ p[1] <= mid(p) /\ mid(p) <= p[2] /\ Size(p) \in Nat /\ Size(p) = p[2] - p[1]
  BY Middle DEF Size
<1>1. PICK n \in 0..Size(p) - 1 : k = p[1] + n /\ n = k - p[1]
  BY <1>0 DEF Span
<1>2. PICK c : c = Taken(p)[n]
  OBVIOUS
<1>3. c \in 0..mid(p) - p[1] /\ n - c \in 0..p[2] - mid(p)
  BY <1>0, <1>2, TakenBounds
<1>4. Taken(p)[n + 1] = IF FromLeft(p, n, c) THEN c + 1 ELSE c
  BY <1>2, TakenStep
<1>5. Source(p, k) = IF FromLeft(p, n, c) THEN p[1] + c ELSE mid(p) + (n - c)
  BY <1>1, <1>2, <1>3, <1>0 DEF Source
<1>6. /\ Span(Left(p)) = p[1]..mid(p) - 1
      /\ Span(Right(p)) = mid(p)..p[2] - 1
  BY DEF Span, Left, Right
<1>7. mid(p) + n - c = mid(p) + (n - c)
  BY <1>3, <1>0
<1>8. FromLeft(p, n, c) <=>
        /\ p[1] + c < mid(p)
        /\ mid(p) + (n - c) >= p[2] \/ arr[p[1] + c] <= arr[mid(p) + (n - c)]
  BY <1>7 DEF FromLeft
<1>9. CASE FromLeft(p, n, c)
  <2>1. Source(p, k) = p[1] + c /\ Taken(p)[n + 1] = c + 1
    BY <1>9, <1>4, <1>5
  <2>2. Source(p, k) \in Span(Left(p))
    <3>1. p[1] + c < mid(p)
      BY <1>9, <1>8
    <3>2. p[1] + c \in p[1]..mid(p) - 1
      BY <3>1, <1>3, <1>0
    <3> QED BY <3>2, <2>1, <1>6
  <2> QED BY <2>1, <2>2, <1>9, <1>8, <1>1, <1>2, <1>3
<1>10. CASE ~FromLeft(p, n, c)
  <2>1. Source(p, k) = mid(p) + (n - c) /\ Taken(p)[n + 1] = c
    BY <1>10, <1>4, <1>5
  <2>2. mid(p) + (n - c) < p[2]
    BY <1>10, <1>8, <1>3, <1>0
  <2>3. Source(p, k) \in Span(Right(p))
    BY <2>1, <2>2, <1>6, <1>3, <1>0
  <2>4. p[1] + c >= mid(p) \/ ~(arr[p[1] + c] <= arr[mid(p) + (n - c)])
    BY <1>10, <1>8, <1>3, <1>0
  <2> QED BY <2>1, <2>3, <2>4, <1>1, <1>2, <1>3
<1> QED BY <1>9, <1>10

-----------------------------------------------------------------------------
(* merge sorts, and keeps the elements *)

\* The positions of a range and of its halves
LEMMA SpanMembers ==
  ASSUME NEW p \in Procs
  PROVE  /\ \A x : x \in Span(p) <=> x \in Int /\ p[1] <= x /\ x < p[2]
         /\ \A x : x \in Span(Left(p)) <=> x \in Int /\ p[1] <= x /\ x < mid(p)
         /\ \A x : x \in Span(Right(p)) <=> x \in Int /\ mid(p) <= x /\ x < p[2]
<1>1. p[1] \in Nat /\ p[2] \in Nat /\ mid(p) \in Nat
  BY Middle
<1>2. Span(p) = p[1]..(p[2] - 1)
  BY DEF Span
<1>3. Span(Left(p)) = p[1]..(mid(p) - 1)
  BY DEF Span, Left
<1>4. Span(Right(p)) = mid(p)..(p[2] - 1)
  BY DEF Span, Right
<1> QED BY <1>1, <1>2, <1>3, <1>4

\* A range is finite, and its halves are a partition of it.
LEMMA SpanFacts ==
  ASSUME NEW p \in Procs
  PROVE  /\ Span(p) \subseteq Nat
         /\ IsFiniteSet(Span(p))
         /\ Span(p) = Span(Left(p)) \cup Span(Right(p))
         /\ Span(Left(p)) \cap Span(Right(p)) = {}
<1>0. /\ p[1] \in Nat /\ p[2] \in Nat /\ mid(p) \in Nat
      /\ p[1] <= mid(p) /\ mid(p) <= p[2]
  BY Middle
<1>1. IsFiniteSet(Span(p))
  <2>1. p[1] \in Int /\ p[2] - 1 \in Int
    BY <1>0
  <2>2. IsFiniteSet(p[1]..(p[2] - 1))
    BY <2>1, FS_Interval
  <2> QED BY <2>2 DEF Span
<1> QED BY <1>0, <1>1, SpanMembers

\* Later results are read from other places, and are no smaller.
LEMMA SourcesInOrder ==
  ASSUME NEW p \in Procs, NEW j \in Span(p), NEW k \in Span(p), j < k,
         \A x \in Span(p) : arr[x] \in Int,
         SortedOver(arr, Span(Left(p))), SortedOver(arr, Span(Right(p)))
  PROVE  arr[Source(p, j)] <= arr[Source(p, k)] /\ Source(p, j) # Source(p, k)
<1>0. /\ p[1] \in Nat /\ p[2] \in Nat /\ mid(p) \in Nat
      /\ p[1] <= mid(p) /\ mid(p) <= p[2] /\ Size(p) \in Nat /\ Size(p) = p[2] - p[1]
  BY Middle DEF Size
<1>1. /\ \A x : x \in Span(p) <=> x \in Int /\ p[1] <= x /\ x < p[2]
      /\ \A x : x \in Span(Left(p)) <=> x \in Int /\ p[1] <= x /\ x < mid(p)
      /\ \A x : x \in Span(Right(p)) <=> x \in Int /\ mid(p) <= x /\ x < p[2]
  BY SpanMembers
<1> DEFINE s == Source(p, j)
           u == Source(p, k)
<1>2. PICK n \in 0..Size(p) - 1, c \in Nat :
           /\ j = p[1] + n /\ c = Taken(p)[n] /\ n - c \in Nat
           /\ \/ /\ s = p[1] + c
                 /\ s \in Span(Left(p))
                 /\ Taken(p)[n + 1] = c + 1
                 /\ mid(p) + (n - c) >= p[2] \/ arr[p[1] + c] <= arr[mid(p) + (n - c)]
              \/ /\ s = mid(p) + (n - c)
                 /\ s \in Span(Right(p))
                 /\ Taken(p)[n + 1] = c
                 /\ p[1] + c >= mid(p) \/ ~(arr[p[1] + c] <= arr[mid(p) + (n - c)])
  BY SourceFacts
<1>3. PICK m \in 0..Size(p) - 1, d \in Nat :
           /\ k = p[1] + m /\ d = Taken(p)[m] /\ m - d \in Nat
           /\ \/ u = p[1] + d /\ u \in Span(Left(p))
              \/ u = mid(p) + (m - d) /\ u \in Span(Right(p))
  BY SourceFacts
<1>4. n + 1 \in 0..Size(p) /\ m \in n + 1..Size(p)
  BY <1>0, <1>2, <1>3
<1>5. Taken(p)[n + 1] <= d /\ d - Taken(p)[n + 1] <= m - (n + 1)
  BY <1>4, <1>3, TakenMonotone
<1>6. /\ \A x, y \in Span(Left(p)) : x <= y => arr[x] <= arr[y]
      /\ \A x, y \in Span(Right(p)) : x <= y => arr[x] <= arr[y]
      /\ \A x \in Span(p) : arr[x] \in Int
  <2>1. \A x, y \in Span(Left(p)) : x < y => arr[x] <= arr[y]
    BY DEF SortedOver
  <2>2. \A x, y \in Span(Right(p)) : x < y => arr[x] <= arr[y]
    BY DEF SortedOver
  <2>3. Span(Left(p)) \subseteq Span(p) /\ Span(Right(p)) \subseteq Span(p)
    BY SpanFacts
  <2> QED BY <2>1, <2>2, <2>3, <1>1
<1> SUFFICES arr[s] <= arr[u] /\ s # u
  BY DEF s, u
<1> HIDE DEF s, u
<1>7. CASE s = p[1] + c /\ s \in Span(Left(p)) /\ Taken(p)[n + 1] = c + 1
           /\ (mid(p) + (n - c) >= p[2] \/ arr[p[1] + c] <= arr[mid(p) + (n - c)])
  <2>1. d >= c + 1 /\ m - d >= n - c
    BY <1>2, <1>3, <1>5, <1>7, <1>0
  <2>2. CASE u = p[1] + d /\ u \in Span(Left(p))
    <3>1. s < u /\ s \in Span(Left(p)) /\ u \in Span(Left(p))
      BY <2>1, <2>2, <1>7, <1>1, <1>0
    <3> QED BY <3>1, <1>6, <1>1, <1>0
  <2>3. CASE u = mid(p) + (m - d) /\ u \in Span(Right(p))
    <3> DEFINE r == mid(p) + (n - c)
    <3>1. /\ s \in Span(Left(p)) /\ u \in Span(Right(p))
          /\ r \in Span(Right(p)) /\ r <= u
      BY <2>1, <2>3, <1>2, <1>7, <1>1, <1>0
    <3>2. arr[s] <= arr[r]
      BY <3>1, <1>7, <1>1, <1>0
    <3>3. arr[r] <= arr[u]
      BY <3>1, <1>6
    <3>4. arr[s] \in Int /\ arr[r] \in Int /\ arr[u] \in Int
      BY <3>1, <1>6, <1>1, <1>0
    <3>5. s # u
      BY <3>1, <1>1, <1>0
    <3> HIDE DEF r
    <3> QED BY <3>2, <3>3, <3>4, <3>5
  <2> QED BY <2>2, <2>3, <1>3
<1>8. CASE s = mid(p) + (n - c) /\ s \in Span(Right(p)) /\ Taken(p)[n + 1] = c
           /\ (p[1] + c >= mid(p) \/ ~(arr[p[1] + c] <= arr[mid(p) + (n - c)]))
  <2>1. d >= c /\ m - d >= (n - c) + 1
    BY <1>2, <1>3, <1>5, <1>8, <1>0
  <2>2. CASE u = mid(p) + (m - d) /\ u \in Span(Right(p))
    <3>1. s < u /\ s \in Span(Right(p)) /\ u \in Span(Right(p))
      BY <2>1, <2>2, <1>8, <1>2, <1>3, <1>1, <1>0
    <3> QED BY <3>1, <1>6, <1>1, <1>0
  <2>3. CASE u = p[1] + d /\ u \in Span(Left(p))
    <3> DEFINE r == p[1] + c
    <3>1. /\ u \in Span(Left(p)) /\ s \in Span(Right(p))
          /\ r \in Span(Left(p)) /\ r <= u
      BY <2>1, <2>3, <1>8, <1>1, <1>0
    <3>2. ~(arr[r] <= arr[s])
      BY <3>1, <1>8, <1>1, <1>0
    <3>3. arr[r] <= arr[u]
      BY <3>1, <1>6
    <3>4. arr[s] \in Int /\ arr[r] \in Int /\ arr[u] \in Int
      BY <3>1, <1>6, <1>1, <1>0
    <3>5. s # u
      BY <3>1, <1>1, <1>0
    <3> HIDE DEF r
    <3> QED BY <3>2, <3>3, <3>4, <3>5
  <2> QED BY <2>2, <2>3, <1>3
<1> QED BY <1>7, <1>8, <1>2

\* merge reads only from the range it merges.
LEMMA SourceType ==
  ASSUME NEW p \in Procs, NEW k \in Span(p)
  PROVE  Source(p, k) \in Span(p)
<1>1. Source(p, k) \in Span(Left(p)) \/ Source(p, k) \in Span(Right(p))
  BY SourceFacts
<1> QED BY <1>1, SpanFacts

\* merge makes one sorted range of two (parsort.c:23-46).
THEOREM MergeSorts ==
  ASSUME NEW p \in Procs,
         \A x \in Span(p) : arr[x] \in Int,
         SortedOver(arr, Span(Left(p))), SortedOver(arr, Span(Right(p)))
  PROVE  SortedOver(merge(p), Span(p))
<1>1. ASSUME NEW j \in Span(p), NEW k \in Span(p), j < k
      PROVE  merge(p)[j] <= merge(p)[k]
  <2>1. arr[Source(p, j)] <= arr[Source(p, k)]
    BY <1>1, SourcesInOrder
  <2> QED BY <2>1 DEF merge
<1> QED BY <1>1 DEF SortedOver

\* merge reads every position exactly once: the places it reads from are as many
\* as the results, and no two are the same.
LEMMA SourceBijection ==
  ASSUME NEW p \in Procs,
         \A x \in Span(p) : arr[x] \in Int,
         SortedOver(arr, Span(Left(p))), SortedOver(arr, Span(Right(p)))
  PROVE  [k \in Span(p) |-> Source(p, k)] \in Bijection(Span(p), Span(p))
<1> DEFINE f == [k \in Span(p) |-> Source(p, k)]
           S == Span(p)
<1>1. f \in [S -> S]
  BY SourceType
<1>2. \A j, k \in S : f[j] = f[k] => j = k
  <2>1. SUFFICES ASSUME NEW j \in S, NEW k \in S, j < k PROVE f[j] # f[k]
    BY SpanFacts
  <2> QED BY <2>1, SourcesInOrder
<1>3. IsFiniteSet(S)
  BY SpanFacts
<1> HIDE DEF f, S
<1>4. f \in Injection(S, S)
  BY <1>1, <1>2, Fun_IsInj
<1>5. f \in Surjection(S, S)
  BY <1>3, <1>4, FS_Injection
<1> QED BY <1>4, <1>5 DEF Bijection, f, S

\* Positions renamed one to one leave every value as many times as before.
LEMMA SameByBijection ==
  ASSUME NEW S, IsFiniteSet(S), NEW a, NEW f \in Bijection(S, S)
  PROVE  \A v : Count(v, [k \in S |-> a[f[k]]], S) = Count(v, a, S)
<1> DEFINE b == [k \in S |-> a[f[k]]]
<1> SUFFICES ASSUME NEW v PROVE Count(v, b, S) = Count(v, a, S)
  OBVIOUS
<1> DEFINE A == {k \in S : b[k] = v}
           B == {k \in S : a[k] = v}
           g == [k \in A |-> f[k]]
<1>1. /\ f \in [S -> S]
      /\ \A j, k \in S : f[j] = f[k] => j = k
      /\ \A t \in S : \E s \in S : f[s] = t
  <2>1. f \in Injection(S, S) /\ f \in Surjection(S, S)
    BY Fun_BijectionProperties
  <2> QED BY <2>1, Fun_InjectionProperties, Fun_SurjectionProperties
<1>2. g \in [A -> B]
  BY <1>1
<1>3. \A j, k \in A : g[j] = g[k] => j = k
  BY <1>1
<1>4. \A t \in B : \E s \in A : g[s] = t
  <2>1. SUFFICES ASSUME NEW t \in B PROVE \E s \in A : g[s] = t
    OBVIOUS
  <2>2. PICK s \in S : f[s] = t
    BY <1>1
  <2>3. s \in A
    BY <2>2
  <2> QED BY <2>2, <2>3
<1>5. IsFiniteSet(A) /\ IsFiniteSet(B)
  BY FS_Subset
<1> HIDE DEF A, B, g
<1>6. g \in Injection(A, B) /\ g \in Surjection(A, B)
  BY <1>2, <1>3, <1>4, Fun_IsInj, Fun_IsSurj
<1>7. ExistsBijection(A, B)
  BY <1>6 DEF ExistsBijection, Bijection
<1>8. Cardinality(B) = Cardinality(A)
  BY <1>7, <1>5, FS_Bijection
<1> QED BY <1>8 DEF Count, A, B

\* merge loses no element and repeats none.
THEOREM MergePermutes ==
  ASSUME NEW p \in Procs,
         \A x \in Span(p) : arr[x] \in Int,
         SortedOver(arr, Span(Left(p))), SortedOver(arr, Span(Right(p)))
  PROVE  SameElements(merge(p), arr, Span(p))
<1> DEFINE f == [k \in Span(p) |-> Source(p, k)]
           S == Span(p)
<1>1. f \in Bijection(S, S) /\ IsFiniteSet(S)
  BY SourceBijection, SpanFacts
<1>2. merge(p) = [k \in S |-> arr[f[k]]]
  BY DEF merge
<1> HIDE DEF f
<1>3. \A v : Count(v, [k \in S |-> arr[f[k]]], S) = Count(v, arr, S)
  BY <1>1, SameByBijection
<1> QED BY <1>2, <1>3 DEF SameElements

-----------------------------------------------------------------------------
(* The tree of processes *)

\* How ranges lie to each other: q within p, p apart from q, q within a half of p.
NonEmpty(p) == p[1] < p[2]
Within(q, p) == p[1] <= q[1] /\ q[2] <= p[2]
Apart(p, q) == p[2] <= q[1] \/ q[2] <= p[1]
Below(q, p) == Within(q, Left(p)) \/ Within(q, Right(p))

\* p has been started; it has ended and somebody has waited for it.
Forked(p) == pc[p] # "none"
Ended(p) == pc[p] = "gone" /\ p \in reaped

\* Every process below p has ended and has been waited for.
NobodyBelow(p) == \A q \in Procs : q # p /\ Within(q, p) /\ Forked(q) => Ended(q)

\* Forked processes have ranges within the root's, not empty but for the root's
\* if the file has no elements.
RangesOk ==
  /\ \A p \in Procs : Forked(p) => Within(p, Root) /\ (p = Root \/ NonEmpty(p))
  /\ \A p \in Procs : pc[p] = "fork right" => Size(p) >= 2

\* The ranges of two processes are apart, or one is within a half of the other.
Nested ==
  \A p, q \in Procs : Forked(p) /\ Forked(q) /\ p # q =>
    Apart(p, q) \/ Below(p, q) \/ Below(q, p)

\* What is left beneath a process, at each place: nobody before it forks, nobody
\* in the right half before the second fork, nobody unended in the left half after
\* the first wait, nobody at all once it merges, and for good if it succeeds.
Beneath ==
  \A p \in Procs :
    /\ pc[p] \in {"main", "sort"} =>
         \A q \in Procs : q # p /\ Within(q, p) => ~Forked(q)
    /\ pc[p] = "fork right" =>
         \A q \in Procs : Within(q, Right(p)) => ~Forked(q)
    /\ pc[p] = "wait right" =>
         \A q \in Procs : Within(q, Left(p)) /\ Forked(q) => Ended(q)
    /\ pc[p] \in {"merge", "copy", "unmap"} \/ wstatus[p] = "ok" => NobodyBelow(p)
    /\ wstatus[p] # "none" => pc[p] = "gone"

TreeInv == RangesOk /\ Nested /\ Beneath

\* The root is one of the processes.
LEMMA RootType ==
  ASSUME TypeOK
  PROVE  Root \in Procs /\ length \in Nat
  BY ParsortAssumption DEF TypeOK, Root, Procs

\* What the tree invariant needs to know of ranges: the order Within, what is
\* Apart, and how the halves lie in their range.
LEMMA Geometry ==
  /\ \A p \in Procs : /\ Left(p) \in Procs /\ Right(p) \in Procs
                      /\ Within(p, p) /\ Within(Left(p), p) /\ Within(Right(p), p)
                      /\ Apart(Left(p), Right(p))
                      /\ NonEmpty(p) => ~Apart(p, p)
                      /\ NonEmpty(p) => NonEmpty(Right(p))
  /\ \A p, q \in Procs : /\ Within(p, q) /\ Within(q, p) => p = q
                         /\ Apart(p, q) => Apart(q, p)
                         /\ NonEmpty(p) /\ Within(p, q) => NonEmpty(q)
  /\ \A p, q, r \in Procs : /\ Within(p, q) /\ Within(q, r) => Within(p, r)
                            /\ Within(p, q) /\ Apart(q, r) => Apart(p, r)
<1>1. \A p \in Procs : /\ p[1] \in Nat /\ p[2] \in Nat /\ mid(p) \in Nat
                       /\ p[1] <= mid(p) /\ mid(p) <= p[2]
                       /\ p[1] < p[2] => mid(p) < p[2]
                       /\ Left(p) \in Procs /\ Right(p) \in Procs
                       /\ p = <<p[1], p[2]>>
  BY Middle
<1>2. \A p : /\ Left(p)[1] = p[1] /\ Left(p)[2] = mid(p)
             /\ Right(p)[1] = mid(p) /\ Right(p)[2] = p[2]
  BY DEF Left, Right
<1>3. ASSUME NEW p \in Procs
      PROVE  /\ Within(p, p) /\ Within(Left(p), p) /\ Within(Right(p), p)
             /\ Apart(Left(p), Right(p))
             /\ NonEmpty(p) => ~Apart(p, p)
             /\ NonEmpty(p) => NonEmpty(Right(p))
  BY <1>1, <1>2 DEF Within, Apart, NonEmpty
<1>4. ASSUME NEW p \in Procs, NEW q \in Procs
      PROVE  /\ Within(p, q) /\ Within(q, p) => p = q
             /\ Apart(p, q) => Apart(q, p)
             /\ NonEmpty(p) /\ Within(p, q) => NonEmpty(q)
  <2>1. Within(p, q) /\ Within(q, p) => p[1] = q[1] /\ p[2] = q[2]
    BY <1>1 DEF Within
  <2>2. Within(p, q) /\ Within(q, p) => p = q
    BY <2>1, <1>1
  <2>3. NonEmpty(p) /\ Within(p, q) => NonEmpty(q)
    BY <1>1 DEF Within, NonEmpty
  <2> QED BY <2>2, <2>3 DEF Apart
<1>5. ASSUME NEW p \in Procs, NEW q \in Procs, NEW r \in Procs
      PROVE  /\ Within(p, q) /\ Within(q, r) => Within(p, r)
             /\ Within(p, q) /\ Apart(q, r) => Apart(p, r)
  BY <1>1 DEF Within, Apart
<1> QED BY <1>1, <1>3, <1>4, <1>5

\* A range of two elements or more has two halves that are proper and not empty:
\* why a threshold of at least 1 makes the forks end.
LEMMA Split ==
  ASSUME NEW p \in Procs, Size(p) >= 2
  PROVE  /\ NonEmpty(p) /\ NonEmpty(Left(p)) /\ NonEmpty(Right(p))
         /\ Left(p) # p /\ Right(p) # p /\ Left(p) # Right(p)
<1>1. /\ p[1] \in Nat /\ p[2] \in Nat /\ mid(p) \in Nat
      /\ p[1] < mid(p) /\ p[1] < p[2] /\ mid(p) < p[2]
  BY Middle DEF Size
<1>2. /\ Left(p)[1] = p[1] /\ Left(p)[2] = mid(p)
      /\ Right(p)[1] = mid(p) /\ Right(p)[2] = p[2]
  BY DEF Left, Right
<1>3. NonEmpty(p) /\ NonEmpty(Left(p)) /\ NonEmpty(Right(p))
  BY <1>1, <1>2 DEF NonEmpty
<1>4. Left(p)[2] # p[2] /\ Right(p)[1] # p[1] /\ Left(p)[1] # Right(p)[1]
  BY <1>1, <1>2
<1> QED BY <1>3, <1>4

\* Forked processes have elements, unless the root is alone.
LEMMA HasElements ==
  ASSUME TypeOK, RangesOk,
         NEW p \in Procs, NEW q \in Procs, p # q, Forked(p), Forked(q)
  PROVE  NonEmpty(p)
<1>1. CASE p # Root
  BY <1>1 DEF RangesOk
<1>2. CASE p = Root
  <2>1. NonEmpty(q) /\ Within(q, p)
    BY <1>2 DEF RangesOk
  <2> QED BY <2>1, Geometry
<1> QED BY <1>1, <1>2

\* A forked process within another is within one of its halves.
LEMMA WithinIsBelow ==
  ASSUME TypeOK, RangesOk, Nested,
         NEW p \in Procs, NEW q \in Procs, p # q, Forked(p), Forked(q), Within(q, p)
  PROVE  Below(q, p)
<1>1. NonEmpty(p) /\ NonEmpty(q)
  BY HasElements
<1>2. CASE Apart(p, q)
  BY <1>1, <1>2, Geometry
<1>3. CASE Below(p, q)
  <2>1. Within(p, q)
    BY <1>3, Geometry DEF Below
  <2> QED BY <2>1, Geometry
<1> QED BY <1>2, <1>3 DEF Nested

\* Nobody has a range in both halves of another.
LEMMA OneHalf ==
  ASSUME NEW p \in Procs, NEW q \in Procs, NonEmpty(q),
         Within(q, Left(p)), Within(q, Right(p))
  PROVE  FALSE
<1>1. Apart(q, Right(p))
  BY Geometry
<1>2. Apart(Right(p), q)
  BY <1>1, Geometry
<1>3. Apart(q, q)
  BY <1>2, Geometry
<1> QED BY <1>3, Geometry

\* A step that forks nobody, in which p alone changes its place, keeps the tree
\* invariant if it keeps it for p.
LEMMA TreeStep ==
  ASSUME TypeOK, TreeInv, NEW p \in Procs, Alive(p),
         NEW label \in Labels \ {"none", "main", "fork right"},
         length' = length,
         pc' = [pc EXCEPT ![p] = label],
         reaped \subseteq reaped',
         \A q \in Procs : q # p => wstatus'[q] = wstatus[q],
         label # "gone" => wstatus'[p] = wstatus[p],
         label = "sort" => \A q \in Procs : q # p /\ Within(q, p) => ~Forked(q),
         label = "wait right" =>
           \A q \in Procs : Within(q, Left(p)) /\ Forked(q) => pc[q] = "gone" /\ q \in reaped',
         label \in {"merge", "copy", "unmap"} \/ wstatus'[p] = "ok" =>
           \A q \in Procs : q # p /\ Within(q, p) /\ Forked(q) => pc[q] = "gone" /\ q \in reaped'
  PROVE  TreeInv'
<1>1. /\ pc'[p] = label /\ pc[p] # "gone" /\ pc[p] # "none"
      /\ \A q \in Procs : q # p => pc'[q] = pc[q]
      /\ label # "none" /\ label # "main" /\ label # "fork right"
  BY DEF TypeOK, Alive
<1>2. /\ Root' = Root
      /\ \A q \in Procs : Forked(q)' <=> Forked(q)
      /\ \A q \in Procs : pc[q] = "gone" => pc'[q] = "gone"
      /\ \A q \in Procs : Ended(q) => Ended(q)'
  BY <1>1 DEF Root, Forked, Ended
<1>3. RangesOk'
  <2>1. ASSUME NEW q \in Procs, Forked(q)'
        PROVE  Within(q, Root') /\ (q = Root' \/ NonEmpty(q))
    BY <2>1, <1>2 DEF TreeInv, RangesOk
  <2>2. ASSUME NEW q \in Procs, pc'[q] = "fork right"
        PROVE  Size(q) >= 2
    BY <2>2, <1>1 DEF TreeInv, RangesOk
  <2> QED BY <2>1, <2>2 DEF RangesOk, Within, NonEmpty, Size
<1>4. Nested'
  <2>1. Nested
    BY DEF TreeInv
  <2> QED BY <2>1, <1>2 DEF Nested, Apart, Below, Within, Left, Right, mid
<1>5. Beneath'
  <2>0. Beneath
    BY DEF TreeInv
  <2>1. ASSUME NEW q \in Procs, pc'[q] \in {"main", "sort"}, NEW r \in Procs, r # q, Within(r, q)
        PROVE  ~Forked(r)'
    BY <2>0, <2>1, <1>1, <1>2 DEF Beneath
  <2>2. ASSUME NEW q \in Procs, pc'[q] = "fork right", NEW r \in Procs, Within(r, Right(q))
        PROVE  ~Forked(r)'
    BY <2>0, <2>2, <1>1, <1>2 DEF Beneath
  <2>3. ASSUME NEW q \in Procs, pc'[q] = "wait right",
               NEW r \in Procs, Within(r, Left(q)), Forked(r)'
        PROVE  Ended(r)'
    <3>1. CASE q = p
      BY <3>1, <2>3, <1>1, <1>2 DEF Ended
    <3>2. CASE q # p
      BY <3>2, <2>0, <2>3, <1>1, <1>2 DEF Beneath
    <3> QED BY <3>1, <3>2
  <2>4. ASSUME NEW q \in Procs, pc'[q] \in {"merge", "copy", "unmap"} \/ wstatus'[q] = "ok",
               NEW r \in Procs, r # q, Within(r, q), Forked(r)'
        PROVE  Ended(r)'
    <3>1. CASE q = p
      BY <3>1, <2>4, <1>1, <1>2 DEF Ended
    <3>2. CASE q # p
      <4>1. NobodyBelow(q)
        BY <3>2, <2>0, <2>4, <1>1 DEF Beneath
      <4> QED BY <4>1, <2>4, <1>2 DEF NobodyBelow
    <3> QED BY <3>1, <3>2
  <2>5. ASSUME NEW q \in Procs, wstatus'[q] # "none"
        PROVE  pc'[q] = "gone"
    BY <2>0, <2>5, <1>1 DEF Beneath
  <2> QED BY <2>1, <2>2, <2>3, <2>4, <2>5 DEF Beneath, NobodyBelow, Within, Left, Right, mid
<1> QED BY <1>3, <1>4, <1>5 DEF TreeInv

\* p forks its child c: a place in the tree that nobody has, apart from all that
\* is below p already.
LEMMA ForkStep ==
  ASSUME TypeOK, TreeInv, NEW p \in Procs, pc[p] \in {"sort", "fork right"},
         NEW c \in {Left(p), Right(p)}, NonEmpty(c), c # p,
         NEW label \in {"fork right", "wait left"},
         length' = length, reaped' = reaped, wstatus' = wstatus,
         pc' = [pc EXCEPT ![p] = label, ![c] = "sort"],
         \A q \in Procs : Within(q, c) => ~Forked(q),
         \A q \in Procs : Forked(q) /\ Below(q, p) => Apart(q, c),
         label = "fork right" =>
           /\ Size(p) >= 2
           /\ c = Left(p)
           /\ \A q \in Procs : Within(q, Right(p)) => ~Forked(q)
  PROVE  TreeInv'
<1>1. /\ c \in Procs /\ Within(c, p) /\ NonEmpty(p)
      /\ \A q \in Procs : Within(p, q) => Within(c, q)
      /\ \A q \in Procs : Below(p, q) => Below(c, q)
      /\ Below(c, p)
  <2>1. c \in Procs /\ Within(c, p) /\ Within(c, c)
    <3>1. CASE c = Left(p)
      BY <3>1, Geometry
    <3>2. CASE c = Right(p)
      BY <3>2, Geometry
    <3> QED BY <3>1, <3>2
  <2>2. NonEmpty(p)
    BY <2>1, Geometry
  <2>3. \A q \in Procs : Within(p, q) => Within(c, q)
    BY <2>1, Geometry
  <2>4. \A q \in Procs : Below(p, q) => Below(c, q)
    BY <2>3, Geometry DEF Below
  <2>5. Below(c, p)
    BY <2>1 DEF Below
  <2> QED BY <2>1, <2>2, <2>3, <2>4, <2>5
<1>2. /\ pc'[p] = label /\ pc'[c] = "sort" /\ pc[c] = "none"
      /\ \A q \in Procs : q # p /\ q # c => pc'[q] = pc[q]
      /\ label # "none" /\ label # "main"
      /\ Forked(p) /\ Alive(p) /\ ~Forked(c)
  BY <1>1, Geometry DEF TypeOK, Alive, Forked
<1>3. /\ Root' = Root
      /\ \A q \in Procs : Forked(q)' <=> (Forked(q) \/ q = c)
      /\ \A q \in Procs : Ended(q) => Ended(q)'
  BY <1>2, <1>1 DEF Root, Forked, Ended
<1>4. \A q \in Procs : Forked(q) /\ q # p => Apart(q, c) \/ Below(p, q)
  <2>1. SUFFICES ASSUME NEW q \in Procs, Forked(q), q # p
                 PROVE  Apart(q, c) \/ Below(p, q)
    OBVIOUS
  <2>2. Apart(q, p) \/ Below(q, p) \/ Below(p, q)
    BY <2>1, <1>2 DEF TreeInv, Nested
  <2>3. Apart(q, p) => Apart(q, c)
    <3>1. Apart(q, p) => Apart(p, q)
      BY Geometry
    <3>2. Apart(p, q) => Apart(c, q)
      BY <1>1, Geometry
    <3>3. Apart(c, q) => Apart(q, c)
      BY <1>1, Geometry
    <3> QED BY <3>1, <3>2, <3>3
  <2> QED BY <2>1, <2>2, <2>3
<1>5. \A q \in Procs : Apart(q, c) => ~Within(c, q)
  <2>1. SUFFICES ASSUME NEW q \in Procs, Apart(q, c), Within(c, q)
                 PROVE  FALSE
    OBVIOUS
  <2>2. Apart(c, c)
    BY <2>1, <1>1, Geometry
  <2> QED BY <2>2, <1>1, Geometry
<1>6. RangesOk'
  <2>0. RangesOk
    BY DEF TreeInv
  <2>1. ASSUME NEW q \in Procs, Forked(q)'
        PROVE  Within(q, Root') /\ (q = Root' \/ NonEmpty(q))
    <3>1. CASE q = c
      <4>1. Within(p, Root)
        BY <2>0, <1>2 DEF RangesOk
      <4>2. Root \in Procs
        BY RootType
      <4> QED BY <4>1, <4>2, <3>1, <1>1, <1>3
    <3>2. CASE q # c
      BY <3>2, <2>0, <2>1, <1>3 DEF RangesOk
    <3> QED BY <3>1, <3>2
  <2>2. ASSUME NEW q \in Procs, pc'[q] = "fork right"
        PROVE  Size(q) >= 2
    BY <2>0, <2>2, <1>2 DEF RangesOk
  <2> QED BY <2>1, <2>2 DEF RangesOk, Within, NonEmpty, Size
<1>7. Nested'
  <2>0. Nested
    BY DEF TreeInv
  <2>1. ASSUME NEW q \in Procs, NEW r \in Procs, Forked(q)', Forked(r)', q # r
        PROVE  Apart(q, r) \/ Below(q, r) \/ Below(r, q)
    <3>1. CASE q # c /\ r # c
      BY <3>1, <2>0, <2>1, <1>3 DEF Nested
    <3>2. ASSUME NEW x \in Procs, Forked(x)
          PROVE  Apart(x, c) \/ Below(c, x)
      BY <3>2, <1>1, <1>4
    <3>3. CASE q = c
      <4>1. Forked(r)
        BY <3>3, <2>1, <1>3
      <4>2. Apart(r, c) \/ Below(c, r)
        BY <4>1, <3>2
      <4> QED BY <4>2, <3>3, <1>1, Geometry
    <3>4. CASE r = c
      <4>1. Forked(q)
        BY <3>4, <2>1, <1>3
      <4> QED BY <4>1, <3>2, <3>4
    <3> QED BY <3>1, <3>3, <3>4
  <2> QED BY <2>1 DEF Nested, Apart, Below, Within, Left, Right, mid
<1>8. Beneath'
  <2>0. Beneath
    BY DEF TreeInv
  <2>1. ASSUME NEW q \in Procs, pc'[q] \in {"main", "sort"}, NEW r \in Procs, r # q, Within(r, q)
        PROVE  ~Forked(r)'
    <3>1. CASE q = c
      BY <3>1, <2>1, <1>3
    <3>2. CASE q # c
      <4>1. pc[q] \in {"main", "sort"} /\ q # p
        BY <3>2, <2>1, <1>2
      <4>2. ~Forked(r)
        BY <4>1, <2>0, <2>1 DEF Beneath
      <4>3. r # c
        <5>1. SUFFICES ASSUME r = c PROVE FALSE
          OBVIOUS
        <5>2. Forked(q)
          BY <4>1 DEF Forked
        <5>3. Below(p, q)
          BY <5>1, <5>2, <4>1, <2>1, <1>4, <1>5
        <5>4. Within(p, q)
          BY <5>3, Geometry DEF Below
        <5> QED BY <5>4, <4>1, <2>0, <1>2 DEF Beneath
      <4> QED BY <4>2, <4>3, <1>3
    <3> QED BY <3>1, <3>2
  <2>2. ASSUME NEW q \in Procs, pc'[q] = "fork right", NEW r \in Procs, Within(r, Right(q))
        PROVE  ~Forked(r)'
    <3>1. CASE q = p
      <4>1. ~Forked(r) /\ label = "fork right" /\ c = Left(p)
        BY <3>1, <2>2, <1>2
      <4>2. r # c
        <5>1. SUFFICES ASSUME r = c PROVE FALSE
          OBVIOUS
        <5>2. Within(c, Left(p)) /\ Within(c, Right(p))
          BY <5>1, <4>1, <3>1, <2>2, <1>1, Geometry
        <5> QED BY <5>2, <1>1, OneHalf
      <4> QED BY <4>1, <4>2, <1>3
    <3>2. CASE q # p
      <4>1. pc[q] = "fork right" /\ Forked(q)
        BY <3>2, <2>2, <1>2 DEF Forked
      <4>2. ~Forked(r)
        BY <4>1, <2>0, <2>2 DEF Beneath
      <4>3. r # c
        <5>1. SUFFICES ASSUME r = c PROVE FALSE
          OBVIOUS
        <5>2. Within(c, Right(q)) /\ Within(c, q)
          BY <5>1, <2>2, <1>1, Geometry
        <5>3. Below(p, q)
          BY <5>2, <4>1, <3>2, <1>4, <1>5
        <5>4. ~Within(p, Right(q))
          BY <4>1, <2>0, <1>2 DEF Beneath
        <5>5. Within(c, Left(q))
          BY <5>3, <5>4, <1>1, Geometry DEF Below
        <5> QED BY <5>2, <5>5, <1>1, OneHalf
      <4> QED BY <4>2, <4>3, <1>3
    <3> QED BY <3>1, <3>2
  <2>3. ASSUME NEW q \in Procs, pc'[q] = "wait right",
               NEW r \in Procs, Within(r, Left(q)), Forked(r)'
        PROVE  Ended(r)'
    <3>1. pc[q] = "wait right" /\ q # p /\ Forked(q)
      BY <2>3, <1>2 DEF Forked
    <3>2. CASE r # c
      BY <3>1, <3>2, <2>0, <2>3, <1>3 DEF Beneath
    <3>3. CASE r = c
      <4>1. Within(c, Left(q)) /\ Within(c, q)
        BY <3>3, <2>3, <1>1, Geometry
      <4>2. Below(p, q)
        BY <4>1, <3>1, <1>4, <1>5
      <4>3. ~Within(p, Left(q))
        BY <3>1, <2>0, <1>2 DEF Beneath, Ended, Alive
      <4>4. Within(c, Right(q))
        BY <4>2, <4>3, <1>1, Geometry DEF Below
      <4> QED BY <4>1, <4>4, <1>1, OneHalf
    <3> QED BY <3>2, <3>3
  <2>4. ASSUME NEW q \in Procs, pc'[q] \in {"merge", "copy", "unmap"} \/ wstatus'[q] = "ok",
               NEW r \in Procs, r # q, Within(r, q), Forked(r)'
        PROVE  Ended(r)'
    <3>1. q # p /\ q # c /\ Forked(q) /\ NobodyBelow(q)
      <4>1. wstatus[q] = "ok" => pc[q] = "gone"
        BY <2>0 DEF Beneath
      <4>2. q # p /\ q # c
        BY <4>1, <2>4, <1>2 DEF Alive
      <4> QED BY <4>1, <4>2, <2>0, <2>4, <1>2 DEF Beneath, Forked
    <3>2. CASE r # c
      BY <3>1, <3>2, <2>4, <1>3 DEF NobodyBelow
    <3>3. CASE r = c
      <4>1. Below(p, q)
        BY <3>1, <3>3, <2>4, <1>4, <1>5
      <4>2. Within(p, q)
        BY <4>1, Geometry DEF Below
      <4> QED BY <4>2, <3>1, <1>2 DEF NobodyBelow, Ended, Alive
    <3> QED BY <3>2, <3>3
  <2>5. ASSUME NEW q \in Procs, wstatus'[q] # "none"
        PROVE  pc'[q] = "gone"
    <3>1. pc[q] = "gone"
      BY <2>0, <2>5 DEF Beneath
    <3> QED BY <3>1, <1>2 DEF Alive
  <2> QED BY <2>1, <2>2, <2>3, <2>4, <2>5 DEF Beneath, NobodyBelow, Within, Left, Right, mid
<1> QED BY <1>6, <1>7, <1>8 DEF TreeInv

-----------------------------------------------------------------------------
(* Every step keeps the tree *)

\* At the start the root is alone.
LEMMA TreeInit ==
  ASSUME Init, TypeOK
  PROVE  TreeInv
<1>1. \A p \in Procs : /\ pc[p] = IF p = Root THEN "main" ELSE "none"
                       /\ wstatus[p] = "none"
  BY DEF Init
<1>2. \A p \in Procs : Forked(p) <=> p = Root
  BY <1>1 DEF Forked
<1>3. RangesOk
  <2>1. Root \in Procs /\ Within(Root, Root)
    BY RootType, Geometry
  <2> QED BY <2>1, <1>1, <1>2 DEF RangesOk, Alive
<1>4. Nested
  BY <1>2 DEF Nested
<1>5. Beneath
  BY <1>1, <1>2 DEF Beneath, NobodyBelow
<1> QED BY <1>3, <1>4, <1>5 DEF TreeInv

\* The tree invariant is about the processes, not about the array.
LEMMA TreeUnchanged ==
  ASSUME TreeInv, UNCHANGED <<length, pc, wstatus, reaped>>
  PROVE  TreeInv'
  BY DEF TreeInv, RangesOk, Nested, Beneath, NobodyBelow, Forked, Ended, Alive, Root,
         Within, Apart, Below, NonEmpty, Left, Right, mid, Size

\* Any process may end: with success only where nobody is left below it.
LEMMA ExitStep ==
  ASSUME TypeOK, TreeInv, NEW p \in Procs, Alive(p),
         NEW how, how = "ok" => pc[p] \in {"copy", "unmap"},
         Exit(p, how), length' = length, reaped \subseteq reaped'
  PROVE  TreeInv'
<1>1. pc' = [pc EXCEPT ![p] = "gone"] /\ wstatus' = [wstatus EXCEPT ![p] = how]
  BY DEF Exit, Goto
<1>2. wstatus'[p] = how /\ \A q \in Procs : q # p => wstatus'[q] = wstatus[q]
  BY <1>1 DEF TypeOK
<1>3. how = "ok" =>
        \A q \in Procs : q # p /\ Within(q, p) /\ Forked(q) => pc[q] = "gone" /\ q \in reaped'
  BY DEF TreeInv, Beneath, NobodyBelow, Ended
<1>4. "gone" \in Labels \ {"none", "main", "fork right"}
  BY DEF Labels
<1> QED BY <1>1, <1>2, <1>3, <1>4, TreeStep

\* p goes on to another place, and nobody ends.
LEMMA GotoStep ==
  ASSUME TypeOK, TreeInv, NEW p \in Procs, Alive(p),
         NEW label \in Labels \ {"none", "main", "fork right", "gone"},
         Goto(p, label), length' = length, reaped \subseteq reaped', wstatus' = wstatus,
         label = "sort" => \A q \in Procs : q # p /\ Within(q, p) => ~Forked(q),
         label = "wait right" =>
           \A q \in Procs : Within(q, Left(p)) /\ Forked(q) => pc[q] = "gone" /\ q \in reaped',
         label \in {"merge", "copy", "unmap"} =>
           \A q \in Procs : q # p /\ Within(q, p) /\ Forked(q) => pc[q] = "gone" /\ q \in reaped'
  PROVE  TreeInv'
<1>1. pc' = [pc EXCEPT ![p] = label]
  BY DEF Goto
<1>2. wstatus'[p] # "ok"
  BY DEF TreeInv, Beneath, Alive
<1>3. label \in Labels \ {"none", "main", "fork right"} /\ label # "gone"
  OBVIOUS
<1> QED BY <1>1, <1>2, <1>3, TreeStep

\* The steps of main (parsort.c:119-175) keep the tree invariant.
LEMMA TreeMain ==
  ASSUME TypeOK, TreeInv, Main
  PROVE  TreeInv'
<1>0. Root \in Procs /\ length \in Nat
  BY RootType
<1>1. CASE MapFile
  <2>1. Goto(Root, "sort") /\ Alive(Root) /\ length' = length /\ wstatus' = wstatus /\ reaped' = reaped
    BY <1>1 DEF MapFile, files, Alive
  <2>2. \A q \in Procs : q # Root /\ Within(q, Root) => ~Forked(q)
    BY <1>1, <1>0 DEF MapFile, TreeInv, Beneath
  <2>3. "sort" \in Labels \ {"none", "main", "fork right", "gone"}
    BY DEF Labels
  <2> QED BY <2>1, <2>2, <2>3, <1>0, GotoStep
<1>2. CASE MapFails
  <2>1. Exit(Root, "failed") /\ Alive(Root) /\ length' = length /\ reaped' = reaped
    BY <1>2 DEF MapFails, files, Alive
  <2> QED BY <2>1, <1>0, ExitStep
<1>3. CASE Unmap
  <2>1. /\ Exit(Root, "ok") \/ Exit(Root, "failed")
        /\ Alive(Root) /\ length' = length /\ reaped' = reaped /\ pc[Root] = "unmap"
    BY <1>3 DEF Unmap, files, Alive
  <2>2. CASE Exit(Root, "ok")
    BY <2>1, <2>2, <1>0, ExitStep
  <2>3. CASE Exit(Root, "failed")
    BY <2>1, <2>3, <1>0, ExitStep
  <2> QED BY <2>1, <2>2, <2>3
<1> QED BY <1>1, <1>2, <1>3 DEF Main

\* The first fork (parsort.c:56-63) keeps the tree invariant.
LEMMA TreeForkLeft ==
  ASSUME TypeOK, TreeInv, NEW p \in Procs, ForkLeft(p)
  PROVE  TreeInv'
<1> DEFINE c == Left(p)
<1>1. /\ pc[p] = "sort" /\ pc' = [pc EXCEPT ![p] = "fork right", ![c] = "sort"]
      /\ length' = length /\ wstatus' = wstatus /\ reaped' = reaped
      /\ ~(Size(p) <= threshold)
  BY DEF ForkLeft, IsSequential, files
<1>2. Size(p) >= 2
  <2>1. threshold \in Nat /\ threshold # 0 /\ Size(p) \in Nat
    BY ParsortAssumption, Middle DEF TypeOK
  <2>2. ~(Size(p) <= threshold)
    BY <1>1
  <2> QED BY <2>1, <2>2
<1>3. NonEmpty(c) /\ c # p
  BY <1>2, Split
<1>4. c \in Procs /\ Within(c, p) /\ Within(Right(p), p) /\ Right(p) \in Procs
  BY Geometry
<1>5. \A q \in Procs : q # p /\ Within(q, p) => ~Forked(q)
  BY <1>1 DEF TreeInv, Beneath
<1>6. \A q \in Procs : Within(q, c) => ~Forked(q)
  <2>1. SUFFICES ASSUME NEW q \in Procs, Within(q, c) PROVE ~Forked(q)
    OBVIOUS
  <2>2. q # p
    BY <2>1, <1>3, <1>4, Geometry
  <2>3. Within(q, p)
    BY <2>1, <1>4, Geometry
  <2> QED BY <2>2, <2>3, <1>5
<1>7. \A q \in Procs : Within(q, Right(p)) => ~Forked(q)
  <2>1. SUFFICES ASSUME NEW q \in Procs, Within(q, Right(p)) PROVE ~Forked(q)
    OBVIOUS
  <2>2. q # p
    BY <2>1, <1>2, <1>4, Split, Geometry
  <2>3. Within(q, p)
    BY <2>1, <1>4, Geometry
  <2> QED BY <2>2, <2>3, <1>5
<1>8. \A q \in Procs : Forked(q) /\ Below(q, p) => Apart(q, c)
  BY <1>6, <1>7 DEF Below
<1> HIDE DEF c
<1>9. c \in {Left(p), Right(p)} /\ c = Left(p)
  BY DEF c
<1> QED BY <1>1, <1>2, <1>3, <1>6, <1>7, <1>8, <1>9, ForkStep

\* The second fork (parsort.c:66-74) keeps the tree invariant.
LEMMA TreeForkRight ==
  ASSUME TypeOK, TreeInv, NEW p \in Procs, ForkRight(p)
  PROVE  TreeInv'
<1> DEFINE c == Right(p)
<1>1. /\ pc[p] = "fork right" /\ pc' = [pc EXCEPT ![p] = "wait left", ![c] = "sort"]
      /\ length' = length /\ wstatus' = wstatus /\ reaped' = reaped
  BY DEF ForkRight, files
<1>2. NonEmpty(c) /\ c # p
  <2>1. Size(p) >= 2
    BY <1>1 DEF TreeInv, RangesOk
  <2> QED BY <2>1, Split
<1>3. \A q \in Procs : Within(q, c) => ~Forked(q)
  BY <1>1 DEF TreeInv, Beneath
<1>4. \A q \in Procs : Forked(q) /\ Below(q, p) => Apart(q, c)
  <2>1. Left(p) \in Procs /\ c \in Procs /\ Apart(Left(p), c)
    BY Geometry
  <2>2. \A q \in Procs : Within(q, Left(p)) => Apart(q, c)
    BY <2>1, Geometry
  <2> QED BY <2>2, <1>3 DEF Below
<1> HIDE DEF c
<1>5. c \in {Left(p), Right(p)}
  BY DEF c
<1> QED BY <1>1, <1>2, <1>3, <1>4, <1>5, ForkStep

\* The first wait (parsort.c:76-90): all that is below the left child has ended
\* when the left child has succeeded.
LEMMA TreeWaitLeft ==
  ASSUME TypeOK, TreeInv, NEW p \in Procs, WaitLeft(p)
  PROVE  TreeInv'
<1>1. pc[p] = "wait left" /\ Alive(p) /\ reaped \subseteq reaped' /\ length' = length
  BY DEF WaitLeft, waitpid, files, Alive
<1>2. CASE ExitedNormally(Left(p))
  <2>0. /\ wstatus[Left(p)] = "ok" /\ pc[Left(p)] = "gone"
        /\ reaped' = reaped \cup {Left(p)}
    BY <1>2 DEF WaitLeft, waitpid, ExitedNormally
  <2>1. Goto(p, "wait right") /\ wstatus' = wstatus
    BY <1>2 DEF WaitLeft
  <2>2. ASSUME NEW q \in Procs, Within(q, Left(p)), Forked(q)
        PROVE  pc[q] = "gone" /\ q \in reaped'
    <3>1. NobodyBelow(Left(p))
      BY <2>0, Geometry DEF TreeInv, Beneath
    <3> QED BY <3>1, <2>0, <2>2 DEF NobodyBelow, Ended
  <2>3. "wait right" \in Labels \ {"none", "main", "fork right", "gone"}
    BY DEF Labels
  <2> QED BY <2>1, <2>2, <2>3, <1>1, GotoStep
<1>3. CASE ~ExitedNormally(Left(p))
  <2>1. Exit(p, "failed")
    BY <1>3 DEF WaitLeft
  <2> QED BY <2>1, <1>1, ExitStep
<1> QED BY <1>2, <1>3

\* The second wait (parsort.c:92-106): after it nobody is left below p.
LEMMA TreeWaitRight ==
  ASSUME TypeOK, TreeInv, NEW p \in Procs, WaitRight(p)
  PROVE  TreeInv'
<1>1. /\ pc[p] = "wait right" /\ Alive(p) /\ Forked(p)
      /\ reaped \subseteq reaped' /\ length' = length
  BY DEF WaitRight, waitpid, files, Alive, Forked
<1>2. CASE ExitedNormally(Right(p))
  <2>0. /\ wstatus[Right(p)] = "ok" /\ pc[Right(p)] = "gone"
        /\ reaped' = reaped \cup {Right(p)}
    BY <1>2 DEF WaitRight, waitpid, ExitedNormally
  <2>1. Goto(p, "merge") /\ wstatus' = wstatus
    BY <1>2 DEF WaitRight
  <2>2. ASSUME NEW q \in Procs, q # p, Within(q, p), Forked(q)
        PROVE  pc[q] = "gone" /\ q \in reaped'
    <3>1. Below(q, p)
      BY <2>2, <1>1, WithinIsBelow DEF TreeInv
    <3>2. CASE Within(q, Left(p))
      BY <3>2, <2>2, <1>1 DEF TreeInv, Beneath, Ended
    <3>3. CASE Within(q, Right(p))
      <4>1. NobodyBelow(Right(p))
        BY <2>0, Geometry DEF TreeInv, Beneath
      <4> QED BY <4>1, <3>3, <2>0, <2>2 DEF NobodyBelow, Ended
    <3> QED BY <3>1, <3>2, <3>3 DEF Below
  <2>3. "merge" \in Labels \ {"none", "main", "fork right", "gone"}
    BY DEF Labels
  <2> QED BY <2>1, <2>2, <2>3, <1>1, GotoStep
<1>3. CASE ~ExitedNormally(Right(p))
  <2>1. Exit(p, "failed")
    BY <1>3 DEF WaitRight
  <2> QED BY <2>1, <1>1, ExitStep
<1> QED BY <1>2, <1>3

\* Every step of a process keeps the tree invariant.
LEMMA TreeProcess ==
  ASSUME TypeOK, TreeInv, NEW p \in Procs, Step(p) \/ Kill(p)
  PROVE  TreeInv'
<1>1. CASE SortSequentially(p)
  <2>1. /\ Goto(p, "copy") /\ Alive(p) /\ wstatus' = wstatus /\ pc[p] = "sort"
        /\ length' = length /\ reaped' = reaped
    BY <1>1 DEF SortSequentially, files, Alive
  <2>2. \A q \in Procs : q # p /\ Within(q, p) => ~Forked(q)
    BY <2>1 DEF TreeInv, Beneath
  <2>3. "copy" \in Labels \ {"none", "main", "fork right", "gone"}
    BY DEF Labels
  <2> QED BY <2>1, <2>2, <2>3, GotoStep
<1>2. CASE ForkLeft(p)
  BY <1>2, TreeForkLeft
<1>3. CASE ForkLeftFails(p)
  <2>1. Exit(p, "failed") /\ Alive(p) /\ length' = length /\ reaped' = reaped
    BY <1>3 DEF ForkLeftFails, files, Alive
  <2> QED BY <2>1, ExitStep
<1>4. CASE ForkRight(p)
  BY <1>4, TreeForkRight
<1>5. CASE ForkRightFails(p)
  <2>1. /\ Goto(p, "pick up left") /\ Alive(p) /\ wstatus' = wstatus
        /\ length' = length /\ reaped' = reaped
    BY <1>5 DEF ForkRightFails, files, Alive
  <2>2. "pick up left" \in Labels \ {"none", "main", "fork right", "gone"}
    BY DEF Labels
  <2> QED BY <2>1, <2>2, GotoStep
<1>6. CASE PickUpLeft(p)
  <2>1. Exit(p, "failed") /\ Alive(p) /\ length' = length /\ reaped \subseteq reaped'
    BY <1>6 DEF PickUpLeft, waitpid, files, Alive
  <2> QED BY <2>1, ExitStep
<1>7. CASE WaitLeft(p)
  BY <1>7, TreeWaitLeft
<1>8. CASE WaitRight(p)
  BY <1>8, TreeWaitRight
<1>9. CASE Merge(p)
  <2>1. /\ Goto(p, "copy") /\ Alive(p) /\ wstatus' = wstatus /\ pc[p] = "merge"
        /\ length' = length /\ reaped' = reaped
    BY <1>9 DEF Merge, files, Alive
  <2>2. \A q \in Procs : q # p /\ Within(q, p) /\ Forked(q) => pc[q] = "gone" /\ q \in reaped'
    BY <2>1 DEF TreeInv, Beneath, NobodyBelow, Ended
  <2>3. "copy" \in Labels \ {"none", "main", "fork right", "gone"}
    BY DEF Labels
  <2> QED BY <2>1, <2>2, <2>3, GotoStep
<1>10. CASE CopyBack(p)
  BY <1>10, TreeUnchanged DEF CopyBack, files
<1>11. CASE Return(p)
  <2>1. Alive(p) /\ length' = length /\ reaped' = reaped /\ pc[p] = "copy"
    BY <1>11 DEF Return, files, Alive
  <2>2. CASE p = Root
    <3>1. Goto(p, "unmap") /\ wstatus' = wstatus
      BY <2>2, <1>11 DEF Return
    <3>2. \A q \in Procs : q # p /\ Within(q, p) /\ Forked(q) => pc[q] = "gone" /\ q \in reaped'
      BY <2>1 DEF TreeInv, Beneath, NobodyBelow, Ended
    <3>3. "unmap" \in Labels \ {"none", "main", "fork right", "gone"}
      BY DEF Labels
    <3> QED BY <2>1, <3>1, <3>2, <3>3, GotoStep
  <2>3. CASE p # Root
    <3>1. Exit(p, "ok")
      BY <2>3, <1>11 DEF Return
    <3> QED BY <3>1, <2>1, ExitStep
  <2> QED BY <2>2, <2>3
<1>12. CASE Kill(p)
  <2>1. Exit(p, "killed") /\ Alive(p) /\ length' = length /\ reaped' = reaped
    BY <1>12 DEF Kill, files
  <2> QED BY <2>1, ExitStep
<1> QED BY <1>1, <1>2, <1>3, <1>4, <1>5, <1>6, <1>7, <1>8, <1>9, <1>10, <1>11, <1>12 DEF Step

\* The tree invariant is inductive.
LEMMA TreeNext ==
  ASSUME TypeOK, TreeInv, [Next]_vars
  PROVE  TreeInv'
<1>1. CASE Main
  BY <1>1, TreeMain
<1>2. CASE \E p \in Procs : Step(p) \/ Kill(p)
  BY <1>2, TreeProcess
<1>3. CASE UNCHANGED vars
  BY <1>3, TreeUnchanged DEF vars, files
<1> QED BY <1>1, <1>2, <1>3 DEF Next

-----------------------------------------------------------------------------
(* Types *)

\* TypeOK says nothing of what is not being copied; this is what remains.
Domains == DOMAIN temparr = Procs /\ DOMAIN i = Procs

\* A process works within the mapping of the file.
LEMMA SpanInFile ==
  ASSUME TypeOK, TreeInv, NEW p \in Procs, Forked(p)
  PROVE  /\ Span(p) \subseteq 0..length - 1
         /\ \A k \in Span(p) : arr[k] \in Values /\ arr[k] \in Int
<1>1. length \in Nat /\ Within(p, Root)
  BY RootType DEF TreeInv, RangesOk
<1>2. p[1] \in Nat /\ p[2] \in Nat /\ p[2] <= length
  BY <1>1, Middle DEF Within, Root
<1>3. Span(p) \subseteq 0..length - 1
  BY <1>1, <1>2, SpanMembers
<1>4. arr \in [0..length - 1 -> Values] /\ Values \subseteq Int
  BY ParsortAssumption DEF TypeOK
<1> QED BY <1>3, <1>4

\* merge yields one element for each position of its range.
LEMMA MergeType ==
  ASSUME TypeOK, TreeInv, NEW p \in Procs, Forked(p)
  PROVE  merge(p) \in [Span(p) -> Values]
  BY SpanInFile, SourceType DEF merge

\* The types hold at the start.
LEMMA TypeInit ==
  ASSUME Init
  PROVE  TypeOK /\ Domains
<1>1. <<length, threshold>> \in Jobs
  BY ParsortAssumption DEF Init
<1>2. pc \in [Procs -> Labels]
  BY DEF Init, Labels
<1> QED BY <1>1, <1>2 DEF Init, TypeOK, Domains

\* What a step of p has to keep, for the types to hold after it.
LEMMA TypeKept ==
  ASSUME TypeOK, Domains, UNCHANGED files, NEW p \in Procs,
         arr' \in [0..length - 1 -> Values],
         pc' \in [Procs -> Labels],
         wstatus' \in [Procs -> {"none", "ok", "failed", "killed"}],
         reaped' \subseteq Procs,
         DOMAIN temparr' = Procs, DOMAIN i' = Procs,
         \A q \in Procs : pc'[q] = "copy" /\ q # p =>
           pc[q] = "copy" /\ temparr'[q] = temparr[q] /\ i'[q] = i[q],
         pc'[p] = "copy" => temparr'[p] \in [Span(p) -> Values] /\ i'[p] \in p[1]..p[2]
  PROVE  TypeOK' /\ Domains'
<1>1. ASSUME NEW q \in Procs, pc'[q] = "copy"
      PROVE  temparr'[q] \in [Span(q) -> Values] /\ i'[q] \in q[1]..q[2]
  BY <1>1 DEF TypeOK
<1> QED BY <1>1 DEF TypeOK, Domains, files, Span

\* The types of a step that ends p
LEMMA ExitType ==
  ASSUME TypeOK, NEW p \in Procs, NEW how \in {"ok", "failed", "killed"}, Exit(p, how)
  PROVE  /\ pc' \in [Procs -> Labels]
         /\ wstatus' \in [Procs -> {"none", "ok", "failed", "killed"}]
         /\ pc'[p] # "copy" /\ \A q \in Procs : q # p => pc'[q] = pc[q]
  BY DEF TypeOK, Exit, Goto, Labels

\* The types of a step that takes p elsewhere
LEMMA GotoType ==
  ASSUME TypeOK, NEW p \in Procs, NEW label \in Labels, Goto(p, label)
  PROVE  /\ pc' \in [Procs -> Labels]
         /\ pc'[p] = label /\ \A q \in Procs : q # p => pc'[q] = pc[q]
  BY DEF TypeOK, Goto, Labels

\* The types hold after every step: nothing is written outside the mapping.
LEMMA TypeNext ==
  ASSUME TypeOK, Domains, TreeInv, [Next]_vars
  PROVE  TypeOK' /\ Domains'
<1>0. Root \in Procs
  BY RootType
<1>u. /\ arr \in [0..length - 1 -> Values]
      /\ pc \in [Procs -> Labels]
      /\ wstatus \in [Procs -> {"none", "ok", "failed", "killed"}]
      /\ reaped \subseteq Procs
      /\ DOMAIN temparr = Procs /\ DOMAIN i = Procs
      /\ \A q \in Procs : pc[q] = "copy" => temparr[q] \in [Span(q) -> Values] /\ i[q] \in q[1]..q[2]
  BY DEF TypeOK, Domains
<1>l. /\ {"none", "main", "sort", "fork right", "pick up left", "wait left",
          "wait right", "merge", "copy", "unmap", "gone"} \subseteq Labels
  BY DEF Labels
\* a step of p that only ends it
<1>e. ASSUME NEW p \in Procs, NEW how \in {"ok", "failed", "killed"}, Exit(p, how),
             UNCHANGED <<files, arr, temparr, i>>, reaped' \subseteq Procs
      PROVE  TypeOK' /\ Domains'
  BY <1>e, <1>u, ExitType, TypeKept
\* a step of p that only takes it elsewhere
<1>g. ASSUME NEW p \in Procs, NEW label \in Labels \ {"copy"}, Goto(p, label),
             UNCHANGED <<files, arr, wstatus, temparr, i>>, reaped' \subseteq Procs
      PROVE  TypeOK' /\ Domains'
  BY <1>g, <1>u, GotoType, TypeKept
\* a step of p that sets what it is about to copy
<1>c. ASSUME NEW p \in Procs, Goto(p, "copy"), NEW s \in [Span(p) -> Values],
             temparr' = [temparr EXCEPT ![p] = s], i' = [i EXCEPT ![p] = p[1]],
             UNCHANGED <<files, arr, wstatus, reaped>>
      PROVE  TypeOK' /\ Domains'
  <2>1. /\ temparr'[p] = s /\ i'[p] = p[1]
        /\ \A q \in Procs : q # p => temparr'[q] = temparr[q] /\ i'[q] = i[q]
        /\ DOMAIN temparr' = Procs /\ DOMAIN i' = Procs
    BY <1>c, <1>u
  <2>2. p[1] \in p[1]..p[2]
    BY DEF Procs
  <2>3. /\ pc' \in [Procs -> Labels]
        /\ \A q \in Procs : q # p => pc'[q] = pc[q]
    BY <1>c, <1>l, GotoType
  <2> QED BY <2>1, <2>2, <2>3, <1>c, <1>u, TypeKept
<1>1. CASE Main
  <2>1. CASE MapFile
    BY <2>1, <1>0, <1>u, <1>l, <1>g DEF MapFile
  <2>2. CASE MapFails
    BY <2>2, <1>0, <1>u, <1>e DEF MapFails
  <2>3. CASE Unmap
    BY <2>3, <1>0, <1>u, <1>e DEF Unmap
  <2> QED BY <2>1, <2>2, <2>3, <1>1 DEF Main
<1>2. ASSUME NEW p \in Procs, Step(p) \/ Kill(p)
      PROVE  TypeOK' /\ Domains'
  <2>0. Left(p) \in Procs /\ Right(p) \in Procs
    BY Middle
  <2>1. CASE SortSequentially(p)
    BY <2>1, <1>c DEF SortSequentially
  <2>2. CASE ForkLeft(p)
    <3>1. pc' \in [Procs -> Labels] /\ \A q \in Procs : pc'[q] = "copy" => pc[q] = "copy"
      BY <2>2, <2>0, <1>u, <1>l DEF ForkLeft
    <3> QED BY <3>1, <2>2, <1>u, TypeKept DEF ForkLeft
  <2>3. CASE ForkLeftFails(p)
    BY <2>3, <1>u, <1>e DEF ForkLeftFails
  <2>4. CASE ForkRight(p)
    <3>1. pc' \in [Procs -> Labels] /\ \A q \in Procs : pc'[q] = "copy" => pc[q] = "copy"
      BY <2>4, <2>0, <1>u, <1>l DEF ForkRight
    <3> QED BY <3>1, <2>4, <1>u, TypeKept DEF ForkRight
  <2>5. CASE ForkRightFails(p)
    BY <2>5, <1>u, <1>l, <1>g DEF ForkRightFails
  <2>6. CASE PickUpLeft(p)
    BY <2>6, <2>0, <1>u, <1>e DEF PickUpLeft, waitpid
  <2>7. CASE WaitLeft(p)
    <3>1. reaped' \subseteq Procs
      BY <2>7, <2>0, <1>u DEF WaitLeft, waitpid
    <3>2. CASE ExitedNormally(Left(p))
      BY <3>1, <3>2, <2>7, <1>l, <1>g DEF WaitLeft
    <3>3. CASE ~ExitedNormally(Left(p))
      BY <3>1, <3>3, <2>7, <1>e DEF WaitLeft
    <3> QED BY <3>2, <3>3
  <2>8. CASE WaitRight(p)
    <3>1. reaped' \subseteq Procs
      BY <2>8, <2>0, <1>u DEF WaitRight, waitpid
    <3>2. CASE ExitedNormally(Right(p))
      BY <3>1, <3>2, <2>8, <1>l, <1>g DEF WaitRight
    <3>3. CASE ~ExitedNormally(Right(p))
      BY <3>1, <3>3, <2>8, <1>e DEF WaitRight
    <3> QED BY <3>2, <3>3
  <2>9. CASE Merge(p)
    <3>1. merge(p) \in [Span(p) -> Values]
      BY <2>9, MergeType DEF Merge, Forked
    <3> QED BY <3>1, <2>9, <1>c DEF Merge
  <2>10. CASE CopyBack(p)
    <3>1. /\ pc[p] = "copy" /\ i[p] < p[2] /\ i[p] \in p[1]..p[2]
          /\ temparr[p] \in [Span(p) -> Values]
          /\ p[1] \in Nat /\ p[2] \in Nat
      BY <2>10, <1>u, Middle DEF CopyBack
    <3>2. i[p] \in Span(p) /\ i[p] + 1 \in p[1]..p[2]
      BY <3>1, SpanMembers
    <3>3. temparr[p][i[p]] \in Values
      BY <3>1, <3>2
    <3>4. arr' \in [0..length - 1 -> Values]
      BY <3>3, <2>10, <1>u DEF CopyBack
    <3>5. /\ DOMAIN i' = Procs /\ i'[p] \in p[1]..p[2]
          /\ \A q \in Procs : q # p => i'[q] = i[q]
      BY <3>2, <2>10, <1>u DEF CopyBack
    <3> QED BY <3>1, <3>4, <3>5, <2>10, <1>u, TypeKept DEF CopyBack
  <2>11. CASE Return(p)
    <3>1. CASE p = Root
      BY <3>1, <2>11, <1>u, <1>l, <1>g DEF Return
    <3>2. CASE p # Root
      BY <3>2, <2>11, <1>u, <1>e DEF Return
    <3> QED BY <3>1, <3>2
  <2>12. CASE Kill(p)
    BY <2>12, <1>u, <1>e DEF Kill
  <2> QED BY <2>1, <2>2, <2>3, <2>4, <2>5, <2>6, <2>7, <2>8, <2>9, <2>10, <2>11, <2>12, <1>2 DEF Step
<1>3. CASE UNCHANGED vars
  BY <1>3 DEF vars, files, TypeOK, Domains, Span
<1> QED BY <1>1, <1>2, <1>3 DEF Next

-----------------------------------------------------------------------------
(* Who relies on which elements *)

\* Ranges that are apart share no position.
LEMMA ApartSpans ==
  ASSUME NEW p \in Procs, NEW q \in Procs, Apart(p, q)
  PROVE  Span(p) \cap Span(q) = {}
<1>1. /\ p[1] \in Nat /\ p[2] \in Nat /\ q[1] \in Nat /\ q[2] \in Nat
      /\ \A x : x \in Span(p) <=> x \in Int /\ p[1] <= x /\ x < p[2]
      /\ \A x : x \in Span(q) <=> x \in Int /\ q[1] <= x /\ x < q[2]
  BY Middle, SpanMembers
<1> QED BY <1>1 DEF Apart

\* What is below a process that merges or copies has ended, so the others that
\* are alive are apart from it, or above it.
LEMMA CopierAlone ==
  ASSUME TypeOK, TreeInv, NEW p \in Procs, pc[p] \in {"merge", "copy"},
         NEW q \in Procs, Forked(q), pc[q] # "gone", q # p
  PROVE  Apart(p, q) \/ (Below(p, q) /\ Within(p, q) /\ ~Ended(p))
<1>1. NobodyBelow(p) /\ Forked(p) /\ ~Ended(p)
  BY DEF TreeInv, Beneath, Forked, Ended
<1>2. CASE Below(q, p)
  <2>1. Within(q, p)
    BY <1>2, Geometry DEF Below
  <2>2. Ended(q)
    BY <2>1, <1>1 DEF NobodyBelow
  <2> QED BY <2>2 DEF Ended
<1>3. CASE Below(p, q)
  BY <1>3, <1>1, Geometry DEF Below
<1> QED BY <1>1, <1>2, <1>3 DEF TreeInv, Nested

\* A process that merges or copies has its elements to itself.
LEMMA NoSharing ==
  ASSUME TypeOK, TreeInv
  PROVE  NoSharedElements
<1> SUFFICES ASSUME NEW p \in Procs, NEW q \in Procs, p # q, pc[p] \in {"merge", "copy"},
                    Span(p) \cap Span(q) # {}, Alive(q)
             PROVE  pc[q] \in {"fork right", "pick up left", "wait left", "wait right"}
  BY DEF NoSharedElements
<1>1. Forked(q) /\ Forked(p) /\ pc[q] # "gone"
  BY DEF Alive, Forked
<1>2. Within(p, q) /\ ~Ended(p)
  <2>1. Apart(p, q) \/ (Below(p, q) /\ Within(p, q) /\ ~Ended(p))
    BY <1>1, CopierAlone
  <2> QED BY <2>1, ApartSpans
<1>3. pc[q] \notin {"main", "sort", "merge", "copy", "unmap"}
  BY <1>1, <1>2 DEF TreeInv, Beneath, NobodyBelow
<1>4. pc[q] \in Labels
  BY DEF TypeOK
<1> QED BY <1>3, <1>4 DEF Labels, Alive

\* What p copies back is nothing that another process relies on: not what it is
\* to sort, not what its ended children have left for it.
LEMMA CopierElsewhere ==
  ASSUME TypeOK, TreeInv, NEW p \in Procs, pc[p] = "copy",
         NEW q \in Procs, q # p
  PROVE  /\ pc[q] \in {"main", "sort", "merge", "copy", "unmap"} =>
              Span(p) \cap Span(q) = {}
         /\ pc[q] = "fork right" => Span(p) \cap Span(Right(q)) = {}
         /\ pc[q] \in {"fork right", "wait left", "wait right"} /\ wstatus[Left(q)] = "ok" =>
              Span(p) \cap Span(Left(q)) = {}
         /\ pc[q] \in {"fork right", "wait left", "wait right"} /\ wstatus[Right(q)] = "ok" =>
              Span(p) \cap Span(Right(q)) = {}
         /\ pc[q] = "wait right" => Span(p) \cap Span(Left(q)) = {}
         /\ q = Root => wstatus[q] # "ok"
<1>0. /\ Left(q) \in Procs /\ Right(q) \in Procs
      /\ Apart(Left(q), Right(q)) /\ Apart(Right(q), Left(q))
  BY Geometry
<1>f. Forked(p) /\ ~Ended(p) /\ pc[p] # "gone"
  BY DEF Forked, Ended
<1>1. ASSUME pc[q] \in {"main", "sort", "merge", "copy", "unmap"}
      PROVE  Span(p) \cap Span(q) = {}
  <2>1. Forked(q) /\ Alive(q)
    BY <1>1 DEF Forked, Alive
  <2>2. pc[q] \notin {"fork right", "pick up left", "wait left", "wait right"}
    BY <1>1
  <2> QED BY <2>1, <2>2, NoSharing DEF NoSharedElements
<1>a. ASSUME pc[q] \in {"fork right", "wait left", "wait right"}, NEW h \in {Left(q), Right(q)},
             ~Within(p, h)
      PROVE  Span(p) \cap Span(h) = {}
  <2>1. Forked(q) /\ pc[q] # "gone" /\ pc[p] \in {"merge", "copy"}
    BY <1>a DEF Forked
  <2>2. Apart(p, q) \/ Below(p, q)
    BY <2>1, CopierAlone
  <2>3. CASE Apart(p, q)
    <3>1. Apart(q, p)
      BY <2>3, Geometry
    <3>2. Within(Left(q), q) /\ Within(Right(q), q)
      BY Geometry
    <3>3. Apart(Left(q), p) /\ Apart(Right(q), p)
      BY <3>1, <3>2, <1>0, Geometry
    <3> QED BY <3>3, <1>0, ApartSpans
  <2>4. CASE Within(p, Left(q))
    <3>1. h = Right(q)
      BY <2>4, <1>a
    <3>2. Apart(p, Right(q))
      BY <2>4, <1>0, Geometry
    <3> QED BY <3>1, <3>2, <1>0, ApartSpans
  <2>5. CASE Within(p, Right(q))
    <3>1. h = Left(q)
      BY <2>5, <1>a
    <3>2. Apart(p, Left(q))
      BY <2>5, <1>0, Geometry
    <3> QED BY <3>1, <3>2, <1>0, ApartSpans
  <2> QED BY <2>2, <2>3, <2>4, <2>5 DEF Below
<1>b. ASSUME NEW h \in Procs, wstatus[h] = "ok" PROVE ~Within(p, h)
  <2>1. NobodyBelow(h) /\ pc[h] = "gone"
    BY <1>b DEF TreeInv, Beneath
  <2> QED BY <2>1, <1>f DEF NobodyBelow
<1>2. pc[q] = "fork right" => Span(p) \cap Span(Right(q)) = {}
  <2>1. pc[q] = "fork right" => ~Within(p, Right(q))
    BY <1>f DEF TreeInv, Beneath
  <2> QED BY <2>1, <1>a
<1>3. pc[q] \in {"fork right", "wait left", "wait right"} /\ wstatus[Left(q)] = "ok" =>
        Span(p) \cap Span(Left(q)) = {}
  BY <1>a, <1>b, <1>0
<1>4. pc[q] \in {"fork right", "wait left", "wait right"} /\ wstatus[Right(q)] = "ok" =>
        Span(p) \cap Span(Right(q)) = {}
  BY <1>a, <1>b, <1>0
<1>5. pc[q] = "wait right" => Span(p) \cap Span(Left(q)) = {}
  <2>1. pc[q] = "wait right" => ~Within(p, Left(q))
    BY <1>f DEF TreeInv, Beneath
  <2> QED BY <2>1, <1>a
<1>6. q = Root => wstatus[q] # "ok"
  <2>1. Within(p, Root)
    BY <1>f DEF TreeInv, RangesOk
  <2> QED BY <2>1, <1>b
<1> QED BY <1>1, <1>2, <1>3, <1>4, <1>5, <1>6

-----------------------------------------------------------------------------
(* What has been done to a range *)

\* The elements of p's range are those of the file, sorted.
Done(p) == SortedOver(arr, Span(p)) /\ SameElements(arr, input, Span(p))
\* The elements of p's range are those of the file, where they were.
Untouched(p) == \A k \in Span(p) : arr[k] = input[k]

\* Equal arrays have the same elements.
LEMMA SameWhenEqual ==
  ASSUME NEW a, NEW b, NEW S, \A k \in S : a[k] = b[k]
  PROVE  SameElements(a, b, S)
<1>1. \A v : {k \in S : a[k] = v} = {k \in S : b[k] = v}
  OBVIOUS
<1> QED BY <1>1 DEF SameElements, Count

\* What has the elements of b has those b has them of.
LEMMA SameTransitive ==
  ASSUME NEW a, NEW b, NEW c, NEW S, SameElements(a, b, S), SameElements(b, c, S)
  PROVE  SameElements(a, c, S)
  BY DEF SameElements

\* The elements of two parts, together
LEMMA SameUnion ==
  ASSUME NEW a, NEW b, NEW S, NEW T, IsFiniteSet(S), IsFiniteSet(T), S \cap T = {},
         SameElements(a, b, S), SameElements(a, b, T)
  PROVE  SameElements(a, b, S \cup T)
<1>1. ASSUME NEW f, NEW v
      PROVE  Count(v, f, S \cup T) = Count(v, f, S) + Count(v, f, T)
  <2> DEFINE A == {k \in S : f[k] = v}
             B == {k \in T : f[k] = v}
  <2>1. {k \in S \cup T : f[k] = v} = A \cup B /\ A \cap B = {}
    OBVIOUS
  <2>2. IsFiniteSet(A) /\ IsFiniteSet(B)
    BY FS_Subset
  <2> HIDE DEF A, B
  <2>3. Cardinality(A \cup B) = Cardinality(A) + Cardinality(B) - Cardinality(A \cap B)
    BY <2>2, FS_Union
  <2>4. Cardinality(A \cap B) = 0
    BY <2>1, FS_EmptySet
  <2>5. Cardinality(A) \in Nat /\ Cardinality(B) \in Nat
    BY <2>2, FS_CardinalityType
  <2>6. Cardinality(A \cup B) = Cardinality(A) + Cardinality(B)
    BY <2>3, <2>4, <2>5
  <2> QED BY <2>1, <2>6 DEF Count, A, B
<1> QED BY <1>1 DEF SameElements

\* A range nobody writes to stays done, or untouched.
LEMMA DoneKept ==
  ASSUME NEW p \in Procs, input' = input, \A k \in Span(p) : arr'[k] = arr[k]
  PROVE  /\ Done(p) => Done(p)'
         /\ Untouched(p) => Untouched(p)'
<1>1. Span(p)' = Span(p)
  BY DEF Span
<1>2. Done(p) => SortedOver(arr', Span(p))
  BY DEF Done, SortedOver
<1>3. Done(p) => SameElements(arr', input, Span(p))
  BY SameWhenEqual, SameTransitive DEF Done
<1>4. SameElements(arr', input, Span(p)) => SameElements(arr, input, Span(p))'
  BY <1>1 DEF SameElements, Count
<1>5. SortedOver(arr', Span(p)) => SortedOver(arr, Span(p))'
  BY <1>1 DEF SortedOver
<1>6. Untouched(p) => Untouched(p)'
  BY <1>1 DEF Untouched
<1> QED BY <1>2, <1>3, <1>4, <1>5, <1>6 DEF Done

\* When both halves are done, merge yields the elements of the range, sorted.
LEMMA MergeDone ==
  ASSUME TypeOK, TreeInv, NEW p \in Procs, Forked(p), Done(Left(p)), Done(Right(p))
  PROVE  SortedOver(merge(p), Span(p)) /\ SameElements(merge(p), input, Span(p))
<1>1. /\ SortedOver(arr, Span(Left(p))) /\ SortedOver(arr, Span(Right(p)))
      /\ SameElements(arr, input, Span(Left(p))) /\ SameElements(arr, input, Span(Right(p)))
  BY DEF Done
<1>2. \A k \in Span(p) : arr[k] \in Int
  BY SpanInFile
<1>3. SortedOver(merge(p), Span(p)) /\ SameElements(merge(p), arr, Span(p))
  BY <1>1, <1>2, MergeSorts, MergePermutes
<1>4. /\ IsFiniteSet(Span(Left(p))) /\ IsFiniteSet(Span(Right(p)))
      /\ Span(p) = Span(Left(p)) \cup Span(Right(p)) /\ Span(Left(p)) \cap Span(Right(p)) = {}
  BY SpanFacts, Middle
<1>5. SameElements(arr, input, Span(p))
  BY <1>1, <1>4, SameUnion
<1> QED BY <1>3, <1>5, SameTransitive

\* What p is about to copy is what it promises, and what it has copied is there.
CopyOk(p) ==
  /\ SortedOver(temparr[p], Span(p))
  /\ SameElements(temparr[p], input, Span(p))
  /\ \A k \in p[1]..i[p] - 1 : arr[k] = temparr[p][k]

\* What a process has to rely on, at each place: what it is to sort is untouched, a
\* half whose process has succeeded is done, and stays so until p copies.
DataOk(p) ==
  /\ pc[p] \in {"main", "sort"} => Untouched(p)
  /\ pc[p] = "fork right" => Untouched(Right(p))
  /\ pc[p] \in {"fork right", "wait left"} /\ wstatus[Left(p)] = "ok" => Done(Left(p))
  /\ pc[p] \in {"wait left", "wait right"} /\ wstatus[Right(p)] = "ok" => Done(Right(p))
  /\ pc[p] = "wait right" => Done(Left(p))
  /\ pc[p] = "merge" => Done(Left(p)) /\ Done(Right(p))
  /\ pc[p] = "copy" => CopyOk(p)
  /\ p = Root /\ (pc[p] = "unmap" \/ wstatus[p] = "ok") => Done(p)

DataInv == \A p \in Procs : DataOk(p)

ParsortInv == TypeOK /\ Domains /\ TreeInv /\ DataInv

\* Ranges do not change.
LEMMA HalvesPrimed ==
  /\ \A p : Left(p)' = Left(p) /\ Right(p)' = Right(p) /\ Span(p)' = Span(p)
  /\ length' = length => Root' = Root
  BY DEF Left, Right, Span, mid, Root

\* At the start the array is the file.
LEMMA DataInit ==
  ASSUME Init, TypeOK
  PROVE  DataInv
<1>1. \A p \in Procs : /\ pc[p] \in {"main", "none"}
                       /\ wstatus[p] = "none"
                       /\ Untouched(p)
  BY DEF Init, Untouched
<1> QED BY <1>1, Geometry DEF DataInv, DataOk

\* What p copies stays right as long as p and what it has copied stay.
LEMMA CopyKept ==
  ASSUME NEW p \in Procs, CopyOk(p), input' = input,
         temparr'[p] = temparr[p], i'[p] = i[p],
         \A k \in p[1]..i[p] - 1 : arr'[k] = arr[k]
  PROVE  CopyOk(p)'
<1>1. SameElements(temparr[p], input, Span(p))'
  BY HalvesPrimed DEF CopyOk, SameElements, Count
<1>2. SortedOver(temparr[p], Span(p))'
  BY HalvesPrimed DEF CopyOk, SortedOver
<1> QED BY <1>1, <1>2 DEF CopyOk

\* A step of p that does not write the array and forks nobody keeps the data
\* invariant if it keeps it for p.
LEMMA DataStep ==
  ASSUME TypeOK, DataInv, NEW p \in Procs, NEW label,
         label \notin {"main", "fork right", "wait left"},
         UNCHANGED files, arr' = arr,
         pc'[p] = label, \A q \in Procs : q # p => pc'[q] = pc[q],
         \A q \in Procs : q # p =>
           wstatus'[q] = wstatus[q] /\ temparr'[q] = temparr[q] /\ i'[q] = i[q],
         wstatus'[p] = "ok" \/ label = "unmap" => Done(p),
         label = "sort" => Untouched(p),
         label = "wait right" =>
           Done(Left(p)) /\ (wstatus'[Right(p)] = "ok" => Done(Right(p))),
         label = "merge" => Done(Left(p)) /\ Done(Right(p)),
         label = "copy" => CopyOk(p)'
  PROVE  DataInv'
<1>1. input' = input /\ length' = length
  BY DEF files
<1>2. \A q \in Procs : Done(q) => Done(q)'
  BY <1>1, DoneKept
<1>3. \A q \in Procs : Untouched(q) => Untouched(q)'
  BY <1>1, DoneKept
<1>4. \A q \in Procs : Left(q) \in Procs /\ Right(q) \in Procs
  BY Middle
<1>5. \A q \in Procs : /\ Done(Left(q)) => Done(Left(q))'
                       /\ Done(Right(q)) => Done(Right(q))'
                       /\ Untouched(Right(q)) => Untouched(Right(q))'
  BY <1>2, <1>3, <1>4
<1>6. \A q \in Procs : DataOk(q)
  BY DEF DataInv
<1>7. \A q \in Procs : wstatus'[q] = "ok" => wstatus[q] = "ok" \/ Done(q)
  OBVIOUS
<1> SUFFICES ASSUME NEW q \in Procs PROVE DataOk(q)'
  BY DEF DataInv
<1>8. /\ pc'[q] \in {"main", "sort"} => Untouched(q)'
      /\ pc'[q] = "fork right" => Untouched(Right(q))'
  BY <1>3, <1>5, <1>6 DEF DataOk
<1>9. pc'[q] \in {"fork right", "wait left"} /\ wstatus'[Left(q)] = "ok" => Done(Left(q))'
  BY <1>4, <1>5, <1>6, <1>7 DEF DataOk
<1>10. pc'[q] \in {"wait left", "wait right"} /\ wstatus'[Right(q)] = "ok" => Done(Right(q))'
  BY <1>4, <1>5, <1>6, <1>7 DEF DataOk
<1>11. /\ pc'[q] = "wait right" => Done(Left(q))'
       /\ pc'[q] = "merge" => Done(Left(q))' /\ Done(Right(q))'
  BY <1>5, <1>6 DEF DataOk
<1>12. pc'[q] = "copy" => CopyOk(q)'
  BY <1>1, <1>6, CopyKept DEF DataOk
<1>13. q = Root /\ (pc'[q] = "unmap" \/ wstatus'[q] = "ok") => Done(q)'
  BY <1>2, <1>6 DEF DataOk
<1> QED BY <1>8, <1>9, <1>10, <1>11, <1>12, <1>13, <1>1, HalvesPrimed DEF DataOk

\* p forks a child, which finds the elements of the file in its range.
LEMMA DataFork ==
  ASSUME TypeOK, TreeInv, DataInv, NEW p \in Procs, NEW c \in {Left(p), Right(p)}, c # p,
         ~Forked(c), Untouched(c),
         NEW label \in {"fork right", "wait left"},
         pc' = [pc EXCEPT ![p] = label, ![c] = "sort"],
         UNCHANGED <<files, arr, wstatus, reaped, temparr, i>>,
         label = "fork right" => c = Left(p) /\ Untouched(Right(p)),
         label = "wait left" => c = Right(p) /\ pc[p] = "fork right"
  PROVE  DataInv'
<1>1. /\ input' = input /\ length' = length /\ wstatus' = wstatus
      /\ temparr' = temparr /\ i' = i /\ arr' = arr
  BY DEF files
<1>2. \A q \in Procs : Left(q) \in Procs /\ Right(q) \in Procs
  BY Middle
<1>3. /\ pc'[p] = label /\ pc'[c] = "sort" /\ c \in Procs
      /\ \A q \in Procs : q # p /\ q # c => pc'[q] = pc[q]
  BY <1>2 DEF TypeOK
<1>4. /\ \A q \in Procs : (Done(q) => Done(q)') /\ (Untouched(q) => Untouched(q)')
      /\ \A q \in Procs : /\ Done(Left(q)) => Done(Left(q))'
                          /\ Done(Right(q)) => Done(Right(q))'
                          /\ Untouched(Right(q)) => Untouched(Right(q))'
  <2>1. \A q \in Procs : (Done(q) => Done(q)') /\ (Untouched(q) => Untouched(q)')
    BY <1>1, DoneKept
  <2> QED BY <2>1, <1>2
<1>5. wstatus[c] # "ok"
  BY <1>3 DEF TreeInv, Beneath, Forked
<1>6. \A q \in Procs : DataOk(q)
  BY DEF DataInv
<1> SUFFICES ASSUME NEW q \in Procs PROVE DataOk(q)'
  BY DEF DataInv
<1>7. CASE q = c
  <2>1. Untouched(q)' /\ pc'[q] = "sort" /\ wstatus'[q] # "ok"
    BY <1>7, <1>1, <1>3, <1>4, <1>5
  <2> QED BY <2>1 DEF DataOk
<1>8. CASE q = p
  <2>1. pc'[q] = "fork right" => Untouched(Right(q))'
    BY <1>8, <1>3, <1>4
  <2>2. pc'[q] \in {"fork right", "wait left"} /\ wstatus'[Left(q)] = "ok" => Done(Left(q))'
    BY <1>8, <1>1, <1>3, <1>4, <1>5, <1>6 DEF DataOk
  <2>3. pc'[q] = "wait left" => wstatus'[Right(q)] # "ok"
    BY <1>8, <1>1, <1>3, <1>5
  <2>4. wstatus[q] = "ok" => (q = Root => Done(q))
    BY <1>6 DEF DataOk
  <2> QED BY <2>1, <2>2, <2>3, <2>4, <1>8, <1>1, <1>3, <1>4, HalvesPrimed DEF DataOk
<1>9. CASE q # p /\ q # c
  <2>1. pc'[q] = pc[q] /\ wstatus' = wstatus
    BY <1>9, <1>1, <1>3
  <2>2. CopyOk(q) => CopyOk(q)'
    BY <1>1, CopyKept
  <2> QED BY <2>1, <2>2, <1>1, <1>4, <1>6, HalvesPrimed DEF DataOk
<1> QED BY <1>7, <1>8, <1>9

\* p writes one of its elements (parsort.c:113-115).
LEMMA DataCopyBack ==
  ASSUME TypeOK, Domains, TreeInv, DataInv, NEW p \in Procs, CopyBack(p)
  PROVE  DataInv'
<1> DEFINE e == i[p]
<1>1. /\ pc[p] = "copy" /\ e < p[2] /\ e \in p[1]..p[2]
      /\ arr' = [arr EXCEPT ![e] = temparr[p][e]]
      /\ i' = [i EXCEPT ![p] = @ + 1]
      /\ input' = input /\ length' = length /\ pc' = pc /\ wstatus' = wstatus
      /\ temparr' = temparr
      /\ p[1] \in Nat /\ p[2] \in Nat
  BY Middle DEF CopyBack, files, TypeOK
<1>2. e \in Span(p) /\ e \in 0..length - 1
  <2>1. e \in Span(p)
    BY <1>1, SpanMembers
  <2>2. Forked(p)
    BY <1>1 DEF Forked
  <2> QED BY <2>1, <2>2, SpanInFile
<1>3. /\ arr'[e] = temparr[p][e]
      /\ \A k \in 0..length - 1 : k # e => arr'[k] = arr[k]
      /\ \A k : k # e => arr'[k] = arr[k]
  BY <1>1, <1>2 DEF TypeOK
<1>4. \A q \in Procs : Left(q) \in Procs /\ Right(q) \in Procs
  BY Middle
<1>5. ASSUME NEW h \in Procs, Span(p) \cap Span(h) = {}
      PROVE  (Done(h) => Done(h)') /\ (Untouched(h) => Untouched(h)')
  <2>1. \A k \in Span(h) : arr'[k] = arr[k]
    BY <1>5, <1>2, <1>3
  <2> QED BY <2>1, <1>1, DoneKept
<1>6. \A q \in Procs : DataOk(q)
  BY DEF DataInv
<1> HIDE DEF e
<1> SUFFICES ASSUME NEW q \in Procs PROVE DataOk(q)'
  BY DEF DataInv
<1>7. CASE q = p
  <2>1. CopyOk(p) /\ i'[p] = e + 1
    BY <1>1, <1>6 DEF DataOk, Domains, e
  <2>2. \A k \in p[1]..i'[p] - 1 : arr'[k] = temparr'[p][k]
    <3>1. SUFFICES ASSUME NEW k \in p[1]..e PROVE arr'[k] = temparr[p][k]
      BY <2>1, <1>1
    <3>2. CASE k = e
      BY <3>2, <1>3
    <3>3. CASE k # e
      <4>1. k \in p[1]..i[p] - 1
        BY <3>3, <1>1 DEF e
      <4> QED BY <4>1, <3>3, <2>1, <1>3 DEF CopyOk
    <3> QED BY <3>2, <3>3
  <2>3. SameElements(temparr[p], input, Span(p))'
    BY <2>1, <1>1, HalvesPrimed DEF CopyOk, SameElements, Count
  <2>4. SortedOver(temparr[p], Span(p))'
    BY <2>1, <1>1, HalvesPrimed DEF CopyOk, SortedOver
  <2>5. CopyOk(p)'
    BY <2>2, <2>3, <2>4 DEF CopyOk
  <2>6. pc'[p] = "copy" /\ wstatus'[p] # "ok"
    BY <1>1 DEF TreeInv, Beneath
  <2> QED BY <2>5, <2>6, <1>7 DEF DataOk
<1>8. CASE q # p
  <2>1. /\ pc[q] \in {"main", "sort", "merge", "copy", "unmap"} => Span(p) \cap Span(q) = {}
        /\ pc[q] = "fork right" => Span(p) \cap Span(Right(q)) = {}
        /\ pc[q] \in {"fork right", "wait left", "wait right"} /\ wstatus[Left(q)] = "ok" =>
             Span(p) \cap Span(Left(q)) = {}
        /\ pc[q] \in {"fork right", "wait left", "wait right"} /\ wstatus[Right(q)] = "ok" =>
             Span(p) \cap Span(Right(q)) = {}
        /\ pc[q] = "wait right" => Span(p) \cap Span(Left(q)) = {}
        /\ q = Root => wstatus[q] # "ok"
    BY <1>8, <1>1, CopierElsewhere
  <2>2. pc'[q] \in {"main", "sort"} => Untouched(q)'
    BY <2>1, <1>1, <1>5, <1>6 DEF DataOk
  <2>3. pc'[q] = "fork right" => Untouched(Right(q))'
    BY <2>1, <1>1, <1>4, <1>5, <1>6 DEF DataOk
  <2>4. pc'[q] \in {"fork right", "wait left"} /\ wstatus'[Left(q)] = "ok" => Done(Left(q))'
    BY <2>1, <1>1, <1>4, <1>5, <1>6 DEF DataOk
  <2>5. pc'[q] \in {"wait left", "wait right"} /\ wstatus'[Right(q)] = "ok" => Done(Right(q))'
    BY <2>1, <1>1, <1>4, <1>5, <1>6 DEF DataOk
  <2>6. pc'[q] = "wait right" => Done(Left(q))'
    BY <2>1, <1>1, <1>4, <1>5, <1>6 DEF DataOk
  <2>7. pc'[q] = "merge" => Done(Left(q))' /\ Done(Right(q))'
    <3>1. ASSUME pc'[q] = "merge" PROVE Done(Left(q))' /\ Done(Right(q))'
      <4>1. Done(Left(q)) /\ Done(Right(q)) /\ Span(p) \cap Span(q) = {}
        BY <3>1, <2>1, <1>1, <1>6 DEF DataOk
      <4>2. Span(p) \cap Span(Left(q)) = {} /\ Span(p) \cap Span(Right(q)) = {}
        BY <4>1, SpanFacts
      <4> QED BY <4>1, <4>2, <1>4, <1>5
    <3> QED BY <3>1
  <2>8. pc'[q] = "copy" => CopyOk(q)'
    <3>1. ASSUME pc'[q] = "copy" PROVE CopyOk(q)'
      <4>1. CopyOk(q) /\ Span(p) \cap Span(q) = {} /\ i'[q] = i[q] /\ temparr'[q] = temparr[q]
            /\ i[q] \in q[1]..q[2] /\ q[1] \in Nat /\ q[2] \in Nat
        BY <3>1, <2>1, <1>1, <1>6, <1>8, Middle DEF DataOk, Domains, TypeOK
      <4>2. \A k \in q[1]..i[q] - 1 : arr'[k] = arr[k]
        <5>1. \A k \in q[1]..i[q] - 1 : k \in Span(q)
          BY <4>1, SpanMembers
        <5> QED BY <5>1, <4>1, <1>2, <1>3
      <4> QED BY <4>1, <4>2, <1>1, CopyKept
    <3> QED BY <3>1
  <2>9. q = Root /\ (pc'[q] = "unmap" \/ wstatus'[q] = "ok") => Done(q)'
    BY <2>1, <1>1, <1>5, <1>6 DEF DataOk
  <2> QED BY <2>2, <2>3, <2>4, <2>5, <2>6, <2>7, <2>8, <2>9, <1>1, HalvesPrimed DEF DataOk
<1> QED BY <1>7, <1>8

\* A process that has copied everything is done (parsort.c:61-62).
LEMMA CopiedIsDone ==
  ASSUME TypeOK, NEW p \in Procs, CopyOk(p), i[p] = p[2]
  PROVE  Done(p)
<1>1. \A k \in Span(p) : arr[k] = temparr[p][k]
  BY DEF CopyOk, Span
<1>2. SortedOver(arr, Span(p))
  BY <1>1 DEF CopyOk, SortedOver
<1>3. SameElements(arr, input, Span(p))
  BY <1>1, SameWhenEqual, SameTransitive DEF CopyOk
<1> QED BY <1>2, <1>3 DEF Done

\* The data invariant is inductive.
LEMMA DataNext ==
  ASSUME TypeOK, Domains, TreeInv, DataInv, [Next]_vars
  PROVE  DataInv'
<1>0. Root \in Procs /\ \A q \in Procs : Left(q) \in Procs /\ Right(q) \in Procs
  BY RootType, Middle
<1>u. \A q \in Procs : DataOk(q)
  BY DEF DataInv
<1>w. \A q \in Procs : pc[q] # "gone" => wstatus[q] # "ok"
  BY DEF TreeInv, Beneath
\* p ends; it succeeds only when it is done
<1>e. ASSUME NEW p \in Procs, NEW how, Exit(p, how), how = "ok" => Done(p),
             UNCHANGED <<files, arr, temparr, i>>
      PROVE  DataInv'
  <2>1. /\ pc'[p] = "gone" /\ \A q \in Procs : q # p => pc'[q] = pc[q]
        /\ wstatus'[p] = how /\ \A q \in Procs : q # p => wstatus'[q] = wstatus[q]
    BY <1>e DEF Exit, Goto, TypeOK
  <2> QED BY <2>1, <1>e, DataStep
\* p goes on, and nobody ends
<1>g. ASSUME NEW p \in Procs, Alive(p), NEW label, Goto(p, label),
             label \notin {"main", "fork right", "wait left", "copy"},
             UNCHANGED <<files, arr, wstatus, temparr, i>>,
             label = "unmap" => Done(p),
             label = "sort" => Untouched(p),
             label = "wait right" =>
               Done(Left(p)) /\ (wstatus[Right(p)] = "ok" => Done(Right(p))),
             label = "merge" => Done(Left(p)) /\ Done(Right(p))
      PROVE  DataInv'
  <2>1. /\ pc'[p] = label /\ \A q \in Procs : q # p => pc'[q] = pc[q]
        /\ wstatus' = wstatus /\ temparr' = temparr /\ i' = i /\ arr' = arr
        /\ wstatus[p] # "ok"
    BY <1>g, <1>w DEF Goto, TypeOK, Alive
  <2> QED BY <2>1, <1>g, DataStep
\* p has what it will copy
<1>c. ASSUME NEW p \in Procs, Alive(p), Goto(p, "copy"), NEW s,
             temparr' = [temparr EXCEPT ![p] = s], i' = [i EXCEPT ![p] = p[1]],
             SortedOver(s, Span(p)), SameElements(s, input, Span(p)),
             UNCHANGED <<files, arr, wstatus, reaped>>
      PROVE  DataInv'
  <2>1. /\ pc'[p] = "copy" /\ \A q \in Procs : q # p => pc'[q] = pc[q]
        /\ wstatus' = wstatus /\ arr' = arr /\ wstatus[p] # "ok"
        /\ temparr'[p] = s /\ i'[p] = p[1] /\ input' = input
        /\ \A q \in Procs : q # p => temparr'[q] = temparr[q] /\ i'[q] = i[q]
    BY <1>c, <1>w DEF Goto, TypeOK, Alive, Domains, files
  <2>2. SameElements(temparr[p], input, Span(p))'
    BY <2>1, <1>c, HalvesPrimed DEF SameElements, Count
  <2>3. SortedOver(temparr[p], Span(p))'
    BY <2>1, <1>c, HalvesPrimed DEF SortedOver
  <2>4. \A k \in p[1]..i'[p] - 1 : arr'[k] = temparr'[p][k]
    BY <2>1, Middle
  <2>5. CopyOk(p)'
    BY <2>2, <2>3, <2>4 DEF CopyOk
  <2> QED BY <2>1, <2>5, <1>c, DataStep
<1>1. CASE Main
  <2>1. CASE MapFile
    <3>1. Alive(Root) /\ Untouched(Root)
      BY <2>1, <1>0, <1>u DEF MapFile, Alive, DataOk
    <3> QED BY <3>1, <2>1, <1>0, <1>g DEF MapFile
  <2>2. CASE MapFails
    BY <2>2, <1>0, <1>e DEF MapFails
  <2>3. CASE Unmap
    <3>1. Done(Root)
      BY <2>3, <1>0, <1>u DEF Unmap, DataOk
    <3> QED BY <3>1, <2>3, <1>0, <1>e DEF Unmap
  <2> QED BY <2>1, <2>2, <2>3, <1>1 DEF Main
<1>2. ASSUME NEW p \in Procs, Step(p) \/ Kill(p)
      PROVE  DataInv'
  <2>0. DataOk(p)
    BY <1>u
  <2>1. CASE SortSequentially(p)
    <3>1. PICK s \in [Span(p) -> Values] :
            /\ SortedOver(s, Span(p)) /\ SameElements(s, arr, Span(p))
            /\ temparr' = [temparr EXCEPT ![p] = s]
      BY <2>1 DEF SortSequentially
    <3>2. Untouched(p) /\ Alive(p)
      BY <2>1, <2>0 DEF SortSequentially, DataOk, Alive
    <3>3. SameElements(arr, input, Span(p))
      BY <3>2, SameWhenEqual DEF Untouched
    <3>4. SameElements(s, input, Span(p))
      BY <3>1, <3>3, SameTransitive
    <3> QED BY <3>1, <3>2, <3>4, <2>1, <1>c DEF SortSequentially
  <2>2. CASE ForkLeft(p)
    <3>1. Untouched(p) /\ pc[p] = "sort" /\ ~(Size(p) <= threshold)
      BY <2>2, <2>0 DEF ForkLeft, IsSequential, DataOk
    <3>2. Size(p) >= 2
      <4>1. threshold \in Nat /\ threshold # 0 /\ Size(p) \in Nat
        BY ParsortAssumption, Middle DEF TypeOK
      <4> QED BY <4>1, <3>1
    <3>3. Left(p) # p /\ Within(Left(p), p)
      BY <3>2, Split, Geometry
    <3>4. ~Forked(Left(p))
      BY <3>1, <3>3, <1>0 DEF TreeInv, Beneath
    <3>5. Untouched(Left(p)) /\ Untouched(Right(p))
      BY <3>1, SpanFacts DEF Untouched
    <3>6. pc' = [pc EXCEPT ![p] = "fork right", ![Left(p)] = "sort"]
      BY <2>2 DEF ForkLeft
    <3> QED BY <3>3, <3>4, <3>5, <3>6, <2>2, DataFork DEF ForkLeft
  <2>3. CASE ForkLeftFails(p)
    BY <2>3, <1>e DEF ForkLeftFails
  <2>4. CASE ForkRight(p)
    <3>1. Untouched(Right(p)) /\ pc[p] = "fork right"
      BY <2>4, <2>0 DEF ForkRight, DataOk
    <3>2. Size(p) >= 2
      BY <3>1 DEF TreeInv, RangesOk
    <3>3. Right(p) # p
      BY <3>2, Split
    <3>4. ~Forked(Right(p))
      BY <3>1, <1>0, Geometry DEF TreeInv, Beneath
    <3>5. pc' = [pc EXCEPT ![p] = "wait left", ![Right(p)] = "sort"]
      BY <2>4 DEF ForkRight
    <3> QED BY <3>1, <3>3, <3>4, <3>5, <2>4, DataFork DEF ForkRight
  <2>5. CASE ForkRightFails(p)
    <3>1. Alive(p) /\ Goto(p, "pick up left")
      BY <2>5 DEF ForkRightFails, Alive
    <3> QED BY <3>1, <2>5, <1>g DEF ForkRightFails
  <2>6. CASE PickUpLeft(p)
    BY <2>6, <1>e DEF PickUpLeft
  <2>7. CASE WaitLeft(p)
    <3>1. CASE ExitedNormally(Left(p))
      <4>1. /\ Done(Left(p)) /\ (wstatus[Right(p)] = "ok" => Done(Right(p)))
            /\ Alive(p) /\ Goto(p, "wait right")
        BY <3>1, <2>7, <2>0 DEF WaitLeft, ExitedNormally, DataOk, Alive
      <4> QED BY <4>1, <3>1, <2>7, <1>g DEF WaitLeft
    <3>2. CASE ~ExitedNormally(Left(p))
      BY <3>2, <2>7, <1>e DEF WaitLeft
    <3> QED BY <3>1, <3>2
  <2>8. CASE WaitRight(p)
    <3>1. CASE ExitedNormally(Right(p))
      <4>1. Done(Left(p)) /\ Done(Right(p)) /\ Alive(p) /\ Goto(p, "merge")
        BY <3>1, <2>8, <2>0 DEF WaitRight, ExitedNormally, DataOk, Alive
      <4> QED BY <4>1, <3>1, <2>8, <1>g DEF WaitRight
    <3>2. CASE ~ExitedNormally(Right(p))
      BY <3>2, <2>8, <1>e DEF WaitRight
    <3> QED BY <3>1, <3>2
  <2>9. CASE Merge(p)
    <3>1. Done(Left(p)) /\ Done(Right(p)) /\ Alive(p) /\ Forked(p)
      BY <2>9, <2>0 DEF Merge, DataOk, Alive, Forked
    <3>2. SortedOver(merge(p), Span(p)) /\ SameElements(merge(p), input, Span(p))
      BY <3>1, MergeDone
    <3> QED BY <3>1, <3>2, <2>9, <1>c DEF Merge
  <2>10. CASE CopyBack(p)
    BY <2>10, DataCopyBack
  <2>11. CASE Return(p)
    <3>1. Done(p) /\ Alive(p)
      BY <2>11, <2>0, CopiedIsDone DEF Return, DataOk, Alive
    <3>2. CASE p = Root
      BY <3>1, <3>2, <2>11, <1>g DEF Return
    <3>3. CASE p # Root
      BY <3>1, <3>3, <2>11, <1>e DEF Return
    <3> QED BY <3>2, <3>3
  <2>12. CASE Kill(p)
    BY <2>12, <1>e DEF Kill
  <2> QED BY <2>1, <2>2, <2>3, <2>4, <2>5, <2>6, <2>7, <2>8, <2>9, <2>10, <2>11, <2>12, <1>2 DEF Step
<1>3. CASE UNCHANGED vars
  <2>1. /\ arr' = arr /\ input' = input /\ length' = length /\ pc' = pc /\ wstatus' = wstatus
        /\ temparr' = temparr /\ i' = i
    BY <1>3 DEF vars, files
  <2>2. \A q \in Procs : (Done(q) => Done(q)') /\ (Untouched(q) => Untouched(q)')
    BY <2>1, DoneKept
  <2>3. \A q \in Procs : /\ Done(Left(q)) => Done(Left(q))'
                         /\ Done(Right(q)) => Done(Right(q))'
                         /\ Untouched(Right(q)) => Untouched(Right(q))'
    BY <2>2, <1>0
  <2>4. \A q \in Procs : CopyOk(q) => CopyOk(q)'
    BY <2>1, CopyKept
  <2> QED BY <2>1, <2>2, <2>3, <2>4, <1>u, HalvesPrimed DEF DataInv, DataOk
<1> QED BY <1>1, <1>2, <1>3 DEF Next

-----------------------------------------------------------------------------

\* The inductive invariant: the types, the tree of processes, and what each has
\* done to its range.
THEOREM ParsortAlways == Spec => []ParsortInv
<1>1. Init => ParsortInv
  BY TypeInit, TreeInit, DataInit DEF ParsortInv
<1>2. ParsortInv /\ [Next]_vars => ParsortInv'
  BY TypeNext, TreeNext, DataNext DEF ParsortInv
<1> QED BY <1>1, <1>2, PTL DEF Spec

\* The variables keep their types for every file and every threshold that is
\* not 0: no process writes outside the mapping, and merge fills its array.
THEOREM ParsortTypes == Spec => []TypeOK
<1>1. ParsortInv => TypeOK
  BY DEF ParsortInv
<1> QED BY <1>1, ParsortAlways, PTL

\* A process that merges or copies (parsort.c:110-117) has its elements to itself:
\* whoever else is alive on them is waiting above it. No failed fork and no killed
\* parent leaves a process running beneath one that has gone on.
THEOREM NoSharedElementsAlways == Spec => []NoSharedElements
<1>1. ParsortInv => NoSharedElements
  BY NoSharing DEF ParsortInv
<1> QED BY <1>1, ParsortAlways, PTL

\* Exit status 0 means a sorted file with the elements it had, and every forked
\* process waited for, whatever forks failed and whoever was killed, for files of
\* any length and any threshold but 0.
THEOREM SuccessMeansSortedAlways == Spec => []SuccessMeansSorted
<1>1. ParsortInv => SuccessMeansSorted
  <2> SUFFICES ASSUME ParsortInv, wstatus[Root] = "ok" PROVE
        /\ is_sorted(arr, length) /\ SameElements(arr, input, 0..length - 1)
        /\ \A p \in Procs \ {Root} : pc[p] = "none" \/ p \in reaped
    BY DEF SuccessMeansSorted
  <2>0. TypeOK /\ TreeInv /\ DataInv /\ Root \in Procs /\ length \in Nat
    BY RootType DEF ParsortInv
  <2>1. Done(Root)
    BY <2>0 DEF DataInv, DataOk
  <2>2. Span(Root) = 0..length - 1
    BY DEF Span, Root
  <2>3. SameElements(arr, input, 0..length - 1)
    BY <2>1, <2>2 DEF Done
  <2>4. is_sorted(arr, length)
    <3>1. SUFFICES ASSUME NEW k \in 1..length - 1 PROVE ~(arr[k] < arr[k - 1])
      BY DEF is_sorted
    <3>2. k \in 0..length - 1 /\ k - 1 \in 0..length - 1 /\ k - 1 < k
      BY <2>0
    <3>3. arr[k - 1] <= arr[k]
      BY <3>2, <2>1, <2>2 DEF Done, SortedOver
    <3>4. arr[k] \in Int /\ arr[k - 1] \in Int
      BY <3>2, <2>0, ParsortAssumption DEF TypeOK
    <3> QED BY <3>3, <3>4
  <2>5. \A p \in Procs \ {Root} : pc[p] = "none" \/ p \in reaped
    <3>1. SUFFICES ASSUME NEW p \in Procs, p # Root, Forked(p) PROVE p \in reaped
      BY DEF Forked
    <3>2. NobodyBelow(Root) /\ Within(p, Root)
      BY <3>1, <2>0 DEF TreeInv, Beneath, RangesOk
    <3> QED BY <3>1, <3>2 DEF NobodyBelow, Ended
  <2> QED BY <2>3, <2>4, <2>5
<1> QED BY <1>1, ParsortAlways, PTL

-----------------------------------------------------------------------------
(* Who is waited for *)

\* p has forked its left child, or its right one, and not waited for it yet.
AwaitsLeft(p) == pc[p] \in {"fork right", "pick up left", "wait left"}
AwaitsRight(p) == pc[p] \in {"wait left", "wait right"}

\* A process waits for a child it has forked, which nobody has waited for yet, and
\* whose range is smaller than its own.
WaitsForChildren ==
  \A p \in Procs :
    /\ AwaitsLeft(p) => Forked(Left(p)) /\ Left(p) \notin reaped /\ Size(Left(p)) < Size(p)
    /\ AwaitsRight(p) => Forked(Right(p)) /\ Right(p) \notin reaped /\ Size(Right(p)) < Size(p)

\* Only who has ended is waited for, and only ranges of two elements are split.
WaitInv ==
  /\ \A p \in Procs : AwaitsLeft(p) => Forked(Left(p)) /\ Left(p) \notin reaped
  /\ \A p \in Procs : AwaitsRight(p) => Forked(Right(p)) /\ Right(p) \notin reaped
  /\ \A p \in Procs : AwaitsLeft(p) \/ AwaitsRight(p) => Size(p) >= 2
  /\ \A p \in reaped : pc[p] = "gone"

\* No process is the child of two, although a range may be half of many.
LEMMA NoSharedChild ==
  ASSUME TypeOK, TreeInv, NEW p \in Procs, NEW q \in Procs, p # q,
         Forked(p), Forked(q), Size(p) >= 2, Size(q) >= 2
  PROVE  {Left(p), Right(p)} \cap {Left(q), Right(q)} = {}
<1>1. ASSUME NEW x \in Procs, NEW y \in Procs, Size(x) >= 2, Size(y) >= 2,
             Apart(x, y) \/ Below(x, y)
      PROVE  {Left(x), Right(x)} \cap {Left(y), Right(y)} = {}
  <2>1. /\ x[1] \in Nat /\ x[2] \in Nat /\ mid(x) \in Nat /\ x[1] < mid(x) /\ mid(x) < x[2]
        /\ y[1] \in Nat /\ y[2] \in Nat /\ mid(y) \in Nat /\ y[1] < mid(y) /\ mid(y) < y[2]
    BY <1>1, Middle DEF Size
  <2>2. \/ x[2] <= y[1] \/ y[2] <= x[1]
        \/ y[1] <= x[1] /\ x[2] <= mid(y)
        \/ mid(y) <= x[1] /\ x[2] <= y[2]
    BY <1>1 DEF Apart, Below, Within, Left, Right
  <2>3. /\ ~(x[1] = y[1] /\ mid(x) = mid(y))
        /\ ~(x[1] = mid(y) /\ mid(x) = y[2])
        /\ ~(mid(x) = y[1] /\ x[2] = mid(y))
        /\ ~(mid(x) = mid(y) /\ x[2] = y[2])
    BY <2>1, <2>2
  <2>4. /\ Left(x) # Left(y) /\ Left(x) # Right(y)
        /\ Right(x) # Left(y) /\ Right(x) # Right(y)
    BY <2>3 DEF Left, Right
  <2> QED BY <2>4
<1>2. Apart(p, q) \/ Below(p, q) \/ Below(q, p)
  BY DEF TreeInv, Nested
<1> QED BY <1>1, <1>2

\* A step that forks and waits for nobody keeps the invariant.
LEMMA MoveKeepsWaits ==
  ASSUME TypeOK, WaitInv, NEW p \in Procs, Alive(p),
         NEW label \in Labels \ {"none", "fork right"},
         pc' = [pc EXCEPT ![p] = label], reaped' = reaped,
         label \in {"pick up left", "wait left"} => AwaitsLeft(p),
         label \in {"wait left", "wait right"} => AwaitsRight(p)
  PROVE  WaitInv'
<1>1. /\ pc'[p] = label /\ pc[p] # "gone" /\ pc[p] # "none"
      /\ \A q \in Procs : q # p => pc'[q] = pc[q]
      /\ reaped \subseteq Procs
  BY DEF TypeOK, Alive
<1>2. \A q \in Procs : /\ Left(q) \in Procs /\ Right(q) \in Procs
                       /\ Forked(q) => Forked(q)'
                       /\ AwaitsLeft(q)' => AwaitsLeft(q)
                       /\ AwaitsRight(q)' => AwaitsRight(q)
  BY <1>1, Middle DEF Forked, AwaitsLeft, AwaitsRight
<1>3. \A q \in reaped' : pc'[q] = "gone"
  BY <1>1 DEF WaitInv
<1>4. \A q \in Procs : AwaitsLeft(q)' => Forked(Left(q))' /\ Left(q) \notin reaped'
  <2>1. SUFFICES ASSUME NEW q \in Procs, AwaitsLeft(q)'
                 PROVE  Forked(Left(q))' /\ Left(q) \notin reaped'
    OBVIOUS
  <2>2. Forked(Left(q)) /\ Left(q) \notin reaped
    BY <2>1, <1>2 DEF WaitInv
  <2>3. pc[Left(q)] # "none" => pc'[Left(q)] # "none"
    BY <1>1, <1>2
  <2> QED BY <2>2, <2>3 DEF Forked, Left, mid
<1>5. \A q \in Procs : AwaitsRight(q)' => Forked(Right(q))' /\ Right(q) \notin reaped'
  <2>1. SUFFICES ASSUME NEW q \in Procs, AwaitsRight(q)'
                 PROVE  Forked(Right(q))' /\ Right(q) \notin reaped'
    OBVIOUS
  <2>2. Forked(Right(q)) /\ Right(q) \notin reaped
    BY <2>1, <1>2 DEF WaitInv
  <2>3. pc[Right(q)] # "none" => pc'[Right(q)] # "none"
    BY <1>1, <1>2
  <2> QED BY <2>2, <2>3 DEF Forked, Right, mid
<1>6. \A q \in Procs : AwaitsLeft(q)' \/ AwaitsRight(q)' => Size(q) >= 2
  BY <1>2 DEF WaitInv
<1> QED BY <1>3, <1>4, <1>5, <1>6 DEF WaitInv, Left, Right, mid, Size

\* A child that is waited for has ended, and is nobody else's.
LEMMA ReapKeepsWaits ==
  ASSUME TypeOK, TreeInv, WaitInv, NEW p \in Procs, NEW c \in {Left(p), Right(p)},
         \/ c = Left(p) /\ AwaitsLeft(p)
         \/ c = Right(p) /\ AwaitsRight(p),
         waitpid(c),
         NEW label \in {"gone", "merge", "wait right"},
         pc' = [pc EXCEPT ![p] = label],
         label = "wait right" => pc[p] = "wait left" /\ c = Left(p)
  PROVE  WaitInv'
<1>1. /\ pc'[p] = label /\ pc[p] # "gone" /\ pc[p] # "none" /\ Size(p) >= 2
      /\ \A q \in Procs : q # p => pc'[q] = pc[q]
      /\ reaped \subseteq Procs /\ c \in Procs /\ pc[c] = "gone" /\ reaped' = reaped \cup {c}
  <2>1. IsChild(c)
    BY DEF WaitInv, Forked, IsChild
  <2>2. pc[c] = "gone" /\ reaped' = reaped \cup {c}
    BY <2>1 DEF waitpid
  <2> QED BY <2>2, Middle DEF TypeOK, AwaitsLeft, AwaitsRight, WaitInv
<1>2. \A q \in Procs : /\ Left(q) \in Procs /\ Right(q) \in Procs
                       /\ pc[q] # "none" => pc'[q] # "none"
                       /\ q # p => (AwaitsLeft(q)' <=> AwaitsLeft(q))
                       /\ q # p => (AwaitsRight(q)' <=> AwaitsRight(q))
  BY <1>1, Middle DEF AwaitsLeft, AwaitsRight
<1>3. \A q \in reaped' : pc'[q] = "gone"
  BY <1>1 DEF WaitInv
<1>4. ASSUME NEW q \in Procs, q # p, AwaitsLeft(q) \/ AwaitsRight(q)
      PROVE  c # Left(q) /\ c # Right(q)
  <2>1. Forked(p) /\ Forked(q) /\ Size(q) >= 2
    BY <1>1, <1>4 DEF Forked, AwaitsLeft, AwaitsRight, WaitInv
  <2> QED BY <2>1, <1>1, <1>4, NoSharedChild
<1>5. ~AwaitsLeft(p)' /\ (AwaitsRight(p)' => AwaitsRight(p) /\ c # Right(p))
  <2>1. Left(p) # Right(p)
    BY <1>1, Split
  <2> QED BY <2>1, <1>1 DEF AwaitsLeft, AwaitsRight
<1>6. ASSUME NEW q \in Procs, AwaitsLeft(q)'
      PROVE  Forked(Left(q))' /\ Left(q) \notin reaped' /\ Size(q) >= 2
  <2>1. q # p /\ AwaitsLeft(q)
    BY <1>2, <1>5, <1>6
  <2>2. Forked(Left(q)) /\ Left(q) \notin reaped /\ Size(q) >= 2
    BY <2>1 DEF WaitInv
  <2>3. Left(q) \notin reaped'
    BY <2>1, <2>2, <1>1, <1>4
  <2>4. pc'[Left(q)] # "none"
    BY <2>2, <1>2 DEF Forked
  <2> QED BY <2>2, <2>3, <2>4 DEF Forked, Left, mid
<1>7. ASSUME NEW q \in Procs, AwaitsRight(q)'
      PROVE  Forked(Right(q))' /\ Right(q) \notin reaped' /\ Size(q) >= 2
  <2>1. AwaitsRight(q) /\ c # Right(q)
    BY <1>2, <1>4, <1>5, <1>7
  <2>2. Forked(Right(q)) /\ Right(q) \notin reaped /\ Size(q) >= 2
    BY <2>1 DEF WaitInv
  <2>3. Right(q) \notin reaped'
    BY <2>1, <2>2, <1>1
  <2>4. pc'[Right(q)] # "none"
    BY <2>2, <1>2 DEF Forked
  <2> QED BY <2>2, <2>3, <2>4 DEF Forked, Right, mid
<1> QED BY <1>3, <1>6, <1>7 DEF WaitInv, Left, Right, mid, Size

\* A child that is forked is new, so nobody has waited for it.
LEMMA ForkKeepsWaits ==
  ASSUME TypeOK, WaitInv, NEW p \in Procs, NEW c \in Procs, c # p, pc[c] = "none",
         Size(p) >= 2, pc[p] # "gone",
         NEW label \in {"fork right", "wait left"},
         pc' = [pc EXCEPT ![p] = label, ![c] = "sort"], reaped' = reaped,
         label = "fork right" => c = Left(p),
         label = "wait left" => c = Right(p) /\ AwaitsLeft(p)
  PROVE  WaitInv'
<1>1. /\ pc'[p] = label /\ pc'[c] = "sort"
      /\ \A q \in Procs : q # p /\ q # c => pc'[q] = pc[q]
      /\ reaped \subseteq Procs /\ c \notin reaped /\ p \notin reaped
  BY DEF TypeOK, WaitInv
<1>2. \A q \in Procs : /\ Left(q) \in Procs /\ Right(q) \in Procs
                       /\ pc[q] # "none" => pc'[q] # "none"
                       /\ q # p => (AwaitsLeft(q)' => AwaitsLeft(q))
                       /\ q # p => (AwaitsRight(q)' => AwaitsRight(q))
  BY <1>1, Middle DEF AwaitsLeft, AwaitsRight
<1>3. \A q \in reaped' : pc'[q] = "gone"
  BY <1>1 DEF WaitInv
<1>4. ASSUME NEW q \in Procs, AwaitsLeft(q)'
      PROVE  Forked(Left(q))' /\ Left(q) \notin reaped' /\ Size(q) >= 2
  <2>1. CASE AwaitsLeft(q)
    <3>1. Forked(Left(q)) /\ Left(q) \notin reaped /\ Size(q) >= 2
      BY <2>1 DEF WaitInv
    <3>2. pc'[Left(q)] # "none"
      BY <3>1, <1>2 DEF Forked
    <3> QED BY <3>1, <3>2 DEF Forked, Left, mid
  <2>2. CASE ~AwaitsLeft(q)
    <3>1. q = p /\ c = Left(q)
      BY <2>2, <1>2, <1>4
    <3>2. pc'[Left(q)] # "none"
      BY <3>1, <1>1
    <3> QED BY <3>1, <3>2, <1>1 DEF Forked, Left, mid
  <2> QED BY <2>1, <2>2
<1>5. ASSUME NEW q \in Procs, AwaitsRight(q)'
      PROVE  Forked(Right(q))' /\ Right(q) \notin reaped' /\ Size(q) >= 2
  <2>1. CASE q # p
    <3>1. Forked(Right(q)) /\ Right(q) \notin reaped /\ Size(q) >= 2
      BY <2>1, <1>2, <1>5 DEF WaitInv
    <3>2. pc'[Right(q)] # "none"
      BY <3>1, <1>2 DEF Forked
    <3> QED BY <3>1, <3>2 DEF Forked, Right, mid
  <2>2. CASE q = p
    <3>1. c = Right(q)
      BY <2>2, <1>1, <1>5 DEF AwaitsRight
    <3>2. pc'[Right(q)] # "none"
      BY <3>1, <1>1
    <3> QED BY <2>2, <3>1, <3>2, <1>1 DEF Forked, Right, mid
  <2> QED BY <2>1, <2>2
<1> QED BY <1>3, <1>4, <1>5 DEF WaitInv, Left, Right, mid, Size

\* Every step keeps the invariant: the forks bring new children, the waits take
\* one each, and nothing else touches who is awaited.
LEMMA WaitStep == ParsortInv /\ WaitInv /\ [Next]_vars => WaitInv'
<1> SUFFICES ASSUME ParsortInv, WaitInv, [Next]_vars PROVE WaitInv'
  OBVIOUS
<1>0. TypeOK /\ TreeInv /\ RangesOk /\ Beneath /\ Root \in Procs
  BY RootType DEF ParsortInv, TreeInv
<1>1. CASE UNCHANGED vars
  <2>1. pc' = pc /\ reaped' = reaped
    BY <1>1 DEF vars
  <2> QED BY <2>1 DEF WaitInv, AwaitsLeft, AwaitsRight, Forked, Left, Right, mid, Size
<1>2. ASSUME NEW p \in Procs, NEW label \in {"main", "sort", "merge", "copy", "unmap", "gone"},
             Alive(p), pc' = [pc EXCEPT ![p] = label], reaped' = reaped
      PROVE  WaitInv'
  BY <1>0, <1>2, MoveKeepsWaits DEF Labels
<1>3. CASE Main
  <2>1. /\ Alive(Root) /\ reaped' = reaped
        /\ \/ pc' = [pc EXCEPT ![Root] = "sort"]
           \/ pc' = [pc EXCEPT ![Root] = "gone"]
    BY <1>3 DEF Main, MapFile, MapFails, Unmap, Goto, Exit, Alive
  <2>2. CASE pc' = [pc EXCEPT ![Root] = "sort"]
    BY <2>1, <2>2, <1>0, <1>2
  <2>3. CASE pc' = [pc EXCEPT ![Root] = "gone"]
    BY <2>1, <2>3, <1>0, <1>2
  <2> QED BY <2>1, <2>2, <2>3
<1>4. ASSUME NEW p \in Procs, Step(p) \/ Kill(p) PROVE WaitInv'
  <2>1. CASE ForkLeft(p)
    <3>1. /\ pc[p] = "sort" /\ pc' = [pc EXCEPT ![p] = "fork right", ![Left(p)] = "sort"]
          /\ reaped' = reaped /\ ~(Size(p) <= threshold)
      BY <2>1 DEF ForkLeft, IsSequential
    <3>2. Size(p) >= 2
      <4>1. threshold \in Nat /\ threshold # 0 /\ Size(p) \in Nat
        BY <1>0, ParsortAssumption, Middle DEF TypeOK
      <4>2. ~(Size(p) <= threshold)
        BY <3>1
      <4> QED BY <4>1, <4>2
    <3>3. Left(p) \in Procs /\ Left(p) # p /\ Within(Left(p), p)
      BY <3>2, Split, Geometry
    <3>4. pc[Left(p)] = "none"
      BY <3>1, <3>3, <1>0 DEF Beneath, Forked
    <3> QED BY <3>1, <3>2, <3>3, <3>4, <1>0, ForkKeepsWaits
  <2>2. CASE ForkRight(p)
    <3>1. /\ pc[p] = "fork right" /\ pc' = [pc EXCEPT ![p] = "wait left", ![Right(p)] = "sort"]
          /\ reaped' = reaped
      BY <2>2 DEF ForkRight
    <3>2. Size(p) >= 2 /\ AwaitsLeft(p)
      BY <3>1, <1>0 DEF RangesOk, AwaitsLeft
    <3>3. Right(p) \in Procs /\ Right(p) # p /\ Within(Right(p), Right(p))
      BY <3>2, Split, Geometry
    <3>4. pc[Right(p)] = "none"
      BY <3>1, <3>3, <1>0 DEF Beneath, Forked
    <3> QED BY <3>1, <3>2, <3>3, <3>4, <1>0, ForkKeepsWaits
  <2>3. CASE ForkRightFails(p)
    <3>1. /\ pc[p] = "fork right" /\ pc' = [pc EXCEPT ![p] = "pick up left"]
          /\ reaped' = reaped
      BY <2>3 DEF ForkRightFails, Goto
    <3> QED BY <3>1, <1>0, MoveKeepsWaits DEF Alive, AwaitsLeft, Labels
  <2>4. CASE PickUpLeft(p)
    <3>1. pc[p] = "pick up left" /\ waitpid(Left(p)) /\ pc' = [pc EXCEPT ![p] = "gone"]
      BY <2>4 DEF PickUpLeft, Exit, Goto
    <3> QED BY <3>1, <1>0, ReapKeepsWaits DEF AwaitsLeft
  <2>5. CASE WaitLeft(p)
    <3>1. /\ pc[p] = "wait left" /\ waitpid(Left(p))
          /\ \/ pc' = [pc EXCEPT ![p] = "wait right"]
             \/ pc' = [pc EXCEPT ![p] = "gone"]
      BY <2>5 DEF WaitLeft, Exit, Goto
    <3> QED BY <3>1, <1>0, ReapKeepsWaits DEF AwaitsLeft
  <2>6. CASE WaitRight(p)
    <3>1. /\ pc[p] = "wait right" /\ waitpid(Right(p))
          /\ \/ pc' = [pc EXCEPT ![p] = "merge"]
             \/ pc' = [pc EXCEPT ![p] = "gone"]
      BY <2>6 DEF WaitRight, Exit, Goto
    <3> QED BY <3>1, <1>0, ReapKeepsWaits DEF AwaitsRight
  <2>7. CASE SortSequentially(p) \/ ForkLeftFails(p) \/ Merge(p) \/ Return(p) \/ Kill(p)
    <3>1. /\ Alive(p) /\ reaped' = reaped
          /\ \/ pc' = [pc EXCEPT ![p] = "copy"]
             \/ pc' = [pc EXCEPT ![p] = "unmap"]
             \/ pc' = [pc EXCEPT ![p] = "gone"]
      BY <2>7 DEF SortSequentially, ForkLeftFails, Merge, Return, Kill, Goto, Exit, Alive
    <3> QED BY <3>1, <1>2
  <2>8. CASE CopyBack(p)
    <3>1. pc' = pc /\ reaped' = reaped
      BY <2>8 DEF CopyBack
    <3> QED BY <3>1 DEF WaitInv, AwaitsLeft, AwaitsRight, Forked, Left, Right, mid, Size
  <2> QED BY <1>4, <2>1, <2>2, <2>3, <2>4, <2>5, <2>6, <2>7, <2>8 DEF Step
<1> QED BY <1>1, <1>3, <1>4 DEF Next

\* The branches for a waitpid that fails (parsort.c:79-82, 95-98) are never taken: it is
\* called for a child of the caller's own that is there, running or ended, and has a
\* smaller range, whatever forks fail and whoever is killed.
THEOREM WaitsForChildrenAlways == Spec => []WaitsForChildren
<1>1. Init => WaitInv
  BY DEF Init, WaitInv, AwaitsLeft, AwaitsRight
<1>2. WaitInv => WaitsForChildren
  <2> SUFFICES ASSUME WaitInv PROVE WaitsForChildren
    OBVIOUS
  <2>1. ASSUME NEW p \in Procs, Size(p) >= 2
        PROVE  Size(Left(p)) < Size(p) /\ Size(Right(p)) < Size(p)
    <3>1. /\ p[1] \in Nat /\ p[2] \in Nat /\ mid(p) \in Nat
          /\ p[1] < mid(p) /\ p[1] < p[2] /\ mid(p) < p[2]
      BY <2>1, Middle DEF Size
    <3>2. Size(Left(p)) = mid(p) - p[1] /\ Size(Right(p)) = p[2] - mid(p)
      BY DEF Size, Left, Right
    <3> QED BY <3>1, <3>2 DEF Size
  <2> QED BY <2>1 DEF WaitInv, WaitsForChildren
<1> QED BY <1>1, <1>2, WaitStep, ParsortAlways, PTL DEF Spec

=============================================================================
