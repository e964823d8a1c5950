-------------------------- MODULE HotPartitionProofs --------------------------
(***************************************************************************)
(* Offsets of a hot partition, for every segment size, retention policy    *)
(* and number of restarts.                                                 *)
(*                                                                         *)
(* Only the active segment and the history matter: trimming, retention and *)
(* compaction rebuild the part of the chain in front of it.                *)
(***************************************************************************)
EXTENDS HotPartition, FiniteSetTheorems, SequenceTheorems, WellFoundedInduction, TLAPS

-----------------------------------------------------------------------------
\* Induction and recursion.

\* A set of natural numbers that is not empty has a least one.
LEMMA LeastNat ==
  ASSUME NEW T \in SUBSET Nat, T # {}
  PROVE  \E n \in T : \A m \in T : n <= m
<1> DEFINE R == OpToRel(<, Nat)
<1>1. IsWellFoundedOn(R, Nat)
  BY NatLessThanWellFounded
<1>2. \A x, y \in Nat : y < x => <<y, x>> \in R
  BY DEF OpToRel
<1> HIDE DEF R
<1>3. PICK x \in T : \A y \in T : ~(<<y, x>> \in R)
  BY <1>1, WFMin
<1>4. \A y \in T : ~(y < x)
  BY <1>2, <1>3
<1> QED
  BY <1>3, <1>4

\* A set that has 0, and n + 1 whenever it has n, has all numbers up to a bound.
LEMMA UpTo ==
  ASSUME NEW b \in Nat, NEW G, 0 \in G, \A n \in 0..(b - 1) : n \in G => n + 1 \in G
  PROVE  \A n \in 0..b : n \in G
<1> DEFINE T == {n \in 0..b : n \notin G}
<1> SUFFICES ASSUME T # {} PROVE FALSE
  OBVIOUS
<1>1. PICK n \in T : \A m \in T : n <= m
  <2>1. T \in SUBSET Nat
    OBVIOUS
  <2> HIDE DEF T
  <2> QED
    BY <2>1, LeastNat
<1>2. n \in 0..b /\ n \notin G /\ n # 0
  BY <1>1
<1>3. n - 1 \in 0..(b - 1) /\ n - 1 \notin T
  BY <1>1, <1>2
<1>4. n - 1 \in G
  BY <1>2, <1>3
<1>5. (n - 1) + 1 = n
  BY <1>2
<1> QED
  BY <1>2, <1>3, <1>4, <1>5

\* A bounded one has a greatest.
LEMMA GreatestNat ==
  ASSUME NEW T \in SUBSET Nat, T # {}, NEW b \in Nat, \A n \in T : n <= b
  PROVE  \E n \in T : \A m \in T : m <= n
<1> DEFINE D == {b - n : n \in T}
<1>1. D \in SUBSET Nat /\ D # {}
  <2>1. ASSUME NEW n \in T PROVE b - n \in Nat
    <3>1. n \in Nat /\ n <= b
      OBVIOUS
    <3> QED
      BY <3>1
  <2>2. PICK n \in T : TRUE
    OBVIOUS
  <2>3. b - n \in D
    OBVIOUS
  <2> QED
    BY <2>1, <2>3
<1>2. PICK d \in D : \A e \in D : d <= e
  <2> HIDE DEF D
  <2> QED
    BY <1>1, LeastNat
<1>3. PICK n \in T : d = b - n
  BY <1>2
<1>4. ASSUME NEW m \in T PROVE m <= n
  <2>1. b - m \in D
    OBVIOUS
  <2>2. b - n <= b - m
    BY <1>2, <1>3, <2>1
  <2> QED
    BY <2>2
<1> QED
  BY <1>3, <1>4

\* A value z of X, and a step E from one value of X to the next.
Recurrence(b, X, z, E) == z \in X /\ \A n \in 1..b, x \in X : E[<<n, x>>] \in X

\* The function on 0..b that starts with z and makes the steps E.
Follows(f, b, X, z, E) ==
  /\ f \in [0..b -> X]
  /\ f[0] = z
  /\ \A n \in 1..b : f[n] = E[<<n, f[n - 1]>>]

\* A function on 0..b is defined by its value at 0 and a step.
LEMMA Recursion ==
  ASSUME NEW b \in Nat, NEW X, NEW z, NEW E, Recurrence(b, X, z, E)
  PROVE  \E f : Follows(f, b, X, z, E)
<1>0. z \in X /\ \A n \in 1..b, x \in X : E[<<n, x>>] \in X
  BY DEF Recurrence
<1> DEFINE Solves(f, c) == f[0] = z /\ \A n \in 1..c : f[n] = E[<<n, f[n - 1]>>]
           G == {c \in 0..b : \E f \in [0..b -> X] : Solves(f, c)}
<1>1. 0 \in G
  <2>1. [n \in 0..b |-> z] \in [0..b -> X] /\ Solves([n \in 0..b |-> z], 0)
    BY <1>0
  <2> HIDE DEF Solves
  <2> QED
    BY <2>1
<1>2. ASSUME NEW c \in 0..(b - 1), c \in G PROVE c + 1 \in G
  <2>1. PICK f \in [0..b -> X] : Solves(f, c)
    BY <1>2
  <2> DEFINE v == E[<<c + 1, f[c]>>]
             g == [f EXCEPT ![c + 1] = v]
  <2>2. c \in 0..b /\ c + 1 \in 1..b /\ c + 1 \in 0..b /\ 0 \in 0..b
    OBVIOUS
  <2>3. f[c] \in X
    BY <2>2
  <2>4. v \in X
    BY <1>0, <2>2, <2>3
  <2> HIDE DEF v
  <2>5. /\ g \in [0..b -> X]
        /\ g[c + 1] = v
        /\ \A n \in 0..b : n # c + 1 => g[n] = f[n]
    BY <2>2, <2>4
  <2> HIDE DEF g
  <2>6. g[0] = z
    BY <2>1, <2>2, <2>5
  <2>7. ASSUME NEW n \in 1..(c + 1) PROVE g[n] = E[<<n, g[n - 1]>>]
    <3>1. n - 1 \in 0..b /\ n - 1 # c + 1
      OBVIOUS
    <3>2. g[n - 1] = f[n - 1]
      BY <2>5, <3>1
    <3>3. CASE n = c + 1
      <4>1. n - 1 = c
        BY <3>3
      <4> QED
        BY <3>2, <3>3, <4>1, <2>5 DEF v
    <3>4. CASE n # c + 1
      <4>1. n \in 1..c /\ n \in 0..b
        BY <3>4
      <4>2. f[n] = E[<<n, f[n - 1]>>]
        BY <2>1, <4>1
      <4> QED
        BY <2>5, <3>2, <3>4, <4>1, <4>2
    <3> QED
      BY <3>3, <3>4
  <2>8. Solves(g, c + 1)
    BY <2>6, <2>7
  <2> HIDE DEF Solves
  <2> QED
    BY <2>2, <2>5, <2>8
<1>3. b \in G
  <2> HIDE DEF G
  <2> QED
    BY <1>1, <1>2, UpTo
<1> QED
  BY <1>3 DEF Follows

-----------------------------------------------------------------------------
\* Sequences.

\* Appending to a sequence.
LEMMA AppendFacts ==
  ASSUME NEW S, NEW s \in Seq(S), NEW e \in S
  PROVE  /\ Append(s, e) \in Seq(S)
         /\ Len(Append(s, e)) = Len(s) + 1
         /\ Append(s, e)[Len(s) + 1] = e
         /\ \A i \in 1..Len(s) : Append(s, e)[i] = s[i]
OBVIOUS

\* A sequence of one element.
LEMMA SingleFacts ==
  ASSUME NEW S, NEW e \in S
  PROVE  /\ <<e>> \in Seq(S)
         /\ Len(<<e>>) = 1
         /\ <<e>>[1] = e
OBVIOUS

-----------------------------------------------------------------------------
\* The binary search.

\* The offsets a segment has records for.
Covers(seg, o) == o >= seg.base /\ o < NextOffset(seg)

\* One step of the search, which goes on with f.
SearchStep(ch, o, f, lo, hi) ==
  IF lo > hi THEN 0
  ELSE LET mid == (lo + hi) \div 2
       IN  IF Covers(ch[mid], o) THEN mid
           ELSE IF o < ch[mid].base THEN f[<<lo, mid - 1>>]
           ELSE f[<<mid + 1, hi>>]

\* The middle of a window that is not empty splits it into two smaller ones.
LEMMA Halves ==
  ASSUME NEW n \in Nat, NEW lo \in 1..(n + 1), NEW hi \in 0..n, lo <= hi
  PROVE  LET mid == (lo + hi) \div 2
         IN  /\ mid \in 1..n /\ lo <= mid /\ mid <= hi
             /\ mid - 1 \in 0..n
             /\ mid + 1 \in 1..(n + 1)
OBVIOUS

\* The equations of the search have a solution.
LEMMA SearchExists ==
  ASSUME NEW ch \in Seq(Segment), NEW o \in Nat
  PROVE  \E f \in [(1..(Len(ch) + 1)) \X (0..Len(ch)) -> Int] :
           \A lo \in 1..(Len(ch) + 1), hi \in 0..Len(ch) :
             f[<<lo, hi>>] = SearchStep(ch, o, f, lo, hi)
<1> DEFINE n == Len(ch)
           W == (1..(n + 1)) \X (0..n)
           Solves(f, d) == \A lo \in 1..(n + 1), hi \in 0..n :
                             hi - lo + 1 <= d => f[<<lo, hi>>] = SearchStep(ch, o, f, lo, hi)
           G == {d \in 0..n : \E f \in [W -> Int] : Solves(f, d)}
<1>1. n \in Nat
  OBVIOUS
<1> HIDE DEF n
<1>2. 0 \in G
  <2>1. [w \in W |-> 0] \in [W -> Int]
    OBVIOUS
  <2>2. ASSUME NEW lo \in 1..(n + 1), NEW hi \in 0..n, hi - lo + 1 <= 0
        PROVE  [w \in W |-> 0][<<lo, hi>>] = SearchStep(ch, o, [w \in W |-> 0], lo, hi)
    <3>1. lo > hi /\ <<lo, hi>> \in W
      BY <1>1, <2>2
    <3> QED
      BY <3>1 DEF SearchStep
  <2>3. Solves([w \in W |-> 0], 0)
    BY <2>2
  <2>4. 0 \in 0..n
    BY <1>1
  <2> HIDE DEF Solves, W
  <2> QED
    BY <2>1, <2>3, <2>4
<1>3. ASSUME NEW d \in 0..(n - 1), d \in G PROVE d + 1 \in G
  <2>1. PICK f \in [W -> Int] : Solves(f, d)
    BY <1>3
  <2> DEFINE g == [w \in W |-> SearchStep(ch, o, f, w[1], w[2])]
  <2>2. ASSUME NEW lo \in 1..(n + 1), NEW hi \in 0..n
        PROVE  g[<<lo, hi>>] = SearchStep(ch, o, f, lo, hi)
    OBVIOUS
  <2>3. ASSUME NEW lo \in 1..(n + 1), NEW hi \in 0..n
        PROVE  SearchStep(ch, o, f, lo, hi) \in Int
    <3>1. CASE lo > hi
      BY <3>1 DEF SearchStep
    <3>2. CASE lo <= hi
      <4> DEFINE mid == (lo + hi) \div 2
      <4>1. mid \in 1..n /\ mid - 1 \in 0..n /\ mid + 1 \in 1..(n + 1)
        BY <1>1, <3>2, Halves
      <4>2. SearchStep(ch, o, f, lo, hi)
              = IF Covers(ch[mid], o) THEN mid
                ELSE IF o < ch[mid].base THEN f[<<lo, mid - 1>>] ELSE f[<<mid + 1, hi>>]
        BY <1>1, <3>2 DEF SearchStep
      <4>3. f[<<lo, mid - 1>>] \in Int /\ f[<<mid + 1, hi>>] \in Int /\ mid \in Int
        BY <4>1
      <4> HIDE DEF mid
      <4> QED
        BY <4>2, <4>3
    <3> QED
      BY <1>1, <3>1, <3>2
  <2>4. g \in [W -> Int]
    BY <2>3
  <2> HIDE DEF g
  <2>5. ASSUME NEW lo \in 1..(n + 1), NEW hi \in 0..n, hi - lo + 1 <= d
        PROVE  g[<<lo, hi>>] = f[<<lo, hi>>]
    BY <2>1, <2>2, <2>5
  <2>6. ASSUME NEW lo \in 1..(n + 1), NEW hi \in 0..n, hi - lo + 1 <= d + 1
        PROVE  g[<<lo, hi>>] = SearchStep(ch, o, g, lo, hi)
    <3>1. CASE lo > hi
      BY <2>2, <3>1 DEF SearchStep
    <3>2. CASE lo <= hi
      <4> DEFINE mid == (lo + hi) \div 2
      <4>1. /\ mid \in 1..n /\ lo <= mid /\ mid <= hi
            /\ mid - 1 \in 0..n /\ mid + 1 \in 1..(n + 1)
        BY <1>1, <3>2, Halves
      <4>2. \A h : SearchStep(ch, o, h, lo, hi)
              = IF Covers(ch[mid], o) THEN mid
                ELSE IF o < ch[mid].base THEN h[<<lo, mid - 1>>] ELSE h[<<mid + 1, hi>>]
        BY <1>1, <3>2 DEF SearchStep
      <4> HIDE DEF mid
      <4>3. (mid - 1) - lo + 1 <= d /\ hi - (mid + 1) + 1 <= d
        BY <1>1, <2>6, <4>1
      <4>4. g[<<lo, mid - 1>>] = f[<<lo, mid - 1>>] /\ g[<<mid + 1, hi>>] = f[<<mid + 1, hi>>]
        BY <2>5, <4>1, <4>3
      <4> QED
        BY <2>2, <4>2, <4>4
    <3> QED
      BY <1>1, <3>1, <3>2
  <2>7. Solves(g, d + 1)
    BY <2>6
  <2>8. d + 1 \in 0..n
    BY <1>1
  <2> HIDE DEF Solves, W
  <2> QED
    BY <2>4, <2>7, <2>8
<1>4. n \in G
  <2> HIDE DEF G
  <2> QED
    BY <1>1, <1>2, <1>3, UpTo, SMTT(20)
<1>5. PICK f \in [W -> Int] : Solves(f, n)
  BY <1>4
<1>6. ASSUME NEW lo \in 1..(n + 1), NEW hi \in 0..n
      PROVE  f[<<lo, hi>>] = SearchStep(ch, o, f, lo, hi)
  <2>1. hi - lo + 1 <= n
    BY <1>1
  <2> QED
    BY <1>5, <2>1
<1> QED
  BY <1>5, <1>6 DEF n

\* Search is the function that makes these steps.
LEMMA SearchDef ==
  ASSUME NEW ch \in Seq(Segment), NEW o \in Nat
  PROVE  \A lo \in 1..(Len(ch) + 1), hi \in 0..Len(ch) :
           Search(ch, o)[<<lo, hi>>] = SearchStep(ch, o, Search(ch, o), lo, hi)
<1> DEFINE n == Len(ch)
           W == (1..(n + 1)) \X (0..n)
           Rec(f) == f = [w \in (1..(Len(ch) + 1)) \X (0..Len(ch)) |->
              IF w[1] > w[2] THEN 0
              ELSE LET mid == (w[1] + w[2]) \div 2
                   IN  IF o >= ch[mid].base /\ o < NextOffset(ch[mid]) THEN mid
                       ELSE IF o < ch[mid].base THEN f[<<w[1], mid - 1>>]
                       ELSE f[<<mid + 1, w[2]>>]]
<1>1. Search(ch, o) = CHOOSE f : Rec(f)
  BY DEF Search
<1>2. \A f : Rec(f) <=> f = [w \in W |-> SearchStep(ch, o, f, w[1], w[2])]
  BY DEF SearchStep, Covers
<1>3. \E f : Rec(f)
  <2>1. PICK f \in [W -> Int] : \A lo \in 1..(n + 1), hi \in 0..n :
                                  f[<<lo, hi>>] = SearchStep(ch, o, f, lo, hi)
    BY SearchExists
  <2>2. ASSUME NEW w \in W PROVE f[w] = SearchStep(ch, o, f, w[1], w[2])
    <3>1. w[1] \in 1..(n + 1) /\ w[2] \in 0..n /\ w = <<w[1], w[2]>>
      OBVIOUS
    <3> QED
      BY <2>1, <3>1
  <2>3. f = [w \in W |-> SearchStep(ch, o, f, w[1], w[2])]
    BY <2>2
  <2> HIDE DEF Rec
  <2> QED
    BY <1>2, <2>3
<1>4. Rec(Search(ch, o))
  <2> HIDE DEF Rec
  <2> QED
    BY <1>1, <1>3
<1> DEFINE s == Search(ch, o)
<1>5. s = [w \in W |-> SearchStep(ch, o, s, w[1], w[2])]
  <2> HIDE DEF Rec
  <2> QED
    BY <1>2, <1>4
<1> HIDE DEF s, Rec
<1>6. ASSUME NEW lo \in 1..(n + 1), NEW hi \in 0..n
      PROVE  s[<<lo, hi>>] = SearchStep(ch, o, s, lo, hi)
  <2> DEFINE st(w) == SearchStep(ch, o, s, w[1], w[2])
  <2>1. <<lo, hi>> \in W
    OBVIOUS
  <2>2. s[<<lo, hi>>] = st(<<lo, hi>>)
    <3> HIDE DEF st, W
    <3>1. s = [w \in W |-> st(w)]
      BY <1>5 DEF st
    <3> QED
      BY <2>1, <3>1
  <2> QED
    BY <2>2
<1> QED
  BY <1>6 DEF s

\* What the search finds covers the offset.
LEMMA SearchSound ==
  ASSUME NEW ch \in Seq(Segment), NEW o \in Nat
  PROVE  LET k == Search(ch, o)[<<1, Len(ch)>>]
         IN  k # 0 => k \in 1..Len(ch) /\ Covers(ch[k], o)
<1> DEFINE n == Len(ch)
           s == Search(ch, o)
           Good(k) == k = 0 \/ (k \in 1..n /\ Covers(ch[k], o))
           G == {d \in 0..n : \A lo \in 1..(n + 1), hi \in 0..n :
                                hi - lo + 1 <= d => Good(s[<<lo, hi>>])}
<1>1. n \in Nat
  OBVIOUS
<1>2. \A lo \in 1..(n + 1), hi \in 0..n : s[<<lo, hi>>] = SearchStep(ch, o, s, lo, hi)
  BY SearchDef
<1> HIDE DEF n, s
<1>3. 0 \in G
  <2>1. ASSUME NEW lo \in 1..(n + 1), NEW hi \in 0..n, hi - lo + 1 <= 0
        PROVE  s[<<lo, hi>>] = 0
    <3>1. lo > hi
      BY <1>1, <2>1
    <3> QED
      BY <1>2, <3>1 DEF SearchStep
  <2> QED
    BY <1>1, <2>1
<1>4. ASSUME NEW d \in 0..(n - 1), d \in G PROVE d + 1 \in G
  <2>1. ASSUME NEW lo \in 1..(n + 1), NEW hi \in 0..n, hi - lo + 1 <= d + 1
        PROVE  Good(s[<<lo, hi>>])
    <3>1. CASE lo > hi
      BY <1>2, <3>1 DEF SearchStep
    <3>2. CASE lo <= hi
      <4> DEFINE mid == (lo + hi) \div 2
      <4>1. /\ mid \in 1..n /\ lo <= mid /\ mid <= hi
            /\ mid - 1 \in 0..n /\ mid + 1 \in 1..(n + 1)
        BY <1>1, <3>2, Halves
      <4>2. s[<<lo, hi>>]
              = IF Covers(ch[mid], o) THEN mid
                ELSE IF o < ch[mid].base THEN s[<<lo, mid - 1>>] ELSE s[<<mid + 1, hi>>]
        BY <1>1, <1>2, <3>2 DEF SearchStep
      <4> HIDE DEF mid
      <4>3. (mid - 1) - lo + 1 <= d /\ hi - (mid + 1) + 1 <= d
        BY <1>1, <2>1, <4>1
      <4>4. Good(s[<<lo, mid - 1>>]) /\ Good(s[<<mid + 1, hi>>])
        BY <1>4, <4>1, <4>3
      <4> QED
        BY <4>1, <4>2, <4>4
    <3> QED
      BY <1>1, <3>1, <3>2
  <2>2. d + 1 \in 0..n
    BY <1>1
  <2> HIDE DEF Good
  <2> QED
    BY <2>1, <2>2
<1>5. n \in G
  <2> HIDE DEF G
  <2> QED
    BY <1>1, <1>3, <1>4, UpTo, SMTT(20)
<1>6. Good(s[<<1, n>>])
  <2>1. 1 \in 1..(n + 1) /\ n \in 0..n /\ n - 1 + 1 <= n
    BY <1>1
  <2> HIDE DEF Good
  <2> QED
    BY <1>5, <2>1
<1> QED
  BY <1>6 DEF s, n

\* A segment that covers the offset is found if the segments before it end at or
\* below the offset and those after it start above.
LEMMA SearchFinds ==
  ASSUME NEW ch \in Seq(Segment), NEW o \in Nat, NEW k \in 1..Len(ch), Covers(ch[k], o),
         \A i \in 1..(k - 1) : NextOffset(ch[i]) <= o,
         \A i \in (k + 1)..Len(ch) : o < ch[i].base
  PROVE  Search(ch, o)[<<1, Len(ch)>>] = k
<1> DEFINE n == Len(ch)
           s == Search(ch, o)
           G == {d \in 0..n : \A lo \in 1..(n + 1), hi \in 0..n :
                   hi - lo + 1 <= d /\ lo <= k /\ k <= hi => s[<<lo, hi>>] = k}
<1>1. n \in Nat
  OBVIOUS
<1>2. \A lo \in 1..(n + 1), hi \in 0..n : s[<<lo, hi>>] = SearchStep(ch, o, s, lo, hi)
  BY SearchDef
<1>3. ASSUME NEW i \in 1..n
      PROVE  /\ ch[i].base \in Nat /\ NextOffset(ch[i]) \in Nat
             /\ ch[i].base <= NextOffset(ch[i])
  <2>1. ch[i] \in Segment
    OBVIOUS
  <2>2. ch[i].base \in Nat /\ ch[i].recs \in Seq(Record)
    BY <2>1 DEF Segment
  <2> QED
    BY <2>2 DEF NextOffset
<1>4. /\ k \in 1..n
      /\ \A i \in 1..(k - 1) : NextOffset(ch[i]) <= o
      /\ \A i \in (k + 1)..n : o < ch[i].base
  OBVIOUS
<1> HIDE DEF n, s
<1>5. 0 \in G
  <2>1. ASSUME NEW lo \in 1..(n + 1), NEW hi \in 0..n, hi - lo + 1 <= 0, lo <= k, k <= hi
        PROVE  FALSE
    BY <1>1, <2>1, <1>4
  <2> QED
    BY <1>1, <2>1
<1>6. ASSUME NEW d \in 0..(n - 1), d \in G PROVE d + 1 \in G
  <2>1. ASSUME NEW lo \in 1..(n + 1), NEW hi \in 0..n, hi - lo + 1 <= d + 1, lo <= k, k <= hi
        PROVE  s[<<lo, hi>>] = k
    <3>0. lo <= hi
      BY <1>1, <1>4, <2>1
    <3> DEFINE mid == (lo + hi) \div 2
    <3>1. /\ mid \in 1..n /\ lo <= mid /\ mid <= hi
          /\ mid - 1 \in 0..n /\ mid + 1 \in 1..(n + 1)
      BY <1>1, <3>0, Halves
    <3>2. s[<<lo, hi>>]
            = IF Covers(ch[mid], o) THEN mid
              ELSE IF o < ch[mid].base THEN s[<<lo, mid - 1>>] ELSE s[<<mid + 1, hi>>]
      BY <1>1, <1>2, <3>0 DEF SearchStep
    <3> HIDE DEF mid
    <3>3. (mid - 1) - lo + 1 <= d /\ hi - (mid + 1) + 1 <= d
      BY <1>1, <2>1, <3>1
    <3>4. CASE mid = k
      BY <3>2, <3>4
    <3>5. CASE mid < k
      <4>1. NextOffset(ch[mid]) <= o
        BY <1>1, <1>4, <3>1, <3>5
      <4>2. ~Covers(ch[mid], o) /\ ~(o < ch[mid].base)
        BY <1>3, <3>1, <4>1, SMTT(20) DEF Covers
      <4>3. mid + 1 <= k
        BY <1>4, <3>1, <3>5
      <4>4. s[<<mid + 1, hi>>] = k
        BY <1>6, <2>1, <3>1, <3>3, <4>3
      <4> QED
        BY <3>2, <4>2, <4>4
    <3>6. CASE k < mid
      <4>1. o < ch[mid].base
        BY <1>1, <1>4, <3>1, <3>6
      <4>2. ~Covers(ch[mid], o)
        <5>1. ch[mid].base \in Nat
          BY <1>3, <3>1
        <5> QED
          BY <5>1, <4>1 DEF Covers
      <4>3. k <= mid - 1
        BY <1>4, <3>1, <3>6
      <4>4. s[<<lo, mid - 1>>] = k
        BY <1>6, <2>1, <3>1, <3>3, <4>3
      <4> QED
        BY <3>2, <4>1, <4>2, <4>4
    <3> QED
      BY <1>1, <1>4, <3>1, <3>4, <3>5, <3>6
  <2>2. d + 1 \in 0..n
    BY <1>1
  <2> QED
    BY <2>1, <2>2
<1>7. n \in G
  <2> HIDE DEF G
  <2>1. \A d \in 0..(n - 1) : d \in G => d + 1 \in G
    BY <1>6
  <2>2. \A d \in 0..n : d \in G
    BY <1>1, <1>5, <2>1, UpTo
  <2> QED
    BY <1>1, <2>2
<1>8. 1 \in 1..(n + 1) /\ n \in 0..n /\ n - 1 + 1 <= n /\ 1 <= k /\ k <= n
  BY <1>1, <1>4
<1>9. s[<<1, n>>] = k
  BY <1>7, <1>8
<1> QED
  BY <1>9 DEF s, n

-----------------------------------------------------------------------------
\* Selecting positions of a sequence.

\* One step of the selection.
SelectStep(s, idx, n, r) == IF n \in idx THEN Append(r, s[n]) ELSE r

\* Selected looks at one position after the other.
LEMMA SelectedDef ==
  ASSUME NEW T, NEW s \in Seq(T), NEW idx
  PROVE  /\ Selected(s, idx) \in [0..Len(s) -> Seq(T)]
         /\ Selected(s, idx)[0] = <<>>
         /\ \A n \in 1..Len(s) :
              Selected(s, idx)[n] = SelectStep(s, idx, n, Selected(s, idx)[n - 1])
<1> DEFINE b == Len(s)
           Rec(f) == f = [n \in 0..Len(s) |->
                            IF n = 0 THEN <<>>
                            ELSE IF n \in idx THEN Append(f[n - 1], s[n]) ELSE f[n - 1]]
           E == [w \in (1..b) \X Seq(T) |-> SelectStep(s, idx, w[1], w[2])]
<1>1. b \in Nat
  OBVIOUS
<1>2. Selected(s, idx) = CHOOSE f : Rec(f)
  BY DEF Selected
<1>3. \A n \in 1..b, x \in Seq(T) : E[<<n, x>>] \in Seq(T)
  <2>1. ASSUME NEW n \in 1..b, NEW r \in Seq(T) PROVE SelectStep(s, idx, n, r) \in Seq(T)
    BY DEF SelectStep
  <2> QED
    BY <2>1
<1>4. <<>> \in Seq(T)
  OBVIOUS
<1>5. PICK f \in [0..b -> Seq(T)] : /\ f[0] = <<>>
                                    /\ \A n \in 1..b : f[n] = E[<<n, f[n - 1]>>]
  <2> DEFINE X == Seq(T)
             z == <<>>
  <2>1. Recurrence(b, X, z, E)
    BY <1>3, <1>4 DEF Recurrence
  <2> HIDE DEF E, b, X, z
  <2>2. \E f : Follows(f, b, X, z, E)
    BY <1>1, <2>1, Recursion
  <2> QED
    BY <2>2 DEF X, z, Follows
<1>6. ASSUME NEW n \in 1..b PROVE f[n] = SelectStep(s, idx, n, f[n - 1])
  <2>1. n - 1 \in 0..b
    OBVIOUS
  <2>2. f[n - 1] \in Seq(T)
    BY <2>1
  <2> QED
    BY <1>5, <2>2
<1>7. Rec(f)
  <2>1. ASSUME NEW n \in 0..b
        PROVE  f[n] = IF n = 0 THEN <<>>
                      ELSE IF n \in idx THEN Append(f[n - 1], s[n]) ELSE f[n - 1]
    <3>1. CASE n = 0
      BY <1>5, <3>1
    <3>2. CASE n # 0
      <4>1. n \in 1..b
        BY <3>2
      <4> QED
        BY <1>6, <3>2, <4>1 DEF SelectStep
    <3> QED
      BY <3>1, <3>2
  <2> QED
    BY <2>1
<1>8. Rec(Selected(s, idx))
  <2> HIDE DEF Rec
  <2> QED
    BY <1>2, <1>7
<1> DEFINE sel == Selected(s, idx)
<1>9. sel = [n \in 0..b |-> IF n = 0 THEN <<>>
                            ELSE IF n \in idx THEN Append(sel[n - 1], s[n]) ELSE sel[n - 1]]
  BY <1>8
<1> HIDE DEF sel, Rec
<1>10. sel[0] = <<>>
  BY <1>1, <1>9
<1>11. ASSUME NEW n \in 1..b PROVE sel[n] = SelectStep(s, idx, n, sel[n - 1])
  <2>1. n \in 0..b /\ n # 0
    OBVIOUS
  <2> QED
    BY <1>9, <2>1 DEF SelectStep
<1>12. ASSUME NEW n \in 0..b PROVE sel[n] \in Seq(T)
  <2> DEFINE G == {m \in 0..b : sel[m] \in Seq(T)}
  <2>1. 0 \in G
    <3>1. sel[0] \in Seq(T)
      BY <1>4, <1>10
    <3>2. 0 \in 0..b
      BY <1>1
    <3> QED
      BY <3>1, <3>2
  <2>2. ASSUME NEW m \in 0..(b - 1), m \in G PROVE m + 1 \in G
    <3>1. m + 1 \in 1..b /\ (m + 1) - 1 = m /\ m + 1 \in 0..b
      BY <1>1
    <3>2. sel[m + 1] = SelectStep(s, idx, m + 1, sel[m])
      BY <1>11, <3>1
    <3>3. s[m + 1] \in T
      BY <3>1
    <3>4. sel[m + 1] \in Seq(T)
      BY <2>2, <3>2, <3>3 DEF SelectStep
    <3> QED
      BY <3>1, <3>4
  <2> HIDE DEF G, b
  <2>3. \A m \in 0..b : m \in G
    BY <1>1, <2>1, <2>2, UpTo
  <2> QED
    BY <2>3 DEF G
<1>13. sel \in [0..b -> Seq(T)]
  BY <1>9, <1>12
<1> QED
  BY <1>10, <1>11, <1>13 DEF sel

\* f says where the elements of r come from in the first n positions of s.
Embeds(f, s, idx, n, r) ==
  /\ f \in [1..Len(r) -> 1..n]
  /\ \A i \in 1..Len(r) : f[i] \in idx /\ r[i] = s[f[i]]
  /\ \A i, j \in 1..Len(r) : i < j => f[i] < f[j]
  /\ \A m \in 1..n : m \in idx => \E i \in 1..Len(r) : f[i] = m

\* The selection has the elements of idx, in order, and no other.
LEMMA SelectEmbeds ==
  ASSUME NEW T, NEW s \in Seq(T), NEW idx
  PROVE  /\ Select(s, idx) \in Seq(T)
         /\ \E f : Embeds(f, s, idx, Len(s), Select(s, idx))
<1> DEFINE b == Len(s)
           sel == Selected(s, idx)
           G == {n \in 0..b : \E f : Embeds(f, s, idx, n, sel[n])}
<1>1. b \in Nat
  OBVIOUS
<1>2. /\ sel \in [0..b -> Seq(T)]
      /\ sel[0] = <<>>
      /\ \A n \in 1..b : sel[n] = SelectStep(s, idx, n, sel[n - 1])
  BY SelectedDef
<1>3. Select(s, idx) = sel[b]
  BY DEF Select
<1> HIDE DEF sel, b
<1>4. 0 \in G
  <2>1. Len(sel[0]) = 0
    BY <1>2
  <2>2. Embeds([i \in {} |-> 0], s, idx, 0, sel[0])
    <3>1. 1..0 = {}
      OBVIOUS
    <3>2. [i \in {} |-> 0] \in [{} -> {}]
      OBVIOUS
    <3> QED
      BY <2>1, <3>1, <3>2 DEF Embeds
  <2>3. 0 \in 0..b
    BY <1>1
  <2> QED
    BY <2>2, <2>3
<1>5. ASSUME NEW n \in 0..(b - 1), n \in G PROVE n + 1 \in G
  <2>1. PICK f : Embeds(f, s, idx, n, sel[n])
    BY <1>5
  <2>2. n + 1 \in 1..b /\ (n + 1) - 1 = n /\ n \in 0..b /\ n + 1 \in 0..b
    BY <1>1
  <2>3. sel[n + 1] = SelectStep(s, idx, n + 1, sel[n])
    BY <1>2, <2>2
  <2> DEFINE r == sel[n]
             L == Len(r)
  <2>4. r \in Seq(T) /\ L \in Nat
    BY <1>2, <2>2
  <2>5. /\ f \in [1..L -> 1..n]
        /\ \A i \in 1..L : f[i] \in idx /\ r[i] = s[f[i]]
        /\ \A i, j \in 1..L : i < j => f[i] < f[j]
        /\ \A m \in 1..n : m \in idx => \E i \in 1..L : f[i] = m
    BY <2>1 DEF Embeds
  <2> HIDE DEF r, L
  <2>6. CASE n + 1 \notin idx
    <3>1. sel[n + 1] = r
      BY <2>3, <2>6 DEF SelectStep, r
    <3>2. f \in [1..L -> 1..(n + 1)]
      <4>1. \A i \in 1..L : f[i] \in 1..(n + 1)
        BY <2>5
      <4> QED
        BY <2>5, <4>1
    <3>3. ASSUME NEW m \in 1..(n + 1), m \in idx PROVE \E i \in 1..L : f[i] = m
      <4>1. m \in 1..n
        BY <2>6, <3>3
      <4> QED
        BY <2>5, <3>3, <4>1
    <3>4. Embeds(f, s, idx, n + 1, r)
      BY <2>5, <3>2, <3>3 DEF Embeds, L
    <3> QED
      BY <2>2, <3>1, <3>4
  <2>7. CASE n + 1 \in idx
    <3> DEFINE q == Append(r, s[n + 1])
               g == [i \in 1..(L + 1) |-> IF i = L + 1 THEN n + 1 ELSE f[i]]
    <3>1. sel[n + 1] = q
      BY <2>3, <2>7 DEF SelectStep, r
    <3>2. s[n + 1] \in T
      BY <2>2 DEF b
    <3>3. /\ Len(q) = L + 1
          /\ q[L + 1] = s[n + 1]
          /\ \A i \in 1..L : q[i] = r[i]
      BY <2>4, <3>2 DEF L
    <3>4. /\ g[L + 1] = n + 1
          /\ \A i \in 1..L : g[i] = f[i]
      BY <2>4
    <3>5. g \in [1..(L + 1) -> 1..(n + 1)]
      <4>1. \A i \in 1..(L + 1) : (IF i = L + 1 THEN n + 1 ELSE f[i]) \in 1..(n + 1)
        BY <2>4, <2>5
      <4> QED
        BY <4>1
    <3> HIDE DEF q, g
    <3>6. ASSUME NEW i \in 1..(L + 1) PROVE g[i] \in idx /\ q[i] = s[g[i]]
      <4>1. CASE i = L + 1
        BY <2>7, <3>3, <3>4, <4>1
      <4>2. CASE i # L + 1
        <5>1. i \in 1..L
          BY <2>4, <4>2
        <5> QED
          BY <2>5, <3>3, <3>4, <5>1
      <4> QED
        BY <4>1, <4>2
    <3>7. ASSUME NEW i \in 1..(L + 1), NEW j \in 1..(L + 1), i < j PROVE g[i] < g[j]
      <4>1. i \in 1..L
        BY <2>4, <3>7
      <4>2. f[i] \in 1..n
        BY <2>5, <4>1
      <4>3. CASE j = L + 1
        BY <3>4, <4>1, <4>2, <4>3
      <4>4. CASE j # L + 1
        <5>1. j \in 1..L
          BY <2>4, <4>4
        <5> QED
          BY <2>5, <3>4, <3>7, <4>1, <5>1
      <4> QED
        BY <4>3, <4>4
    <3>8. ASSUME NEW m \in 1..(n + 1), m \in idx PROVE \E i \in 1..(L + 1) : g[i] = m
      <4>1. CASE m = n + 1
        <5>1. L + 1 \in 1..(L + 1)
          BY <2>4
        <5> QED
          BY <3>4, <4>1, <5>1
      <4>2. CASE m # n + 1
        <5>1. m \in 1..n
          BY <4>2
        <5>2. PICK i \in 1..L : f[i] = m
          BY <2>5, <3>8, <5>1
        <5>3. i \in 1..(L + 1)
          BY <2>4
        <5> QED
          BY <3>4, <5>2, <5>3
      <4> QED
        BY <4>1, <4>2
    <3>9. Embeds(g, s, idx, n + 1, q)
      BY <3>3, <3>5, <3>6, <3>7, <3>8 DEF Embeds
    <3> QED
      BY <2>2, <3>1, <3>9
  <2> QED
    BY <2>6, <2>7
<1>6. b \in G
  <2> HIDE DEF G
  <2>1. \A n \in 0..b : n \in G
    BY <1>1, <1>4, <1>5, UpTo
  <2> QED
    BY <1>1, <2>1
<1>7. \E f : Embeds(f, s, idx, b, sel[b])
  BY <1>6
<1>8. sel[b] \in Seq(T)
  BY <1>1, <1>2
<1> QED
  BY <1>3, <1>7, <1>8 DEF b

\* Its length is the number of positions selected.
LEMMA SelectLength ==
  ASSUME NEW T, NEW s \in Seq(T), NEW idx \in SUBSET (1..Len(s))
  PROVE  Len(Select(s, idx)) = Cardinality(idx)
<1> DEFINE r == Select(s, idx)
           L == Len(r)
<1>1. r \in Seq(T)
  BY SelectEmbeds
<1>2. PICK f : Embeds(f, s, idx, Len(s), r)
  BY SelectEmbeds
<1> HIDE DEF r
<1>3. /\ f \in [1..L -> 1..Len(s)]
      /\ \A i \in 1..L : f[i] \in idx
      /\ \A i, j \in 1..L : i < j => f[i] < f[j]
      /\ \A m \in idx : \E i \in 1..L : f[i] = m
  BY <1>2 DEF Embeds
<1>4. L \in Nat
  BY <1>1
<1> HIDE DEF L
<1>5. f \in [1..L -> idx]
  BY <1>3
<1>6. f \in Surjection(1..L, idx)
  BY <1>3, <1>5 DEF Surjection
<1>7. f \in Injection(1..L, idx)
  <2>1. ASSUME NEW i \in 1..L, NEW j \in 1..L, i # j PROVE f[i] # f[j]
    <3>1. i < j \/ j < i
      BY <1>4, <2>1
    <3>2. f[i] \in Nat /\ f[j] \in Nat
      BY <1>3
    <3>3. f[i] < f[j] \/ f[j] < f[i]
      BY <1>3, <3>1
    <3> QED
      BY <3>2, <3>3
  <2> QED
    BY <1>5, <2>1 DEF Injection, IsInjective
<1>8. ExistsBijection(1..L, idx)
  BY <1>6, <1>7 DEF ExistsBijection, Bijection
<1>9. Cardinality(idx) = L
  BY <1>4, <1>8, FS_CountingElements
<1> QED
  BY <1>9 DEF L, r

\* Selecting all positions but the first c leaves the rest of the sequence.
LEMMA SelectSuffix ==
  ASSUME NEW T, NEW s \in Seq(T), NEW idx, NEW c \in 0..Len(s),
         \A m \in 1..Len(s) : m \in idx <=> m > c
  PROVE  /\ Len(Select(s, idx)) = Len(s) - c
         /\ \A i \in 1..(Len(s) - c) : Select(s, idx)[i] = s[c + i]
<1> DEFINE b == Len(s)
           sel == Selected(s, idx)
           Rest(n) == IF n <= c THEN 0 ELSE n - c
           G == {n \in 0..b : /\ Len(sel[n]) = Rest(n)
                              /\ \A i \in 1..Rest(n) : sel[n][i] = s[c + i]}
<1>1. b \in Nat
  OBVIOUS
<1>2. /\ sel \in [0..b -> Seq(T)]
      /\ sel[0] = <<>>
      /\ \A n \in 1..b : sel[n] = SelectStep(s, idx, n, sel[n - 1])
  BY SelectedDef
<1>3. Select(s, idx) = sel[b]
  BY DEF Select
<1>4. \A m \in 1..b : m \in idx <=> m > c
  OBVIOUS
<1>c. c \in 0..b
  OBVIOUS
<1> HIDE DEF sel
<1>5. 0 \in G
  <2>1. Rest(0) = 0
    OBVIOUS
  <2>2. Len(sel[0]) = 0
    BY <1>2
  <2>3. \A i \in 1..0 : FALSE
    OBVIOUS
  <2> HIDE DEF Rest
  <2> QED
    BY <1>1, <2>1, <2>2, <2>3
<1>6. ASSUME NEW n \in 0..(b - 1), n \in G PROVE n + 1 \in G
  <2>1. n + 1 \in 1..b /\ (n + 1) - 1 = n /\ n \in 0..b /\ n + 1 \in 0..b
    BY <1>1
  <2>2. sel[n + 1] = SelectStep(s, idx, n + 1, sel[n])
    BY <1>2, <2>1
  <2> DEFINE r == sel[n]
  <2>3. r \in Seq(T)
    BY <1>2, <2>1
  <2>4. Len(r) = Rest(n) /\ \A i \in 1..Rest(n) : r[i] = s[c + i]
    BY <1>6
  <2> HIDE DEF r
  <2>5. CASE n + 1 <= c
    <3>1. n + 1 \notin idx
      BY <1>4, <2>1, <2>5
    <3>2. sel[n + 1] = r
      BY <2>2, <3>1 DEF SelectStep, r
    <3>3. Rest(n + 1) = Rest(n)
      BY <2>5
    <3> HIDE DEF Rest
    <3> QED
      BY <2>1, <2>4, <3>2, <3>3
  <2>6. CASE ~(n + 1 <= c)
    <3>1. n + 1 \in idx
      BY <1>4, <2>1, <2>6
    <3>2. sel[n + 1] = Append(r, s[n + 1])
      BY <2>2, <3>1 DEF SelectStep, r
    <3>3. Rest(n) = n - c /\ Rest(n + 1) = n + 1 - c /\ n - c \in Nat
      BY <2>6
    <3>4. s[n + 1] \in T
      BY <2>1
    <3> DEFINE q == Append(r, s[n + 1])
    <3> HIDE DEF Rest
    <3>5. /\ Len(q) = n + 1 - c
          /\ q[n - c + 1] = s[n + 1]
          /\ \A i \in 1..(n - c) : q[i] = r[i]
      <4>1. /\ Len(q) = Len(r) + 1
            /\ q[Len(r) + 1] = s[n + 1]
            /\ \A i \in 1..Len(r) : q[i] = r[i]
        BY <2>3, <3>4, AppendFacts
      <4>2. Len(r) = n - c
        BY <2>4, <3>3
      <4> HIDE DEF q
      <4> QED
        BY <3>3, <4>1, <4>2
    <3> HIDE DEF q
    <3>6. ASSUME NEW i \in 1..(n + 1 - c) PROVE q[i] = s[c + i]
      <4>1. CASE i = n - c + 1
        <5>1. c + i = n + 1
          BY <4>1
        <5> QED
          BY <3>5, <4>1, <5>1
      <4>2. CASE i # n - c + 1
        <5>1. i \in 1..(n - c)
          BY <3>3, <4>2
        <5> QED
          BY <2>4, <3>3, <3>5, <5>1
      <4> QED
        BY <4>1, <4>2
    <3>7. sel[n + 1] = q
      BY <3>2 DEF q
    <3> QED
      BY <2>1, <3>3, <3>5, <3>6, <3>7
  <2> QED
    BY <2>5, <2>6
<1>7. b \in G
  <2> HIDE DEF G, b
  <2>1. \A n \in 0..b : n \in G
    BY <1>1, <1>5, <1>6, UpTo
  <2> QED
    BY <1>1, <2>1
<1>8. Rest(b) = b - c
  BY <1>1
<1>9. Len(sel[b]) = b - c /\ \A i \in 1..(b - c) : sel[b][i] = s[c + i]
  <2> HIDE DEF Rest
  <2> QED
    BY <1>7, <1>8
<1> QED
  BY <1>3, <1>9

-----------------------------------------------------------------------------
\* What a compaction reads and writes.

\* ReadUpTo reads one segment after the other.
LEMMA ReadUpToDef ==
  ASSUME NEW segs \in Seq(Segment)
  PROVE  /\ ReadUpTo(segs) \in [0..Len(segs) -> Seq(Record)]
         /\ ReadUpTo(segs)[0] = <<>>
         /\ \A n \in 1..Len(segs) : ReadUpTo(segs)[n] = ReadUpTo(segs)[n - 1] \o segs[n].recs
<1> DEFINE b == Len(segs)
           R(n) == segs[n].recs
           Rec(f) == f = [n \in 0..Len(segs) |-> IF n = 0 THEN <<>> ELSE f[n - 1] \o segs[n].recs]
           X == Seq(Record)
           z == <<>>
           E == [w \in (1..b) \X X |-> w[2] \o R(w[1])]
<1>1. b \in Nat
  OBVIOUS
<1>2. ReadUpTo(segs) = CHOOSE f : Rec(f)
  BY DEF ReadUpTo
<1>3. ASSUME NEW n \in 1..b PROVE R(n) \in X
  <2>1. segs[n] \in Segment
    OBVIOUS
  <2> QED
    BY <2>1 DEF Segment
<1>4. Recurrence(b, X, z, E)
  <2>1. z \in X
    OBVIOUS
  <2>2. ASSUME NEW n \in 1..b, NEW x \in X PROVE E[<<n, x>>] \in X
    <3>1. R(n) \in X
      BY <1>3
    <3>2. x \o R(n) \in X
      <4> HIDE DEF R
      <4> QED
        BY <3>1
    <3>3. <<n, x>> \in (1..b) \X X
      OBVIOUS
    <3> HIDE DEF R, X
    <3> QED
      BY <3>2, <3>3
  <2> HIDE DEF E, z, X
  <2> QED
    BY <2>1, <2>2 DEF Recurrence
<1>5. PICK f : Follows(f, b, X, z, E)
  <2> HIDE DEF E, z, X, b
  <2> QED
    BY <1>1, <1>4, Recursion
<1>6. f \in [0..b -> X] /\ f[0] = <<>>
  BY <1>5 DEF Follows
<1>7. ASSUME NEW n \in 1..b PROVE f[n] = f[n - 1] \o R(n)
  <2>1. n - 1 \in 0..b
    OBVIOUS
  <2>2. f[n - 1] \in X
    BY <1>6, <2>1
  <2>3. f[n] = E[<<n, f[n - 1]>>]
    BY <1>5 DEF Follows
  <2>4. <<n, f[n - 1]>> \in (1..b) \X X
    BY <2>2
  <2> HIDE DEF R, X
  <2> QED
    BY <2>3, <2>4
<1>8. Rec(f)
  <2>1. ASSUME NEW n \in 0..b PROVE f[n] = IF n = 0 THEN <<>> ELSE f[n - 1] \o R(n)
    <3>1. CASE n = 0
      BY <1>6, <3>1
    <3>2. CASE n # 0
      <4>1. n \in 1..b
        BY <3>2
      <4> HIDE DEF R
      <4> QED
        BY <1>7, <3>2, <4>1
    <3> QED
      BY <3>1, <3>2
  <2>2. f = [n \in 0..b |-> IF n = 0 THEN <<>> ELSE f[n - 1] \o R(n)]
    <3> HIDE DEF R
    <3> QED
      BY <1>6, <2>1
  <2> QED
    BY <2>2
<1>9. Rec(ReadUpTo(segs))
  <2> HIDE DEF Rec
  <2> QED
    BY <1>2, <1>8
<1> DEFINE up == ReadUpTo(segs)
<1>10. up = [n \in 0..b |-> IF n = 0 THEN <<>> ELSE up[n - 1] \o R(n)]
  BY <1>9
<1> HIDE DEF up, Rec, R
<1>11. up[0] = <<>>
  BY <1>1, <1>10
<1>12. ASSUME NEW n \in 1..b PROVE up[n] = up[n - 1] \o R(n)
  <2>1. n \in 0..b /\ n # 0
    OBVIOUS
  <2> QED
    BY <1>10, <2>1
<1>13. ASSUME NEW n \in 0..b PROVE up[n] \in X
  <2> DEFINE G == {m \in 0..b : up[m] \in X}
  <2>1. 0 \in G
    <3>1. up[0] \in X
      BY <1>11
    <3>2. 0 \in 0..b
      BY <1>1
    <3> HIDE DEF X
    <3> QED
      BY <3>1, <3>2
  <2>2. ASSUME NEW m \in 0..(b - 1), m \in G PROVE m + 1 \in G
    <3>1. m + 1 \in 1..b /\ (m + 1) - 1 = m /\ m + 1 \in 0..b
      BY <1>1
    <3>2. up[m + 1] = up[m] \o R(m + 1)
      BY <1>12, <3>1
    <3>3. R(m + 1) \in X /\ up[m] \in X
      BY <1>3, <2>2, <3>1
    <3>4. up[m + 1] \in X
      BY <3>2, <3>3
    <3> QED
      BY <3>1, <3>4
  <2> HIDE DEF G, b
  <2>3. \A m \in 0..b : m \in G
    BY <1>1, <2>1, <2>2, UpTo
  <2> QED
    BY <2>3 DEF G
<1>14. up \in [0..b -> X]
  <2> HIDE DEF X
  <2> QED
    BY <1>10, <1>13
<1> QED
  BY <1>11, <1>12, <1>14 DEF up, R

\* The bounds of a segment.
LEMMA SegmentSpan ==
  ASSUME NEW seg \in Segment
  PROVE  /\ seg.base \in Nat /\ seg.recs \in Seq(Record) /\ Len(seg.recs) \in Nat
         /\ NextOffset(seg) = seg.base + Len(seg.recs)
         /\ NextOffset(seg) \in Nat
<1>1. seg.base \in Nat /\ seg.recs \in Seq(Record)
  BY DEF Segment
<1> QED
  BY <1>1 DEF NextOffset

\* Segments that do not overlap have no more records than offsets.
LEMMA ReadSpan ==
  ASSUME NEW segs \in Seq(Segment), segs # <<>>,
         \A i, j \in 1..Len(segs) : i < j => NextOffset(segs[i]) <= segs[j].base
  PROVE  /\ AllRecords(segs) \in Seq(Record)
         /\ segs[1].base + Len(AllRecords(segs)) <= NextOffset(segs[Len(segs)])
<1> DEFINE b == Len(segs)
           up == ReadUpTo(segs)
           first == segs[1].base
           G == {n \in 0..b : n >= 1 => first + Len(up[n]) <= NextOffset(segs[n])}
<1>1. b \in Nat /\ b >= 1
  OBVIOUS
<1>2. /\ up \in [0..b -> Seq(Record)]
      /\ up[0] = <<>>
      /\ \A n \in 1..b : up[n] = up[n - 1] \o segs[n].recs
  BY ReadUpToDef
<1>3. ASSUME NEW n \in 1..b
      PROVE  /\ segs[n].base \in Nat /\ segs[n].recs \in Seq(Record)
             /\ Len(segs[n].recs) \in Nat
             /\ NextOffset(segs[n]) = segs[n].base + Len(segs[n].recs)
             /\ NextOffset(segs[n]) \in Nat
  <2>1. segs[n] \in Segment
    OBVIOUS
  <2> QED
    BY <2>1, SegmentSpan
<1>4. ASSUME NEW n \in 1..b PROVE /\ Len(up[n]) = Len(up[n - 1]) + Len(segs[n].recs)
                                  /\ Len(up[n - 1]) \in Nat
  <2>1. n - 1 \in 0..b
    OBVIOUS
  <2>2. up[n - 1] \in Seq(Record) /\ segs[n].recs \in Seq(Record)
    BY <1>2, <1>3, <2>1
  <2> HIDE DEF up
  <2>3. up[n] = up[n - 1] \o segs[n].recs
    BY <1>2
  <2> QED
    BY <2>2, <2>3
<1>5. first \in Nat
  BY <1>1, <1>3
<1>6. ASSUME NEW i \in 1..b, NEW j \in 1..b, i < j PROVE NextOffset(segs[i]) <= segs[j].base
  BY <1>6
<1> HIDE DEF up, first, b
<1>7. 0 \in G
  BY <1>1
<1>8. ASSUME NEW n \in 0..(b - 1), n \in G PROVE n + 1 \in G
  <2>1. n + 1 \in 1..b /\ n + 1 \in 0..b /\ (n + 1) - 1 = n
    BY <1>1
  <2>2. Len(up[n + 1]) = Len(up[n]) + Len(segs[n + 1].recs) /\ Len(up[n]) \in Nat
    BY <1>4, <2>1
  <2>3. NextOffset(segs[n + 1]) = segs[n + 1].base + Len(segs[n + 1].recs)
    BY <1>3, <2>1
  <2>4. segs[n + 1].base \in Nat /\ Len(segs[n + 1].recs) \in Nat
    BY <1>3, <2>1
  <2>5. first + Len(up[n]) <= segs[n + 1].base
    <3>1. CASE n = 0
      <4>1. Len(up[n]) = 0
        BY <1>2, <3>1
      <4>2. segs[n + 1].base = first
        BY <3>1 DEF first
      <4> QED
        BY <1>5, <4>1, <4>2
    <3>2. CASE n # 0
      <4>1. n \in 1..b /\ n >= 1 /\ n < n + 1
        BY <1>1, <3>2
      <4>2. first + Len(up[n]) <= NextOffset(segs[n])
        BY <1>8, <4>1
      <4>3. NextOffset(segs[n]) <= segs[n + 1].base
        BY <1>6, <2>1, <4>1
      <4>4. NextOffset(segs[n]) \in Nat
        BY <1>3, <4>1
      <4> QED
        BY <1>5, <2>2, <2>4, <4>2, <4>3, <4>4
    <3> QED
      BY <3>1, <3>2
  <2>6. first + Len(up[n + 1]) <= NextOffset(segs[n + 1])
    <3> DEFINE x == Len(up[n])
               y == Len(segs[n + 1].recs)
               c == segs[n + 1].base
    <3>1. x \in Nat /\ y \in Nat /\ c \in Nat /\ first + x <= c
      BY <2>2, <2>4, <2>5
    <3>2. Len(up[n + 1]) = x + y /\ NextOffset(segs[n + 1]) = c + y
      BY <2>2, <2>3
    <3> HIDE DEF x, y, c
    <3>3. first + (x + y) <= c + y
      BY <1>5, <3>1
    <3> QED
      BY <3>2, <3>3
  <2> QED
    BY <2>1, <2>6
<1>9. b \in G
  <2> HIDE DEF G
  <2>1. \A n \in 0..b : n \in G
    BY <1>1, <1>7, <1>8, UpTo
  <2> QED
    BY <1>1, <2>1
<1>10. first + Len(up[b]) <= NextOffset(segs[b])
  BY <1>1, <1>9
<1>11. up[b] \in Seq(Record)
  BY <1>1, <1>2
<1> QED
  BY <1>10, <1>11 DEF AllRecords, up, b, first

\* A compaction writes no more records than it has read.
LEMMA ResultFits ==
  ASSUME NEW all \in Seq(Record), NEW s \in Orders(LatestByKey(all)), NEW keyless,
         keyless = Select(all, {i \in 1..Len(all) : all[i].key = NoKey})
  PROVE  keyless \o s \in Seq(Record) /\ Len(keyless \o s) <= Len(all)
<1> DEFINE n == Len(all)
           K == {i \in 1..n : all[i].key = NoKey}
           J == {i \in 1..n : /\ all[i].key # NoKey
                              /\ UnderKeyLimit(all, i)
                              /\ \A j \in (i + 1)..n :
                                   all[j].key = all[i].key => ~UnderKeyLimit(all, j)}
           L == LatestByKey(all)
<1>1. n \in Nat /\ IsFiniteSet(1..n) /\ Cardinality(1..n) = n
  <2>1. n \in Nat
    OBVIOUS
  <2> HIDE DEF n
  <2>2. IsFiniteSet(1..n) /\ Cardinality(1..n) = IF 1 > n THEN 0 ELSE n - 1 + 1
    BY <2>1, FS_Interval
  <2> QED
    BY <2>1, <2>2
<1>2. keyless \in Seq(Record) /\ Len(keyless) = Cardinality(K)
  <2>1. K \in SUBSET (1..n)
    OBVIOUS
  <2> HIDE DEF K
  <2>2. keyless = Select(all, K)
    BY DEF K
  <2> QED
    BY <2>1, <2>2, SelectEmbeds, SelectLength
<1>3. L = {all[i] : i \in J}
  BY DEF LatestByKey
<1>4. L \subseteq Record
  BY <1>3
<1>5. K \subseteq 1..n /\ J \subseteq 1..n /\ K \cap J = {}
  OBVIOUS
<1> HIDE DEF K, J, L
<1>6. IsFiniteSet(K) /\ IsFiniteSet(J) /\ Cardinality(K) \in Nat /\ Cardinality(J) \in Nat
  BY <1>1, <1>5, FS_Subset, FS_CardinalityType
<1>7. Cardinality(K \cup J) = Cardinality(K) + Cardinality(J)
  <2>1. Cardinality(K \cup J) = Cardinality(K) + Cardinality(J) - Cardinality(K \cap J)
    BY <1>6, FS_Union
  <2>2. Cardinality(K \cap J) = 0
    BY <1>5, FS_EmptySet
  <2> QED
    BY <1>6, <2>1, <2>2
<1>8. Cardinality(K \cup J) <= n
  <2>1. K \cup J \in SUBSET (1..n)
    BY <1>5
  <2> QED
    BY <1>1, <2>1, FS_Subset
<1>9. IsFiniteSet(L) /\ Cardinality(L) \in Nat /\ Cardinality(L) <= Cardinality(J)
  <2> DEFINE g == [i \in J |-> all[i]]
  <2>1. g \in Surjection(J, L)
    BY <1>3 DEF Surjection
  <2> HIDE DEF g
  <2>2. IsFiniteSet(L) /\ Cardinality(L) <= Cardinality(J)
    BY <1>6, <2>1, FS_Surjection
  <2> QED
    BY <2>2, FS_CardinalityType
<1>10. s \in Seq(Record) /\ Len(s) = Cardinality(L)
  <2>1. s \in [1..Cardinality(L) -> L]
    BY DEF Orders, L
  <2>2. s \in [1..Cardinality(L) -> Record]
    BY <1>4, <2>1
  <2> QED
    BY <1>9, <2>2
<1>11. keyless \o s \in Seq(Record) /\ Len(keyless \o s) = Len(keyless) + Len(s)
  BY <1>2, <1>10
<1> QED
  BY <1>1, <1>2, <1>6, <1>7, <1>8, <1>9, <1>10, <1>11

-----------------------------------------------------------------------------
\* Offsets.

\* The variables the argument is about, typed.
ActiveOK ==
  /\ policy \in Policies
  /\ active \in Segment
  /\ highWater \in Nat
  /\ clock \in 0..MaxClock
  /\ log \in Seq(Record)

\* The active segment is the end of the history.
ActiveIsTail ==
  \A i \in 1..Len(active.recs) : active.recs[i] = log[active.base + i]

OffsetInv == ActiveOK /\ OffsetsNeverReused /\ ActiveIsTail

\* A segment with other records.
LEMMA WithRecords ==
  ASSUME NEW seg \in Segment, NEW rs \in Seq(Record)
  PROVE  /\ [seg EXCEPT !.recs = rs] \in Segment
         /\ [seg EXCEPT !.recs = rs].base = seg.base
         /\ [seg EXCEPT !.recs = rs].recs = rs
BY DEF Segment

\* A new segment is empty and well formed.
LEMMA FreshSegment ==
  ASSUME NEW b \in Nat
  PROVE  /\ Fresh(b) \in Segment
         /\ Fresh(b).base = b
         /\ Fresh(b).recs = <<>>
BY DEF Fresh, Segment

\* Initially nothing was accepted.
LEMMA OffsetInit == Init => OffsetInv
<1>. SUFFICES ASSUME Init PROVE OffsetInv
  OBVIOUS
<1>1. /\ active \in Segment
      /\ active.base = 0
      /\ active.recs = <<>>
  BY FreshSegment DEF Init
<1>2. log = <<>> /\ highWater = 0 /\ clock = 0 /\ policy \in Policies
  BY DEF Init
<1>. QED
  BY <1>1, <1>2, HotAssumption
     DEF OffsetInv, ActiveOK, OffsetsNeverReused, ActiveIsTail, NextOffset

\* Append hands out the next offset, in the active segment or in a new one.
LEMMA OffsetAppend ==
  ASSUME OffsetInv, NEW k \in policy.keys, NEW t \in policy.ttls,
         NEW stamp \in 0..MaxClock, AppendRecord(k, t, stamp)
  PROVE  OffsetInv'
<1>. USE DEF OffsetInv, ActiveOK, OffsetsNeverReused, ActiveIsTail, NextOffset
<1>. DEFINE rec == [off |-> Len(log), key |-> k, exp |-> IF t = 0 THEN 0 ELSE stamp + t]
<1>0. k \in Key \cup {NoKey} /\ t \in Nat
  BY HotAssumption DEF Policy
<1>1. rec \in Record
  <2>1. Len(log) \in 0..MaxOffset
    BY HotAssumption DEF AppendRecord
  <2>2. (IF t = 0 THEN 0 ELSE stamp + t) \in Nat
    BY <1>0, HotAssumption
  <2>. QED
    BY <1>0, <2>1, <2>2 DEF Record
<1>2. log' = Append(log, rec) /\ clock' = clock /\ policy' = policy
  BY DEF AppendRecord
<1>3. active.base \in Nat /\ active.recs \in Seq(Record)
  BY DEF Segment
<1>. HIDE DEF rec
<1>6. /\ log' \in Seq(Record)
      /\ Len(log') = Len(log) + 1
      /\ log'[Len(log) + 1] = rec
      /\ \A i \in 1..Len(log) : log'[i] = log[i]
  BY <1>1, <1>2, AppendFacts
<1>4. CASE Full(active)
  <2>1. active' = [Fresh(NextOffset(active)) EXCEPT !.recs = <<rec>>]
    BY <1>4 DEF AppendRecord, RollBase, rec
  <2>2. NextOffset(active) = Len(log)
    OBVIOUS
  <2>3. /\ active' \in Segment
        /\ active'.base = Len(log)
        /\ active'.recs = <<rec>>
    <3>1. <<rec>> \in Seq(Record)
      BY <1>1, SingleFacts
    <3>2. /\ Fresh(Len(log)) \in Segment
          /\ Fresh(Len(log)).base = Len(log)
      BY FreshSegment
    <3>3. active' = [Fresh(Len(log)) EXCEPT !.recs = <<rec>>]
      BY <2>1, <2>2
    <3>. QED
      BY <3>1, <3>2, <3>3, WithRecords
  <2>4. highWater' = Len(log)
    BY <1>4, <2>2 DEF AppendRecord, RollBase
  <2>5. Len(active'.recs) = 1 /\ active'.recs[1] = rec
    BY <2>3, <1>1, SingleFacts
  <2>6. NextOffset(active') = Len(log')
    BY <2>3, <2>5, <1>6
  <2>7. ActiveIsTail'
    BY <2>3, <2>5, <1>6
  <2>. QED
    BY <1>2, <1>6, <2>3, <2>4, <2>6, <2>7
<1>5. CASE ~Full(active)
  <2>1. active' = [active EXCEPT !.recs = Append(@, rec)]
    BY <1>5 DEF AppendRecord, rec
  <2>2. /\ active' \in Segment
        /\ active'.base = active.base
        /\ active'.recs = Append(active.recs, rec)
    BY <2>1, <1>1, <1>3, AppendFacts, WithRecords
  <2>3. highWater' = Len(log)
    BY <1>5 DEF AppendRecord
  <2>4. /\ Len(active'.recs) = Len(active.recs) + 1
        /\ active'.recs[Len(active.recs) + 1] = rec
        /\ \A i \in 1..Len(active.recs) : active'.recs[i] = active.recs[i]
    BY <2>2, <1>1, <1>3, AppendFacts
  <2>5. NextOffset(active') = Len(log')
    BY <1>3, <1>6, <2>2, <2>4
  <2>6. ActiveIsTail'
    <3>. SUFFICES ASSUME NEW i \in 1..Len(active'.recs)
                  PROVE  active'.recs[i] = log'[active'.base + i]
      OBVIOUS
    <3>1. CASE i = Len(active.recs) + 1
      <4>1. active'.base + i = Len(log) + 1
        BY <3>1, <1>3, <2>2
      <4>. QED
        BY <3>1, <4>1, <1>6, <2>4
    <3>2. CASE i # Len(active.recs) + 1
      <4>1. i \in 1..Len(active.recs)
        BY <3>2, <1>3, <2>4
      <4>2. active.base + i \in 1..Len(log)
        BY <4>1, <1>3
      <4>. QED
        BY <4>1, <4>2, <1>6, <2>2, <2>4
    <3>. QED
      BY <3>1, <3>2
  <2>7. log' # <<>> => highWater' = Len(log') - 1
    BY <1>6, <2>3
  <2>8. ActiveOK'
    BY <1>2, <1>6, <2>2, <2>3
  <2>. HIDE DEF ActiveOK, ActiveIsTail
  <2>. QED
    BY <2>5, <2>6, <2>7, <2>8
<1>. QED
  BY <1>4, <1>5

\* A restart finds the active segment, or an empty successor of it, and derives the
\* high watermark from it.
LEMMA OffsetRestart ==
  ASSUME OffsetInv, NEW rolled \in BOOLEAN, Restart(rolled)
  PROVE  OffsetInv'
<1>. USE DEF OffsetInv, ActiveOK, OffsetsNeverReused, ActiveIsTail, NextOffset
<1>1. log' = log /\ clock' = clock /\ policy' = policy
  BY DEF Restart
<1>2. active.base \in Nat /\ active.recs \in Seq(Record)
  BY DEF Segment
<1>3. highWater' = IF NextOffset(active') > 0 THEN NextOffset(active') - 1 ELSE 0
  BY DEF Restart
<1>4. CASE rolled
  <2>1. active' = Fresh(Len(log))
    BY <1>4 DEF Restart, RollBase
  <2>2. /\ active' \in Segment
        /\ active'.base = Len(log)
        /\ active'.recs = <<>>
    BY <2>1, FreshSegment
  <2>. QED
    BY <1>1, <1>3, <2>2
<1>5. CASE ~rolled
  BY <1>1, <1>2, <1>3, <1>5 DEF Restart
<1>. QED
  BY <1>4, <1>5

\* No other step touches the active segment or the high watermark.
LEMMA OffsetStep == OffsetInv /\ [Next]_vars => OffsetInv'
<1>. SUFFICES ASSUME OffsetInv, [Next]_vars PROVE OffsetInv'
  OBVIOUS
<1>1. CASE \E k \in policy.keys, t \in policy.ttls, stamp \in 0..MaxClock :
            AppendRecord(k, t, stamp)
  BY <1>1, OffsetAppend
<1>2. CASE \E rolled \in BOOLEAN : Restart(rolled)
  BY <1>2, OffsetRestart
<1>3. CASE \/ ScanRead \/ ScanTrim \/ EnforceRetention
           \/ CompactRead \/ CompactSwap \/ UNCHANGED vars
  <2>1. UNCHANGED <<policy, active, highWater, clock, log>>
    BY <1>3 DEF ScanRead, ScanTrim, EnforceRetention, CompactRead, CompactSwap, vars
  <2>. QED
    BY <2>1 DEF OffsetInv, ActiveOK, OffsetsNeverReused, ActiveIsTail, NextOffset
<1>4. CASE Tick
  <2>1. /\ UNCHANGED <<policy, active, highWater, log>>
        /\ clock < MaxClock /\ clock' = clock + 1
    BY <1>4 DEF Tick
  <2>2. clock' \in 0..MaxClock
    BY <2>1, HotAssumption DEF OffsetInv, ActiveOK
  <2>3. OffsetsNeverReused' /\ ActiveIsTail'
    BY <2>1 DEF OffsetInv, OffsetsNeverReused, ActiveIsTail, NextOffset
  <2>. QED
    BY <2>1, <2>2, <2>3 DEF OffsetInv, ActiveOK
<1>. QED
  BY <1>1, <1>2, <1>3, <1>4 DEF Next

\* An offset is handed out once, and the high watermark is the last one handed out:
\* Partition.Append, rollover, OpenPartition, whatever retention, expiry and
\* compaction remove.
THEOREM OffsetsSafe == Spec => []OffsetsNeverReused
<1>1. OffsetInv => OffsetsNeverReused
  BY DEF OffsetInv
<1>. QED
  BY OffsetInit, OffsetStep, <1>1, PTL DEF Spec

\* The active segment always holds the latest accepted messages, each at the position
\* its offset says.
THEOREM ActiveTailSafe == Spec => []ActiveIsTail
<1>1. OffsetInv => ActiveIsTail
  BY DEF OffsetInv
<1>. QED
  BY OffsetInit, OffsetStep, <1>1, PTL DEF Spec
-----------------------------------------------------------------------------
\* The chain of segments.

\* The segments before the active one end at or below its base.
Behind == \A i \in 1..Len(old) : NextOffset(old[i]) <= active.base

\* Frozen segments do not overlap.  The others may: after a compaction, segments that a
\* restart has thawed come behind a segment with a higher base.
FrozenOrdered ==
  \A i, j \in 1..Len(old) :
    i < j /\ old[i].frozen /\ old[j].frozen => NextOffset(old[i]) <= old[j].base

\* What a compaction is about to write ends at or below the base of the active segment.
CompFits == comp.on => comp.base + Len(comp.result) <= active.base

ChainInv == TypeOK /\ OffsetInv /\ Behind /\ FrozenOrdered /\ CompFits

\* The chain is the old segments and the active one.
LEMMA ChainFacts ==
  ASSUME old \in Seq(Segment), active \in Segment
  PROVE  /\ Chain \in Seq(Segment)
         /\ Len(Chain) = Len(old) + 1
         /\ Chain[Len(old) + 1] = active
         /\ \A i \in 1..Len(old) : Chain[i] = old[i]
BY AppendFacts DEF Chain

\* A segment that is frozen or thawed keeps what is in it.
LEMMA FreezeFacts ==
  ASSUME NEW seg \in Segment, NEW b \in BOOLEAN
  PROVE  /\ [seg EXCEPT !.frozen = b] \in Segment
         /\ [seg EXCEPT !.frozen = b].base = seg.base
         /\ [seg EXCEPT !.frozen = b].recs = seg.recs
         /\ [seg EXCEPT !.frozen = b].compacted = seg.compacted
         /\ [seg EXCEPT !.frozen = b].frozen = b
         /\ NextOffset([seg EXCEPT !.frozen = b]) = NextOffset(seg)
BY DEF Segment, NextOffset

\* An element in front of a sequence.
LEMMA ConsFacts ==
  ASSUME NEW S, NEW e \in S, NEW r \in Seq(S)
  PROVE  /\ <<e>> \o r \in Seq(S)
         /\ Len(<<e>> \o r) = Len(r) + 1
         /\ (<<e>> \o r)[1] = e
         /\ \A i \in 1..Len(r) : (<<e>> \o r)[i + 1] = r[i]
<1>1. <<e>> \in Seq(S) /\ Len(<<e>>) = 1 /\ <<e>>[1] = e
  BY SingleFacts
<1> DEFINE q == <<e>>
<1> HIDE DEF q
<1>2. /\ q \o r \in Seq(S)
      /\ Len(q \o r) = 1 + Len(r)
      /\ \A i \in 1..(1 + Len(r)) : (q \o r)[i] = IF i <= 1 THEN q[i] ELSE r[i - 1]
  BY <1>1 DEF q
<1> QED
  BY <1>1, <1>2 DEF q

\* r has elements of s only, in the order of s.
Sub(f, s, r) ==
  /\ f \in [1..Len(r) -> 1..Len(s)]
  /\ \A i, j \in 1..Len(r) : i < j => f[i] < f[j]
  /\ \A i \in 1..Len(r) : r[i] = s[f[i]]

\* A selection is one.
LEMMA SelectSub ==
  ASSUME NEW T, NEW s \in Seq(T), NEW idx
  PROVE  Select(s, idx) \in Seq(T) /\ \E f : Sub(f, s, Select(s, idx))
<1>1. PICK f : Embeds(f, s, idx, Len(s), Select(s, idx))
  BY SelectEmbeds
<1>2. Sub(f, s, Select(s, idx))
  BY <1>1 DEF Embeds, Sub
<1> QED
  BY <1>2, SelectEmbeds

\* The end of a sequence.
LEMMA SuffixFacts ==
  ASSUME NEW T, NEW s \in Seq(T), NEW c \in 0..Len(s)
  PROVE  /\ SubSeq(s, c + 1, Len(s)) \in Seq(T)
         /\ Len(SubSeq(s, c + 1, Len(s))) = Len(s) - c
         /\ \A i \in 1..(Len(s) - c) : SubSeq(s, c + 1, Len(s))[i] = s[c + i]
<1>1. Len(s) \in Nat /\ \A i \in 1..Len(s) : s[i] \in T
  OBVIOUS
<1>2. \A i \in (c + 1)..Len(s) : s[i] \in T
  BY <1>1
<1>3. SubSeq(s, c + 1, Len(s)) = [i \in 1..(Len(s) - c) |-> s[c + i]]
  <2>1. /\ c + 1 \in 1..(Len(s) + 1) /\ Len(s) \in c..Len(s)
    BY <1>1
  <2> QED
    BY <1>1, <2>1
<1>4. Len(s) - c \in Nat
  BY <1>1
<1> QED
  BY <1>1, <1>2, <1>3, <1>4

\* So is the end of a sequence.
LEMMA SuffixSub ==
  ASSUME NEW T, NEW s \in Seq(T), NEW c \in 0..Len(s)
  PROVE  \E f : Sub(f, s, SubSeq(s, c + 1, Len(s)))
<1> DEFINE r == SubSeq(s, c + 1, Len(s))
           f == [i \in 1..(Len(s) - c) |-> c + i]
<1>1. Len(r) = Len(s) - c /\ \A i \in 1..(Len(s) - c) : r[i] = s[c + i]
  BY SuffixFacts
<1>2. Len(s) \in Nat
  OBVIOUS
<1> HIDE DEF r
<1>3. f \in [1..(Len(s) - c) -> 1..Len(s)]
  BY <1>2
<1>4. \A i \in 1..(Len(s) - c) : f[i] = c + i
  OBVIOUS
<1> HIDE DEF f
<1>5. \A i, j \in 1..(Len(s) - c) : i < j => f[i] < f[j]
  BY <1>2, <1>4
<1>6. Sub(f, s, r)
  BY <1>1, <1>3, <1>4, <1>5 DEF Sub
<1> QED
  BY <1>6 DEF r

\* Removing segments leaves the others in order.
LEMMA SubKeeps ==
  ASSUME old \in Seq(Segment), NEW f, Sub(f, old, old'), Behind, FrozenOrdered,
         UNCHANGED active
  PROVE  Behind' /\ FrozenOrdered'
<1>1. /\ f \in [1..Len(old') -> 1..Len(old)]
      /\ \A i, j \in 1..Len(old') : i < j => f[i] < f[j]
      /\ \A i \in 1..Len(old') : old'[i] = old[f[i]]
  BY DEF Sub
<1>2. Behind'
  BY <1>1 DEF Behind, NextOffset
<1>3. FrozenOrdered'
  <2> SUFFICES ASSUME NEW i \in 1..Len(old'), NEW j \in 1..Len(old'),
                      i < j, old'[i].frozen, old'[j].frozen
               PROVE  NextOffset(old'[i]) <= old'[j].base
    BY DEF FrozenOrdered, NextOffset
  <2>1. f[i] \in 1..Len(old) /\ f[j] \in 1..Len(old) /\ f[i] < f[j]
    BY <1>1
  <2>2. old'[i] = old[f[i]] /\ old'[j] = old[f[j]]
    BY <1>1
  <2> QED
    BY <2>1, <2>2 DEF FrozenOrdered
<1> QED
  BY <1>2, <1>3

\* The expirer's scan ends at an expired message that it has read.
LEMMA ScanFinds ==
  ASSUME TypeOK, \E o \in Scanned : Expired(Read(o))
  PROVE  LastExpired \in Scanned /\ LastExpired \in Nat /\ Expired(Read(LastExpired))
<1> DEFINE X == {o \in Scanned : Expired(Read(o))}
<1>1. Scanned \in SUBSET Nat /\ highWater \in Nat /\ \A o \in Scanned : o <= highWater
  <2>1. highWater \in Nat /\ old \in Seq(Segment) /\ active \in Segment
    BY DEF TypeOK
  <2>2. Chain[1] \in Segment
    BY <2>1, ChainFacts
  <2>3. LogStartOffset \in Nat
    BY <2>2 DEF LogStartOffset, Segment
  <2>4. \A o \in Scanned : o \in LogStartOffset..highWater
    BY DEF Scanned
  <2> QED
    BY <2>1, <2>3, <2>4
<1>2. PICK a \in X : \A p \in X : a <= p
  <2>1. X \in SUBSET Nat /\ X # {}
    BY <1>1
  <2> HIDE DEF X
  <2> QED
    BY <2>1, LeastNat
<1>3. /\ FirstExpired \in Scanned
      /\ Expired(Read(FirstExpired))
      /\ \A p \in Scanned : Expired(Read(p)) => FirstExpired <= p
  <2> DEFINE P(x) == /\ Expired(Read(x))
                     /\ \A p \in Scanned : Expired(Read(p)) => x <= p
  <2>1. a \in Scanned /\ P(a)
    BY <1>2
  <2>2. FirstExpired = CHOOSE x \in Scanned : P(x)
    BY DEF FirstExpired
  <2> HIDE DEF P
  <2>3. FirstExpired \in Scanned /\ P(FirstExpired)
    BY <2>1, <2>2
  <2> QED
    BY <2>3 DEF P
<1>4. FirstExpired \in ExpiredRun
  <2>1. FirstExpired \in Nat
    BY <1>1, <1>3
  <2>2. ASSUME NEW p \in Scanned, FirstExpired <= p, p <= FirstExpired PROVE Expired(Read(p))
    <3>1. p = FirstExpired
      BY <1>1, <2>1, <2>2
    <3> QED
      BY <1>3, <3>1
  <2>3. FirstExpired >= FirstExpired
    BY <2>1
  <2> QED
    BY <1>3, <2>2, <2>3 DEF ExpiredRun
<1>5. ExpiredRun \in SUBSET Nat /\ \A o \in ExpiredRun : o <= highWater
  BY <1>1 DEF ExpiredRun
<1>6. \E o \in ExpiredRun : \A p \in ExpiredRun : p <= o
  BY <1>1, <1>4, <1>5, GreatestNat
<1>7. LastExpired \in ExpiredRun
  BY <1>6 DEF LastExpired
<1>8. LastExpired \in Scanned /\ LastExpired \in Nat /\ FirstExpired <= LastExpired
  BY <1>1, <1>3, <1>7 DEF ExpiredRun
<1>9. LastExpired <= LastExpired
  BY <1>8
<1>10. Expired(Read(LastExpired))
  <2>1. \A p \in Scanned : FirstExpired <= p /\ p <= LastExpired => Expired(Read(p))
    BY <1>7 DEF ExpiredRun
  <2> QED
    BY <1>8, <1>9, <2>1
<1> QED
  BY <1>8, <1>10

\* The number of segments that AdvanceLogStart removes.
LEMMA LeadingFacts ==
  ASSUME old \in Seq(Segment), NEW target \in Nat
  PROVE  /\ Leading(target) \in 0..Len(old)
         /\ \A i \in 1..Leading(target) : NextOffset(old[i]) <= target
<1> DEFINE b == Len(old)
           T == {n \in 0..b : n < b => NextOffset(old[n + 1]) > target}
           P(n) == /\ \A i \in 1..n : NextOffset(old[i]) <= target
                   /\ n < b => NextOffset(old[n + 1]) > target
<1>1. b \in Nat
  OBVIOUS
<1>2. ASSUME NEW i \in 1..b PROVE NextOffset(old[i]) \in Nat
  <2>1. old[i] \in Segment
    OBVIOUS
  <2> QED
    BY <2>1, SegmentSpan
<1>3. Leading(target) = CHOOSE n \in 0..b : P(n)
  BY DEF Leading
<1> HIDE DEF b
<1>4. T \in SUBSET Nat /\ b \in T
  BY <1>1
<1>5. PICK n \in T : \A m \in T : n <= m
  <2> HIDE DEF T
  <2> QED
    BY <1>4, LeastNat
<1>6. n \in 0..b /\ P(n)
  <2>1. ASSUME NEW i \in 1..n PROVE NextOffset(old[i]) <= target
    <3>1. i - 1 \in 0..b /\ i - 1 < n /\ (i - 1) + 1 = i /\ i \in 1..b /\ i - 1 \in Nat
      BY <1>1, <1>5
    <3>2. i - 1 \notin T
      BY <1>4, <1>5, <3>1
    <3>3. ~(NextOffset(old[i]) > target)
      BY <3>1, <3>2
    <3>4. NextOffset(old[i]) \in Nat
      BY <1>2, <3>1
    <3> QED
      BY <3>3, <3>4
  <2> QED
    BY <1>5, <2>1
<1>7. Leading(target) \in 0..b /\ P(Leading(target))
  <2> HIDE DEF P
  <2> QED
    BY <1>3, <1>6
<1> QED
  BY <1>7 DEF b
\* Initially there is one empty segment.
LEMMA ChainInit == Init => ChainInv
<1> SUFFICES ASSUME Init PROVE ChainInv
  OBVIOUS
<1>1. OffsetInv
  BY OffsetInit
<1>2. old = <<>> /\ trim = 0 /\ restarts = 0 /\ comp = Idle
  BY DEF Init
<1>3. old \in Seq(Segment) /\ Len(old) = 0
  BY <1>2
<1>4. /\ ~comp.on
      /\ comp \in [on : BOOLEAN, base : Nat, again : BOOLEAN,
                   snap : SUBSET Segment, result : Seq(Record)]
  BY <1>2 DEF Idle
<1>5. restarts \in 0..MaxRestarts /\ trim \in Nat
  BY <1>2, HotAssumption
<1>6. TypeOK
  BY <1>1, <1>3, <1>4, <1>5 DEF TypeOK, OffsetInv, ActiveOK
<1>7. Behind /\ FrozenOrdered
  <2>1. \A i \in 1..Len(old) : FALSE
    BY <1>3
  <2> QED
    BY <2>1 DEF Behind, FrozenOrdered
<1> QED
  BY <1>1, <1>4, <1>6, <1>7 DEF ChainInv, CompFits

\* A rollover freezes the active segment and goes on where it ends.
LEMMA ChainAppend ==
  ASSUME ChainInv, OffsetInv', NEW k \in policy.keys, NEW t \in policy.ttls,
         NEW stamp \in 0..MaxClock, AppendRecord(k, t, stamp)
  PROVE  ChainInv'
<1>1. /\ old \in Seq(Segment) /\ active \in Segment
      /\ trim \in Nat /\ restarts \in 0..MaxRestarts
      /\ comp \in [on : BOOLEAN, base : Nat, again : BOOLEAN,
                   snap : SUBSET Segment, result : Seq(Record)]
  BY DEF ChainInv, TypeOK
<1>2. active.base \in Nat /\ NextOffset(active) \in Nat /\ active.base <= NextOffset(active)
  <2>1. /\ active.base \in Nat /\ Len(active.recs) \in Nat
        /\ NextOffset(active) = active.base + Len(active.recs)
        /\ NextOffset(active) \in Nat
    BY <1>1, SegmentSpan
  <2> QED
    BY <2>1
<1>3. UNCHANGED <<trim, comp, restarts>>
  BY DEF AppendRecord
<1>4. /\ Behind /\ FrozenOrdered /\ CompFits
      /\ policy' \in Policies /\ active' \in Segment /\ highWater' \in Nat
      /\ clock' \in 0..MaxClock /\ log' \in Seq(Record)
  BY DEF ChainInv, OffsetInv, ActiveOK
<1>5. comp.on => comp.base + Len(comp.result) <= active.base
  BY <1>4 DEF CompFits
<1>6. comp.on => comp.base + Len(comp.result) \in Nat
  BY <1>1
<1>7. CASE Full(active)
  <2> DEFINE fz == [active EXCEPT !.frozen = TRUE]
  <2>1. old' = Append(old, fz)
    BY <1>7 DEF AppendRecord
  <2>2. active'.base = NextOffset(active)
    BY <1>7 DEF AppendRecord, RollBase, Fresh
  <2>3. /\ fz \in Segment /\ fz.base = active.base /\ NextOffset(fz) = NextOffset(active)
    BY <1>1, FreezeFacts
  <2> HIDE DEF fz
  <2>4. /\ old' \in Seq(Segment)
        /\ Len(old') = Len(old) + 1
        /\ old'[Len(old) + 1] = fz
        /\ \A i \in 1..Len(old) : old'[i] = old[i]
    BY <1>1, <2>1, <2>3, AppendFacts
  <2>5. ASSUME NEW i \in 1..Len(old) PROVE /\ NextOffset(old[i]) <= active.base
                                           /\ NextOffset(old[i]) \in Nat
    <3>1. old[i] \in Segment
      BY <1>1
    <3> QED
      BY <1>4, <3>1, SegmentSpan DEF Behind
  <2>6. Len(old) \in Nat
    BY <1>1
  <2>7. ASSUME NEW i \in 1..Len(old') PROVE NextOffset(old'[i]) <= active'.base
    <3>1. CASE i = Len(old) + 1
      BY <1>2, <2>2, <2>3, <2>4, <3>1
    <3>2. CASE i # Len(old) + 1
      <4>1. i \in 1..Len(old)
        BY <2>4, <2>6, <3>2
      <4>2. old'[i] = old[i]
        BY <2>4, <4>1
      <4>3. NextOffset(old[i]) <= active.base /\ NextOffset(old[i]) \in Nat
        BY <2>5, <4>1
      <4> QED
        BY <1>2, <2>2, <4>2, <4>3
    <3> QED
      BY <3>1, <3>2
  <2>8. ASSUME NEW i \in 1..Len(old'), NEW j \in 1..Len(old'), i < j,
               old'[i].frozen, old'[j].frozen
        PROVE  NextOffset(old'[i]) <= old'[j].base
    <3>1. i \in 1..Len(old)
      BY <2>4, <2>6, <2>8
    <3>2. old'[i] = old[i]
      BY <2>4, <3>1
    <3>3. CASE j = Len(old) + 1
      <4>1. old'[j].base = active.base
        BY <2>3, <2>4, <3>3
      <4> QED
        BY <2>5, <3>1, <3>2, <4>1
    <3>4. CASE j # Len(old) + 1
      <4>1. j \in 1..Len(old)
        BY <2>4, <2>6, <3>4
      <4>2. old'[j] = old[j]
        BY <2>4, <4>1
      <4> QED
        BY <1>4, <2>8, <3>1, <3>2, <4>1, <4>2 DEF FrozenOrdered
    <3> QED
      BY <3>3, <3>4
  <2>9. Behind' /\ FrozenOrdered'
    BY <2>7, <2>8 DEF Behind, FrozenOrdered, NextOffset
  <2>10. CompFits'
    <3>1. comp.on => comp.base + Len(comp.result) <= active'.base
      BY <1>2, <1>5, <1>6, <2>2
    <3> QED
      BY <1>3, <3>1 DEF CompFits
  <2>11. TypeOK'
    BY <1>1, <1>3, <1>4, <2>4 DEF TypeOK
  <2> QED
    BY <2>9, <2>10, <2>11 DEF ChainInv
<1>8. CASE ~Full(active)
  <2>1. old' = old
    BY <1>8 DEF AppendRecord
  <2>2. active'.base = active.base
    <3>1. active' = [active EXCEPT !.recs = Append(@, [off |-> Len(log), key |-> k,
                                     exp |-> IF t = 0 THEN 0 ELSE stamp + t])]
      BY <1>8 DEF AppendRecord
    <3> QED
      BY <1>1, <3>1 DEF Segment
  <2>3. Behind' /\ FrozenOrdered' /\ CompFits'
    BY <1>3, <1>4, <2>1, <2>2 DEF Behind, FrozenOrdered, CompFits, NextOffset
  <2>4. TypeOK'
    BY <1>1, <1>3, <1>4, <2>1 DEF TypeOK
  <2> QED
    BY <2>3, <2>4 DEF ChainInv
<1> QED
  BY <1>7, <1>8

\* The files of a restart, in terms of the chain before it.
RestartFiles(rolled) == IF rolled THEN Append(old, active) ELSE old

\* A restart loads a part of the files, thawed, behind a new or the old active segment.
LEMMA RestartFacts ==
  ASSUME ChainInv, NEW rolled \in BOOLEAN, Restart(rolled)
  PROVE  LET files == RestartFiles(rolled)
             kept == Loaded(files)
         IN  /\ files \in Seq(Segment)
             /\ kept \in Seq(Segment)
             /\ \E f : Sub(f, files, kept)
             /\ old' \in Seq(Segment) /\ Len(old') = Len(kept)
             /\ \A i \in 1..Len(old') :
                  /\ old'[i] \in Segment
                  /\ old'[i].base = kept[i].base /\ old'[i].recs = kept[i].recs
                  /\ old'[i].compacted = kept[i].compacted /\ old'[i].frozen = FALSE
                  /\ NextOffset(old'[i]) = NextOffset(kept[i])
             /\ active'.base \in Nat /\ active.base <= active'.base
             /\ \A i \in 1..Len(files) : /\ NextOffset(files[i]) \in Nat
                                         /\ NextOffset(files[i]) <= active'.base
<1> DEFINE files == RestartFiles(rolled)
           kept == Loaded(files)
<1>1. old \in Seq(Segment) /\ active \in Segment /\ Behind
  BY DEF ChainInv, TypeOK
<1>2. /\ active.base \in Nat /\ Len(active.recs) \in Nat
      /\ NextOffset(active) = active.base + Len(active.recs)
      /\ NextOffset(active) \in Nat
  BY <1>1, SegmentSpan
<1>3. active'.base = IF rolled THEN NextOffset(active) ELSE active.base
  BY DEF Restart, RollBase, Fresh
<1>4. active'.base \in Nat /\ active.base <= active'.base
  BY <1>2, <1>3
<1>5. files \in Seq(Segment)
  BY <1>1, AppendFacts DEF RestartFiles
<1>6. ASSUME NEW i \in 1..Len(files)
      PROVE  NextOffset(files[i]) \in Nat /\ NextOffset(files[i]) <= active'.base
  <2>1. files[i] \in Segment
    BY <1>5
  <2>2. NextOffset(files[i]) \in Nat
    BY <2>1, SegmentSpan
  <2>3. CASE rolled
    <3>1. files = Append(old, active)
      BY <2>3 DEF RestartFiles
    <3>2. Len(files) = Len(old) + 1 /\ files[Len(old) + 1] = active
          /\ \A j \in 1..Len(old) : files[j] = old[j]
      BY <1>1, <3>1, AppendFacts
    <3> HIDE DEF files
    <3>3. CASE i = Len(old) + 1
      BY <1>2, <1>3, <2>3, <3>2, <3>3
    <3>4. CASE i # Len(old) + 1
      <4>1. Len(old) \in Nat
        BY <1>1
      <4>2. i \in 1..Len(old)
        BY <3>2, <3>4, <4>1
      <4>3. NextOffset(files[i]) <= active.base
        BY <1>1, <3>2, <4>2 DEF Behind
      <4> QED
        BY <1>2, <1>4, <2>2, <4>3
    <3> QED
      BY <2>2, <3>3, <3>4
  <2>4. CASE ~rolled
    <3>1. files = old
      BY <2>4 DEF RestartFiles
    <3> QED
      BY <1>1, <1>3, <2>2, <2>4, <3>1 DEF Behind
  <2> QED
    BY <2>3, <2>4
<1> HIDE DEF files
<1>7. kept \in Seq(Segment) /\ \E f : Sub(f, files, kept)
  BY <1>5, SelectSub DEF Loaded
<1>8. old' = [i \in 1..Len(kept) |-> Thawed(kept[i])]
  BY DEF Restart, RestartFiles, files
<1> HIDE DEF kept
<1>9. ASSUME NEW i \in 1..Len(kept)
      PROVE  /\ old'[i] \in Segment
             /\ old'[i].base = kept[i].base /\ old'[i].recs = kept[i].recs
             /\ old'[i].compacted = kept[i].compacted /\ old'[i].frozen = FALSE
             /\ NextOffset(old'[i]) = NextOffset(kept[i])
  <2>1. kept[i] \in Segment
    BY <1>7
  <2>2. old'[i] = [kept[i] EXCEPT !.frozen = FALSE]
    BY <1>8 DEF Thawed
  <2> QED
    BY <2>1, <2>2, FreezeFacts
<1>10. Len(kept) \in Nat
  BY <1>7
<1>11. old' \in [1..Len(kept) -> Segment]
  BY <1>8, <1>9
<1>12. old' \in Seq(Segment) /\ Len(old') = Len(kept)
  BY <1>10, <1>11
<1> QED
  BY <1>4, <1>5, <1>6, <1>7, <1>9, <1>12 DEF files, kept

\* A restart keeps the order of the files.
LEMMA ChainRestart ==
  ASSUME ChainInv, OffsetInv', NEW rolled \in BOOLEAN, Restart(rolled)
  PROVE  ChainInv'
<1> DEFINE files == RestartFiles(rolled)
           kept == Loaded(files)
<1>1. /\ \E f : Sub(f, files, kept)
      /\ old' \in Seq(Segment) /\ Len(old') = Len(kept)
      /\ \A i \in 1..Len(old') : /\ old'[i].frozen = FALSE
                                 /\ NextOffset(old'[i]) = NextOffset(kept[i])
      /\ \A i \in 1..Len(files) : NextOffset(files[i]) <= active'.base
  BY RestartFacts
<1> HIDE DEF files, kept
<1>2. PICK f : Sub(f, files, kept)
  BY <1>1
<1>3. ASSUME NEW i \in 1..Len(old') PROVE NextOffset(old'[i]) <= active'.base
  <2>1. f[i] \in 1..Len(files) /\ kept[i] = files[f[i]]
    BY <1>1, <1>2 DEF Sub
  <2> QED
    BY <1>1, <2>1
<1>4. Behind' /\ FrozenOrdered'
  BY <1>1, <1>3 DEF Behind, FrozenOrdered, NextOffset
<1>5. comp' = Idle /\ trim' = 0 /\ restarts < MaxRestarts /\ restarts' = restarts + 1
  BY DEF Restart
<1>6. /\ comp' \in [on : BOOLEAN, base : Nat, again : BOOLEAN,
                    snap : SUBSET Segment, result : Seq(Record)]
      /\ ~comp'.on
  BY <1>5 DEF Idle
<1>7. restarts' \in 0..MaxRestarts /\ trim' \in Nat
  BY <1>5, HotAssumption DEF ChainInv, TypeOK
<1>8. TypeOK'
  BY <1>1, <1>6, <1>7 DEF TypeOK, OffsetInv, ActiveOK
<1> QED
  BY <1>4, <1>6, <1>8 DEF ChainInv, CompFits

\* Trimming and retention remove segments.
LEMMA ChainRemove ==
  ASSUME ChainInv, OffsetInv', ScanTrim \/ EnforceRetention
  PROVE  ChainInv' /\ \E f : Sub(f, old, old')
<1>1. old \in Seq(Segment) /\ trim \in Nat /\ restarts \in 0..MaxRestarts
  BY DEF ChainInv, TypeOK
<1>2. old' \in Seq(Segment) /\ \E f : Sub(f, old, old')
  <2>1. CASE ScanTrim
    <3>1. Leading(trim) \in 0..Len(old)
      BY <1>1, LeadingFacts
    <3>2. old' = SubSeq(old, Leading(trim) + 1, Len(old))
      BY <2>1 DEF ScanTrim
    <3> QED
      BY <1>1, <3>1, <3>2, SuffixFacts, SuffixSub
  <2>2. CASE EnforceRetention
    <3>1. PICK n : old' = Select(old, (1..Len(old)) \ Oldest(n))
      BY <2>2 DEF EnforceRetention
    <3> QED
      BY <1>1, <3>1, SelectSub
  <2> QED
    BY <2>1, <2>2
<1>3. UNCHANGED <<policy, active, comp, restarts>> /\ trim' \in Nat
  BY <1>1 DEF ScanTrim, EnforceRetention
<1>4. Behind' /\ FrozenOrdered'
  BY <1>1, <1>2, <1>3, SubKeeps DEF ChainInv
<1>5. CompFits'
  BY <1>3 DEF ChainInv, CompFits
<1>6. TypeOK'
  BY <1>1, <1>2, <1>3 DEF ChainInv, TypeOK, OffsetInv, ActiveOK
<1> QED
  BY <1>2, <1>4, <1>5, <1>6 DEF ChainInv
\* A compaction reads frozen segments, which do not overlap: what it keeps of them fits
\* below the active segment.
LEMMA ChainCompactRead ==
  ASSUME ChainInv, OffsetInv', CompactRead
  PROVE  ChainInv'
<1> DEFINE frozen == Select(old, FrozenAt)
           all == AllRecords(frozen)
           keyless == Select(all, {i \in 1..Len(all) : all[i].key = NoKey})
<1>1. /\ old \in Seq(Segment) /\ active \in Segment /\ trim \in Nat
      /\ restarts \in 0..MaxRestarts /\ Behind /\ FrozenOrdered
  BY DEF ChainInv, TypeOK
<1>2. UNCHANGED <<policy, old, active, trim, restarts>> /\ Cardinality(FrozenAt) >= 2
  BY DEF CompactRead
<1>3. PICK s \in Orders(LatestByKey(all)) :
        comp' = [on |-> TRUE, base |-> frozen[1].base, again |-> frozen[1].compacted,
                 snap |-> Elems(frozen), result |-> keyless \o s]
  BY DEF CompactRead
<1>4. PICK f : Embeds(f, old, FrozenAt, Len(old), frozen)
  BY <1>1, SelectEmbeds
<1>5. frozen \in Seq(Segment)
  BY <1>1, SelectEmbeds
<1>6. Len(frozen) >= 2
  <2>1. FrozenAt \in SUBSET (1..Len(old))
    BY DEF FrozenAt
  <2> QED
    BY <1>1, <1>2, <2>1, SelectLength
<1> HIDE DEF frozen
<1>7. ASSUME NEW i \in 1..Len(frozen)
      PROVE  f[i] \in 1..Len(old) /\ frozen[i] = old[f[i]] /\ frozen[i].frozen
  BY <1>4 DEF Embeds, FrozenAt
<1>8. ASSUME NEW i \in 1..Len(frozen), NEW j \in 1..Len(frozen), i < j
      PROVE  NextOffset(frozen[i]) <= frozen[j].base
  <2>1. f[i] < f[j]
    BY <1>4, <1>8 DEF Embeds
  <2> QED
    BY <1>1, <1>7, <2>1 DEF FrozenOrdered
<1>9. frozen # <<>> /\ Len(frozen) \in Nat
  BY <1>5, <1>6
<1>10. /\ all \in Seq(Record)
       /\ frozen[1].base + Len(all) <= NextOffset(frozen[Len(frozen)])
  BY <1>5, <1>8, <1>9, ReadSpan
<1>11. NextOffset(frozen[Len(frozen)]) <= active.base
  <2>1. Len(frozen) \in 1..Len(frozen)
    BY <1>6, <1>9
  <2> QED
    BY <1>1, <1>7, <2>1 DEF Behind
<1> HIDE DEF all
<1>12. keyless \o s \in Seq(Record) /\ Len(keyless \o s) <= Len(all)
  BY <1>10, ResultFits
<1> DEFINE result == keyless \o s
<1> HIDE DEF result, keyless
<1>13. frozen[1] \in Segment /\ frozen[1].base \in Nat /\ frozen[1].compacted \in BOOLEAN
  <2>1. frozen[1] \in Segment
    BY <1>5, <1>6, <1>9
  <2> QED
    BY <2>1 DEF Segment
<1>14. Elems(frozen) \in SUBSET Segment
  BY <1>5 DEF Elems
<1>15. result \in Seq(Record) /\ Len(result) <= Len(all)
  BY <1>12 DEF result
<1>16. frozen[1].base + Len(result) <= active.base
  <2>1. NextOffset(frozen[Len(frozen)]) \in Nat
    <3>1. frozen[Len(frozen)] \in Segment
      BY <1>5, <1>6, <1>9
    <3> QED
      BY <3>1, SegmentSpan
  <2>2. active.base \in Nat
    BY <1>1, SegmentSpan
  <2>3. Len(result) \in Nat /\ Len(all) \in Nat
    BY <1>10, <1>15
  <2> QED
    BY <1>10, <1>11, <1>13, <1>15, <2>1, <2>2, <2>3
<1>17. comp' = [on |-> TRUE, base |-> frozen[1].base, again |-> frozen[1].compacted,
                snap |-> Elems(frozen), result |-> result]
  BY <1>3 DEF result
<1>18. comp' \in [on : BOOLEAN, base : Nat, again : BOOLEAN,
                  snap : SUBSET Segment, result : Seq(Record)]
  BY <1>13, <1>14, <1>15, <1>17
<1>19. CompFits'
  BY <1>2, <1>16, <1>17 DEF CompFits
<1>20. Behind' /\ FrozenOrdered'
  BY <1>1, <1>2 DEF Behind, FrozenOrdered, NextOffset
<1>21. TypeOK'
  BY <1>1, <1>2, <1>18 DEF ChainInv, TypeOK, OffsetInv, ActiveOK
<1> QED
  BY <1>19, <1>20, <1>21 DEF ChainInv

\* The compacted segment comes first, and no other one that is left is frozen.
LEMMA ChainCompactSwap ==
  ASSUME ChainInv, OffsetInv', CompactSwap
  PROVE  ChainInv'
<1> DEFINE rest == Select(old, (1..Len(old)) \ FrozenAt)
           rs == IF comp.again /\ \E i \in FrozenAt : /\ old[i].compacted
                                                      /\ old[i].base = comp.base
                 THEN <<>> ELSE comp.result
           seg == [base |-> comp.base, frozen |-> TRUE, compacted |-> TRUE, recs |-> rs]
<1>1. /\ old \in Seq(Segment) /\ active \in Segment /\ trim \in Nat
      /\ restarts \in 0..MaxRestarts /\ Behind /\ CompFits
      /\ comp.base \in Nat /\ comp.result \in Seq(Record)
  BY DEF ChainInv, TypeOK
<1>2. UNCHANGED <<policy, active, trim, restarts>> /\ comp' = Idle /\ comp.on
  BY DEF CompactSwap
<1>3. old' = <<seg>> \o rest
  BY DEF CompactSwap, Swapped
<1>4. rs \in Seq(Record) /\ Len(rs) <= Len(comp.result)
  <2>1. Len(comp.result) \in Nat /\ Len(<<>>) = 0 /\ <<>> \in Seq(Record)
    BY <1>1
  <2> QED
    BY <1>1, <2>1
<1>5. PICK f : Embeds(f, old, (1..Len(old)) \ FrozenAt, Len(old), rest)
  BY <1>1, SelectEmbeds
<1>6. rest \in Seq(Segment)
  BY <1>1, SelectEmbeds
<1> HIDE DEF rest, rs
<1>7. seg \in Segment /\ seg.base = comp.base /\ seg.recs = rs
  BY <1>1, <1>4 DEF Segment
<1> HIDE DEF seg
<1>8. /\ old' \in Seq(Segment)
      /\ Len(old') = Len(rest) + 1
      /\ old'[1] = seg
      /\ \A i \in 1..Len(rest) : old'[i + 1] = rest[i]
  BY <1>3, <1>6, <1>7, ConsFacts
<1>9. ASSUME NEW i \in 1..Len(rest)
      PROVE  f[i] \in 1..Len(old) /\ rest[i] = old[f[i]] /\ ~rest[i].frozen
  BY <1>5 DEF Embeds, FrozenAt
<1>10. ASSUME NEW i \in 1..Len(old'), i # 1
       PROVE  i - 1 \in 1..Len(rest) /\ old'[i] = rest[i - 1]
  <2>1. i - 1 \in 1..Len(rest) /\ (i - 1) + 1 = i
    BY <1>6, <1>8, <1>10
  <2> QED
    BY <1>8, <2>1
<1>11. ASSUME NEW i \in 1..Len(old') PROVE NextOffset(old'[i]) <= active.base
  <2>1. CASE i = 1
    <3>1. NextOffset(seg) = comp.base + Len(rs)
      BY <1>7 DEF NextOffset
    <3>2. comp.base + Len(comp.result) <= active.base
      BY <1>1, <1>2 DEF CompFits
    <3>3. active.base \in Nat /\ Len(rs) \in Nat /\ Len(comp.result) \in Nat
      BY <1>1, <1>4, SegmentSpan
    <3>4. comp.base + Len(rs) <= active.base
      BY <1>1, <1>4, <3>2, <3>3
    <3> QED
      BY <1>8, <2>1, <3>1, <3>4
  <2>2. CASE i # 1
    <3>1. i - 1 \in 1..Len(rest) /\ old'[i] = rest[i - 1]
      BY <1>10, <2>2
    <3>2. f[i - 1] \in 1..Len(old) /\ rest[i - 1] = old[f[i - 1]]
      BY <1>9, <3>1
    <3> QED
      BY <1>1, <3>1, <3>2 DEF Behind
  <2> QED
    BY <2>1, <2>2
<1>12. ASSUME NEW i \in 1..Len(old'), NEW j \in 1..Len(old'), i < j PROVE ~old'[j].frozen
  <2>1. j # 1
    BY <1>12
  <2>2. j - 1 \in 1..Len(rest) /\ old'[j] = rest[j - 1]
    BY <1>10, <2>1
  <2> QED
    BY <1>9, <2>2
<1>13. Behind' /\ FrozenOrdered'
  BY <1>2, <1>11, <1>12 DEF Behind, FrozenOrdered, NextOffset
<1>14. /\ comp' \in [on : BOOLEAN, base : Nat, again : BOOLEAN,
                     snap : SUBSET Segment, result : Seq(Record)]
       /\ ~comp'.on
  BY <1>2 DEF Idle
<1>15. TypeOK'
  BY <1>1, <1>2, <1>8, <1>14 DEF ChainInv, TypeOK, OffsetInv, ActiveOK
<1> QED
  BY <1>13, <1>14, <1>15 DEF ChainInv, CompFits

\* Every step keeps the chain in order.
LEMMA ChainStep == ChainInv /\ [Next]_vars => ChainInv'
<1> SUFFICES ASSUME ChainInv, [Next]_vars PROVE ChainInv'
  OBVIOUS
<1>1. OffsetInv'
  BY OffsetStep DEF ChainInv
<1>2. CASE \E k \in policy.keys, t \in policy.ttls, stamp \in 0..MaxClock :
            AppendRecord(k, t, stamp)
  BY <1>1, <1>2, ChainAppend
<1>3. CASE \E rolled \in BOOLEAN : Restart(rolled)
  BY <1>1, <1>3, ChainRestart
<1>4. CASE ScanTrim \/ EnforceRetention
  BY <1>1, <1>4, ChainRemove
<1>5. CASE CompactRead
  BY <1>1, <1>5, ChainCompactRead
<1>6. CASE CompactSwap
  BY <1>1, <1>6, ChainCompactSwap
<1>7. CASE Tick \/ ScanRead \/ UNCHANGED vars
  <2>1. UNCHANGED <<policy, old, active, comp, restarts>>
    BY <1>7 DEF Tick, ScanRead, vars
  <2>2. trim' \in Nat
    <3>1. CASE ScanRead
      <4>1. LastExpired \in Nat
        BY <3>1, ScanFinds DEF ScanRead, ChainInv
      <4> QED
        BY <3>1, <4>1 DEF ScanRead
    <3>2. CASE Tick \/ UNCHANGED vars
      BY <3>2 DEF Tick, vars, ChainInv, TypeOK
    <3> QED
      BY <1>7, <3>1, <3>2
  <2>3. Behind' /\ FrozenOrdered' /\ CompFits'
    BY <2>1 DEF ChainInv, Behind, FrozenOrdered, CompFits, NextOffset
  <2>4. TypeOK'
    BY <1>1, <2>1, <2>2 DEF ChainInv, TypeOK, OffsetInv, ActiveOK
  <2> QED
    BY <1>1, <2>3, <2>4 DEF ChainInv
<1> QED
  BY <1>2, <1>3, <1>4, <1>5, <1>6, <1>7 DEF Next

\* The binary search finds the active segment for each of its offsets.
LEMMA ActiveFound ==
  ASSUME ChainInv, NEW o \in Nat, Covers(active, o)
  PROVE  Read(o) = active.recs[o - active.base + 1]
<1>1. old \in Seq(Segment) /\ active \in Segment /\ Behind
  BY DEF ChainInv, TypeOK
<1>2. /\ Chain \in Seq(Segment)
      /\ Len(Chain) = Len(old) + 1
      /\ Chain[Len(old) + 1] = active
      /\ \A i \in 1..Len(old) : Chain[i] = old[i]
  BY <1>1, ChainFacts
<1> DEFINE ch == Chain
           k == Len(old) + 1
<1>3. k \in 1..Len(ch) /\ Len(ch) = k /\ k # 0
  BY <1>1, <1>2
<1>4. Covers(ch[k], o)
  BY <1>2
<1>5. ASSUME NEW i \in 1..(k - 1) PROVE NextOffset(ch[i]) <= o
  <2>1. i \in 1..Len(old)
    BY <1>1
  <2>2. old[i] \in Segment
    BY <1>1, <2>1
  <2>3. NextOffset(old[i]) \in Nat /\ active.base \in Nat
    BY <1>1, <2>2, SegmentSpan
  <2>4. NextOffset(old[i]) <= active.base /\ active.base <= o
    BY <1>1, <2>1 DEF Behind, Covers
  <2>5. NextOffset(old[i]) <= o
    BY <2>3, <2>4
  <2> QED
    BY <1>2, <2>1, <2>5
<1>6. ASSUME NEW i \in (k + 1)..Len(ch) PROVE FALSE
  BY <1>1, <1>2
<1>7. ch \in Seq(Segment)
  BY <1>2
<1>8. FindSegment(o) = Search(ch, o)[<<1, Len(ch)>>]
  BY DEF FindSegment
<1>9. ch[k] = active
  BY <1>2
<1>12. Read(o) = IF FindSegment(o) = 0 THEN NoRecord
                 ELSE ch[FindSegment(o)].recs[o - ch[FindSegment(o)].base + 1]
  BY DEF Read
<1> HIDE DEF ch, k
<1>10. Search(ch, o)[<<1, Len(ch)>>] = k
  BY <1>3, <1>4, <1>5, <1>6, <1>7, SearchFinds
<1>11. FindSegment(o) = k
  BY <1>8, <1>10
<1> QED
  BY <1>3, <1>9, <1>11, <1>12

\* The invariant says what Read finds in the active segment.
LEMMA ChainReads == ChainInv => ActiveReadable
<1> SUFFICES ASSUME ChainInv, NEW i \in 1..Len(active.recs)
             PROVE  /\ Read(active.base + i - 1) = log[active.base + i]
                    /\ active.recs[i] = log[active.base + i]
  BY DEF ActiveReadable
<1>1. active.recs[i] = log[active.base + i]
  BY DEF ChainInv, OffsetInv, ActiveIsTail
<1>2. /\ active.base \in Nat /\ Len(active.recs) \in Nat
      /\ NextOffset(active) = active.base + Len(active.recs)
  BY SegmentSpan DEF ChainInv, TypeOK
<1> DEFINE o == active.base + i - 1
<1>3. o \in Nat /\ Covers(active, o) /\ o - active.base + 1 = i
  BY <1>2 DEF Covers
<1> HIDE DEF o
<1>4. Read(o) = active.recs[i]
  BY <1>3, ActiveFound
<1> QED
  BY <1>1, <1>4 DEF o

\* Every variable keeps its type.
THEOREM TypeCorrect == Spec => []TypeOK
<1>1. ChainInv => TypeOK
  BY DEF ChainInv
<1> QED
  BY ChainInit, ChainStep, <1>1, PTL DEF Spec

\* Partition.Read finds every message of the active segment at the offset Append
\* returned, whatever expiry, retention, compaction or a restart did to the segments in
\* front of it: none of them ever reaches into the active segment's offsets.
THEOREM ActiveReads == Spec => []ActiveReadable
BY ChainInit, ChainStep, ChainReads, PTL DEF Spec
-----------------------------------------------------------------------------
\* A topic that is not compacted.

\* Nothing was ever compacted.
Uncompacted ==
  ~comp.on /\ ~active.compacted /\ \A i \in 1..Len(old) : ~old[i].compacted

\* No segment overlaps another.
Ascending ==
  \A i, j \in 1..Len(old) : i < j => NextOffset(old[i]) <= old[j].base

\* Each segment has the messages that were appended at its offsets.
OldIsLog ==
  \A i \in 1..Len(old) : \A j \in 1..Len(old[i].recs) : old[i].recs[j] = log[old[i].base + j]

\* Until the first restart every segment before the active one is frozen.
AllFrozen == restarts = 0 => \A i \in 1..Len(old) : old[i].frozen

\* Retention has no limit to enforce, or finds only frozen segments.
FromTheFront == restarts = 0 \/ policy.maxSegments + policy.maxSize = 0

\* Each segment starts where the one before it ends.
Joined ==
  FromTheFront =>
    \A i \in 1..Len(old) :
      NextOffset(old[i]) = IF i = Len(old) THEN active.base ELSE old[i + 1].base

PlainInv == ~policy.compact => Uncompacted /\ Ascending /\ OldIsLog /\ AllFrozen /\ Joined

\* The message before the offset that the expirer is about to trim to has expired.
Doomed == ~policy.compact /\ trim > 0 => trim <= Len(log) /\ Expired(log[trim])

\* Initially there is only the active segment.
LEMMA PlainInit == Init => PlainInv
<1> SUFFICES ASSUME Init PROVE PlainInv
  OBVIOUS
<1>1. old = <<>> /\ comp = Idle /\ active = Fresh(0)
  BY DEF Init
<1>2. \A i \in 1..Len(old) : FALSE
  BY <1>1
<1>3. ~comp.on /\ ~active.compacted
  BY <1>1 DEF Idle, Fresh
<1> QED
  BY <1>2, <1>3 DEF PlainInv, Uncompacted, Ascending, OldIsLog, AllFrozen, Joined

\* Facts of the invariants about one segment.
LEMMA OldSegment ==
  ASSUME ChainInv, NEW i \in 1..Len(old)
  PROVE  /\ old[i] \in Segment
         /\ old[i].base \in Nat /\ Len(old[i].recs) \in Nat
         /\ NextOffset(old[i]) = old[i].base + Len(old[i].recs)
         /\ NextOffset(old[i]) \in Nat
         /\ NextOffset(old[i]) <= active.base
         /\ active.base \in Nat /\ active.base <= Len(log)
         /\ \A j \in 1..Len(old[i].recs) : old[i].base + j \in 1..Len(log)
<1>1. old[i] \in Segment /\ active \in Segment
  BY DEF ChainInv, TypeOK
<1>2. /\ old[i].base \in Nat /\ Len(old[i].recs) \in Nat
      /\ NextOffset(old[i]) = old[i].base + Len(old[i].recs)
      /\ NextOffset(old[i]) \in Nat
  BY <1>1, SegmentSpan
<1>3. /\ active.base \in Nat /\ Len(active.recs) \in Nat
      /\ NextOffset(active) = active.base + Len(active.recs)
  BY <1>1, SegmentSpan
<1>4. NextOffset(old[i]) <= active.base
  BY DEF ChainInv, Behind
<1>5. NextOffset(active) = Len(log)
  BY DEF ChainInv, OffsetInv, OffsetsNeverReused
<1>6. active.base <= Len(log) /\ Len(log) \in Nat
  BY <1>3, <1>5
<1>7. ASSUME NEW j \in 1..Len(old[i].recs) PROVE old[i].base + j \in 1..Len(log)
  <2> DEFINE b == old[i].base
             n == Len(old[i].recs)
  <2>1. b \in Nat /\ n \in Nat /\ b + n <= active.base /\ j \in 1..n
    BY <1>2, <1>4
  <2> HIDE DEF b, n
  <2>2. b + j \in 1..Len(log)
    BY <1>3, <1>6, <2>1
  <2> QED
    BY <2>2 DEF b
<1> QED
  BY <1>1, <1>2, <1>3, <1>4, <1>6, <1>7

\* What the messages of a segment are does not change when the log grows.
LEMMA OldIsLogKept ==
  ASSUME ChainInv, OldIsLog, \A m \in 1..Len(log) : log'[m] = log[m],
         NEW i \in 1..Len(old), NEW j \in 1..Len(old[i].recs)
  PROVE  old[i].recs[j] = log'[old[i].base + j]
<1>1. old[i].base + j \in 1..Len(log)
  BY OldSegment
<1>2. old[i].recs[j] = log[old[i].base + j]
  BY DEF OldIsLog
<1> QED
  BY <1>1, <1>2

\* Appending adds at the end of the history only.
LEMMA LogGrows ==
  ASSUME ChainInv, OffsetInv', NEW k, NEW t, NEW stamp,
         AppendRecord(k, t, stamp)
  PROVE  \A m \in 1..Len(log) : log'[m] = log[m]
<1> DEFINE rec == [off |-> Len(log), key |-> k, exp |-> IF t = 0 THEN 0 ELSE stamp + t]
<1>1. log' = Append(log, rec)
  BY DEF AppendRecord
<1>2. log \in Seq(Record)
  BY DEF ChainInv, TypeOK
<1> HIDE DEF rec
<1> QED
  BY <1>1, <1>2

\* A rollover adds the active segment to the old ones.
LEMMA PlainAppend ==
  ASSUME ChainInv, PlainInv, OffsetInv', ~policy.compact,
         NEW k \in policy.keys, NEW t \in policy.ttls,
         NEW stamp \in 0..MaxClock, AppendRecord(k, t, stamp)
  PROVE  PlainInv'
<1>1. Uncompacted /\ Ascending /\ OldIsLog /\ AllFrozen /\ Joined
  BY DEF PlainInv
<1>2. old \in Seq(Segment) /\ active \in Segment /\ Len(old) \in Nat
  BY DEF ChainInv, TypeOK
<1>3. /\ active.base \in Nat /\ Len(active.recs) \in Nat
      /\ NextOffset(active) = active.base + Len(active.recs)
      /\ NextOffset(active) = Len(log)
  BY <1>2, SegmentSpan DEF ChainInv, OffsetInv, OffsetsNeverReused
<1>4. UNCHANGED <<policy, comp, restarts>>
  BY DEF AppendRecord
<1>5. \A m \in 1..Len(log) : log'[m] = log[m]
  BY LogGrows
<1>6. ASSUME NEW i \in 1..Len(old), NEW j \in 1..Len(old[i].recs)
      PROVE  old[i].recs[j] = log'[old[i].base + j]
  BY <1>1, <1>5, OldIsLogKept
<1>7. CASE Full(active)
  <2> DEFINE fz == [active EXCEPT !.frozen = TRUE]
             n == Len(old) + 1
  <2>1. old' = Append(old, fz)
    BY <1>7 DEF AppendRecord
  <2>2. active'.base = NextOffset(active) /\ active'.compacted = FALSE
    BY <1>7 DEF AppendRecord, RollBase, Fresh
  <2>3. /\ fz \in Segment /\ fz.base = active.base /\ NextOffset(fz) = NextOffset(active)
        /\ fz.recs = active.recs /\ fz.compacted = active.compacted /\ fz.frozen
    BY <1>2, FreezeFacts
  <2> HIDE DEF fz
  <2>4. /\ Len(old') = n
        /\ old'[n] = fz
        /\ \A i \in 1..Len(old) : old'[i] = old[i]
    BY <1>2, <2>1, <2>3, AppendFacts
  <2>5. ASSUME NEW i \in 1..n PROVE i = n \/ (i \in 1..Len(old) /\ old'[i] = old[i])
    BY <1>2, <2>4
  <2>6. Uncompacted'
    BY <1>1, <1>4, <2>2, <2>3, <2>4, <2>5 DEF Uncompacted
  <2>7. AllFrozen'
    BY <1>1, <1>4, <2>3, <2>4, <2>5 DEF AllFrozen
  <2>8. Ascending'
    <3> SUFFICES ASSUME NEW i \in 1..n, NEW j \in 1..n, i < j
                 PROVE  NextOffset(old'[i]) <= old'[j].base
      BY <2>4 DEF Ascending, NextOffset
    <3>1. i \in 1..Len(old)
      BY <1>2
    <3>2. old'[i] = old[i]
      BY <2>4, <3>1
    <3>3. CASE j = n
      BY <2>3, <2>4, <3>1, <3>2, <3>3 DEF ChainInv, Behind
    <3>4. CASE j # n
      BY <1>1, <2>5, <3>1, <3>2, <3>4 DEF Ascending
    <3> QED
      BY <3>3, <3>4
  <2>9. OldIsLog'
    <3> SUFFICES ASSUME NEW i \in 1..n, NEW j \in 1..Len(old'[i].recs)
                 PROVE  old'[i].recs[j] = log'[old'[i].base + j]
      BY <2>4 DEF OldIsLog
    <3>1. CASE i = n
      <4>1. old'[i].base = active.base /\ old'[i].recs = active.recs
        BY <2>3, <2>4, <3>1
      <4>2. j \in 1..Len(active.recs)
        BY <4>1
      <4>3. active.recs[j] = log[active.base + j]
        BY <4>2 DEF ChainInv, OffsetInv, ActiveIsTail
      <4>4. active.base + j \in 1..Len(log)
        BY <1>3, <4>2
      <4> QED
        BY <1>5, <4>1, <4>3, <4>4
    <3>2. CASE i # n
      <4>1. i \in 1..Len(old) /\ old'[i] = old[i]
        BY <2>5, <3>2
      <4> QED
        BY <1>6, <4>1
    <3> QED
      BY <3>1, <3>2
  <2>10. Joined'
    <3> SUFFICES ASSUME FromTheFront, NEW i \in 1..n
                 PROVE  NextOffset(old'[i]) = IF i = n THEN active'.base ELSE old'[i + 1].base
      BY <1>4, <2>4 DEF Joined, FromTheFront, NextOffset
    <3>1. CASE i = n
      BY <2>2, <2>3, <2>4, <3>1
    <3>2. CASE i # n
      <4>1. i \in 1..Len(old) /\ old'[i] = old[i]
        BY <2>5, <3>2
      <4>2. NextOffset(old[i]) = IF i = Len(old) THEN active.base ELSE old[i + 1].base
        BY <1>1, <4>1 DEF Joined
      <4>3. CASE i = Len(old)
        BY <2>3, <2>4, <3>2, <4>1, <4>2, <4>3
      <4>4. CASE i # Len(old)
        <5>1. i + 1 \in 1..Len(old)
          BY <1>2, <4>1, <4>4
        <5>2. old'[i + 1] = old[i + 1]
          BY <2>4, <5>1
        <5> QED
          BY <3>2, <4>1, <4>2, <4>4, <5>2
      <4> QED
        BY <4>3, <4>4
    <3> QED
      BY <3>1, <3>2
  <2> QED
    BY <2>6, <2>7, <2>8, <2>9, <2>10 DEF PlainInv
<1>8. CASE ~Full(active)
  <2>1. old' = old
    BY <1>8 DEF AppendRecord
  <2>2. active'.base = active.base /\ active'.compacted = active.compacted
    <3>1. active' = [active EXCEPT !.recs = Append(@, [off |-> Len(log), key |-> k,
                                     exp |-> IF t = 0 THEN 0 ELSE stamp + t])]
      BY <1>8 DEF AppendRecord
    <3> QED
      BY <1>2, <3>1 DEF Segment
  <2>3. OldIsLog'
    BY <1>6, <2>1 DEF OldIsLog
  <2>4. Uncompacted' /\ Ascending' /\ AllFrozen' /\ Joined'
    BY <1>1, <1>4, <2>1, <2>2
       DEF Uncompacted, Ascending, AllFrozen, Joined, FromTheFront, NextOffset
  <2> QED
    BY <2>3, <2>4 DEF PlainInv
<1> QED
  BY <1>7, <1>8

\* A restart loads every file of a topic that is not compacted.
LEMMA PlainFiles ==
  ASSUME ChainInv, PlainInv, ~policy.compact, NEW rolled \in BOOLEAN, Restart(rolled)
  PROVE  LET files == RestartFiles(rolled)
         IN  /\ Len(old') = Len(files)
             /\ \A i \in 1..Len(files) :
                  /\ files[i] \in Segment
                  /\ ~files[i].compacted
                  /\ old'[i].base = files[i].base /\ old'[i].recs = files[i].recs
                  /\ ~old'[i].compacted
                  /\ NextOffset(old'[i]) = NextOffset(files[i])
<1> DEFINE files == RestartFiles(rolled)
           kept == Loaded(files)
<1>1. /\ files \in Seq(Segment) /\ Len(old') = Len(kept)
      /\ \A i \in 1..Len(old') :
           /\ old'[i].base = kept[i].base /\ old'[i].recs = kept[i].recs
           /\ old'[i].compacted = kept[i].compacted
           /\ NextOffset(old'[i]) = NextOffset(kept[i])
  BY RestartFacts
<1>2. Uncompacted /\ old \in Seq(Segment) /\ active \in Segment
  BY DEF PlainInv, ChainInv, TypeOK
<1>3. ASSUME NEW i \in 1..Len(files) PROVE ~files[i].compacted
  <2>1. CASE rolled
    <3>1. files = Append(old, active)
      BY <2>1 DEF RestartFiles
    <3>2. /\ Len(files) = Len(old) + 1 /\ files[Len(old) + 1] = active
          /\ \A j \in 1..Len(old) : files[j] = old[j]
      BY <1>2, <3>1, AppendFacts
    <3>3. Len(old) \in Nat
      BY <1>2
    <3> HIDE DEF files
    <3>4. i = Len(old) + 1 \/ i \in 1..Len(old)
      BY <3>2, <3>3
    <3> QED
      BY <1>2, <3>2, <3>4 DEF Uncompacted
  <2>2. CASE ~rolled
    BY <1>2, <2>2 DEF RestartFiles, Uncompacted
  <2> QED
    BY <2>1, <2>2
<1> HIDE DEF files
<1> DEFINE idx == {i \in 1..Len(files) : ~files[i].compacted}
<1>4. kept = Select(files, idx)
  BY DEF Loaded
<1>5. \A m \in 1..Len(files) : m \in idx <=> m > 0
  BY <1>3
<1>6. 0 \in 0..Len(files) /\ Len(files) \in Nat
  BY <1>1
<1> HIDE DEF idx, kept
<1>7. /\ Len(kept) = Len(files) - 0
      /\ \A i \in 1..(Len(files) - 0) : kept[i] = files[0 + i]
  BY <1>1, <1>4, <1>5, <1>6, SelectSuffix
<1>8. Len(kept) = Len(files) /\ \A i \in 1..Len(files) : kept[i] = files[i]
  BY <1>6, <1>7
<1>9. \A i \in 1..Len(files) : files[i] \in Segment
  BY <1>1
<1> QED
  BY <1>1, <1>3, <1>8, <1>9 DEF files

\* A restart keeps all segments and thaws them.
LEMMA PlainRestart ==
  ASSUME ChainInv, PlainInv, OffsetInv', ~policy.compact,
         NEW rolled \in BOOLEAN, Restart(rolled)
  PROVE  PlainInv'
<1>1. Uncompacted /\ Ascending /\ OldIsLog /\ Joined
  BY DEF PlainInv
<1>2. old \in Seq(Segment) /\ active \in Segment /\ Len(old) \in Nat /\ restarts \in Nat
  BY DEF ChainInv, TypeOK
<1>3. UNCHANGED <<policy, log>> /\ comp' = Idle /\ restarts' = restarts + 1
  BY DEF Restart
<1>4. ~comp'.on /\ restarts' # 0
  BY <1>2, <1>3 DEF Idle
<1>5. CASE ~rolled
  <2>1. RestartFiles(rolled) = old
    BY <1>5 DEF RestartFiles
  <2>2. /\ Len(old') = Len(old)
        /\ \A i \in 1..Len(old) :
             /\ old'[i].base = old[i].base /\ old'[i].recs = old[i].recs
             /\ ~old'[i].compacted
             /\ NextOffset(old'[i]) = NextOffset(old[i])
    BY <2>1, PlainFiles
  <2>3. active' = active
    BY <1>5 DEF Restart
  <2>4. Uncompacted'
    BY <1>1, <1>4, <2>2, <2>3 DEF Uncompacted
  <2>5. Ascending'
    BY <1>1, <2>2 DEF Ascending, NextOffset
  <2>6. OldIsLog'
    <3> SUFFICES ASSUME NEW i \in 1..Len(old), NEW j \in 1..Len(old'[i].recs)
                 PROVE  old'[i].recs[j] = log[old'[i].base + j]
      BY <1>3, <2>2 DEF OldIsLog
    <3>1. old'[i].base = old[i].base /\ old'[i].recs = old[i].recs
      BY <2>2
    <3>2. j \in 1..Len(old[i].recs)
      BY <3>1
    <3>3. old[i].recs[j] = log[old[i].base + j]
      BY <1>1, <3>2 DEF OldIsLog
    <3> QED
      BY <3>1, <3>3
  <2>7. AllFrozen'
    BY <1>4 DEF AllFrozen
  <2>8. Joined'
    <3> SUFFICES ASSUME FromTheFront, NEW i \in 1..Len(old)
                 PROVE  NextOffset(old'[i])
                          = IF i = Len(old) THEN active.base ELSE old'[i + 1].base
      BY <1>3, <1>4, <2>2, <2>3 DEF Joined, FromTheFront, NextOffset
    <3>1. NextOffset(old[i]) = IF i = Len(old) THEN active.base ELSE old[i + 1].base
      BY <1>1 DEF Joined
    <3>2. i # Len(old) => i + 1 \in 1..Len(old)
      BY <1>2
    <3> QED
      BY <2>2, <3>1, <3>2
  <2> QED
    BY <2>4, <2>5, <2>6, <2>7, <2>8 DEF PlainInv
<1>6. CASE rolled
  <2> DEFINE n == Len(old) + 1
             files == RestartFiles(rolled)
  <2>1. files = Append(old, active)
    BY <1>6 DEF RestartFiles
  <2>2. /\ Len(files) = n /\ files[n] = active
        /\ \A i \in 1..Len(old) : files[i] = old[i]
    BY <1>2, <2>1, AppendFacts
  <2>3. /\ Len(old') = Len(files)
        /\ \A i \in 1..Len(files) :
             /\ old'[i].base = files[i].base /\ old'[i].recs = files[i].recs
             /\ ~old'[i].compacted
             /\ NextOffset(old'[i]) = NextOffset(files[i])
    BY PlainFiles
  <2>4. active'.base = NextOffset(active) /\ ~active'.compacted
    BY <1>6 DEF Restart, RollBase, Fresh
  <2> HIDE DEF files
  <2>5. /\ Len(old') = n
        /\ \A i \in 1..n : ~old'[i].compacted
        /\ /\ old'[n].base = active.base /\ old'[n].recs = active.recs
           /\ NextOffset(old'[n]) = NextOffset(active)
        /\ \A i \in 1..Len(old) :
             /\ old'[i].base = old[i].base /\ old'[i].recs = old[i].recs
             /\ NextOffset(old'[i]) = NextOffset(old[i])
    <3>1. n \in 1..n /\ \A i \in 1..Len(old) : i \in 1..n
      BY <1>2
    <3> QED
      BY <2>2, <2>3, <3>1
  <2>6. ASSUME NEW i \in 1..n PROVE i = n \/ i \in 1..Len(old)
    BY <1>2
  <2>7. Uncompacted'
    BY <1>4, <2>4, <2>5 DEF Uncompacted
  <2>8. AllFrozen'
    BY <1>4 DEF AllFrozen
  <2>9. Ascending'
    <3> SUFFICES ASSUME NEW i \in 1..n, NEW j \in 1..n, i < j
                 PROVE  NextOffset(old'[i]) <= old'[j].base
      BY <2>5 DEF Ascending, NextOffset
    <3>1. i \in 1..Len(old)
      BY <1>2
    <3>2. NextOffset(old'[i]) = NextOffset(old[i])
      BY <2>5, <3>1
    <3>3. CASE j = n
      BY <2>5, <3>1, <3>2, <3>3 DEF ChainInv, Behind
    <3>4. CASE j # n
      <4>1. j \in 1..Len(old)
        BY <2>6, <3>4
      <4> QED
        BY <1>1, <2>5, <3>1, <3>2, <4>1 DEF Ascending
    <3> QED
      BY <3>3, <3>4
  <2>10. OldIsLog'
    <3> SUFFICES ASSUME NEW i \in 1..n, NEW j \in 1..Len(old'[i].recs)
                 PROVE  old'[i].recs[j] = log[old'[i].base + j]
      BY <1>3, <2>5 DEF OldIsLog
    <3>1. CASE i = n
      <4>1. old'[i].base = active.base /\ old'[i].recs = active.recs
        BY <2>5, <3>1
      <4>2. j \in 1..Len(active.recs)
        BY <4>1
      <4>3. active.recs[j] = log[active.base + j]
        BY <4>2 DEF ChainInv, OffsetInv, ActiveIsTail
      <4> QED
        BY <4>1, <4>3
    <3>2. CASE i # n
      <4>1. i \in 1..Len(old)
        BY <2>6, <3>2
      <4>2. old'[i].base = old[i].base /\ old'[i].recs = old[i].recs
        BY <2>5, <4>1
      <4>3. j \in 1..Len(old[i].recs)
        BY <4>2
      <4>4. old[i].recs[j] = log[old[i].base + j]
        BY <1>1, <4>1, <4>3 DEF OldIsLog
      <4> QED
        BY <4>2, <4>4
    <3> QED
      BY <3>1, <3>2
  <2>11. Joined'
    <3> SUFFICES ASSUME FromTheFront, NEW i \in 1..n
                 PROVE  NextOffset(old'[i]) = IF i = n THEN active'.base ELSE old'[i + 1].base
      BY <1>3, <1>4, <2>5 DEF Joined, FromTheFront, NextOffset
    <3>1. CASE i = n
      BY <2>4, <2>5, <3>1
    <3>2. CASE i # n
      <4>1. i \in 1..Len(old) /\ i + 1 \in 1..n
        BY <1>2, <3>2
      <4>2. NextOffset(old[i]) = IF i = Len(old) THEN active.base ELSE old[i + 1].base
        BY <1>1, <4>1 DEF Joined
      <4>3. NextOffset(old'[i]) = NextOffset(old[i])
        BY <2>5, <4>1
      <4>4. CASE i = Len(old)
        BY <2>5, <3>2, <4>2, <4>3, <4>4
      <4>5. CASE i # Len(old)
        <5>1. i + 1 \in 1..Len(old)
          BY <1>2, <4>1, <4>5
        <5>2. old'[i + 1].base = old[i + 1].base
          BY <2>5, <5>1
        <5> QED
          BY <3>2, <4>2, <4>3, <4>5, <5>2
      <4> QED
        BY <4>4, <4>5
    <3> QED
      BY <3>1, <3>2
  <2> QED
    BY <2>7, <2>8, <2>9, <2>10, <2>11 DEF PlainInv
<1> QED
  BY <1>5, <1>6
\* Removing segments from the front leaves the others joined.
LEMMA JoinedSuffix ==
  ASSUME Joined, FromTheFront, old \in Seq(Segment), NEW c \in 0..Len(old),
         Len(old') = Len(old) - c, \A i \in 1..(Len(old) - c) : old'[i] = old[c + i],
         UNCHANGED active
  PROVE  Joined'
<1>1. Len(old) \in Nat
  OBVIOUS
<1> SUFFICES ASSUME NEW i \in 1..Len(old')
             PROVE  NextOffset(old'[i])
                      = IF i = Len(old') THEN active.base ELSE old'[i + 1].base
  BY DEF Joined, NextOffset
<1>2. c + i \in 1..Len(old) /\ i \in 1..(Len(old) - c)
  BY <1>1
<1>3. old'[i] = old[c + i]
  BY <1>2
<1>4. NextOffset(old[c + i])
        = IF c + i = Len(old) THEN active.base ELSE old[(c + i) + 1].base
  BY <1>2 DEF Joined
<1>5. CASE i = Len(old')
  <2>1. c + i = Len(old)
    BY <1>1, <1>5
  <2> QED
    BY <1>3, <1>4, <1>5, <2>1
<1>6. CASE i # Len(old')
  <2>1. c + i # Len(old) /\ i + 1 \in 1..(Len(old) - c) /\ (c + i) + 1 = c + (i + 1)
    BY <1>1, <1>6
  <2>2. old'[i + 1] = old[c + (i + 1)]
    BY <2>1
  <2> QED
    BY <1>3, <1>4, <1>6, <2>1, <2>2
<1> QED
  BY <1>5, <1>6

\* As long as all segments are frozen, retention removes them from the front.
LEMMA RetentionSuffix ==
  ASSUME ChainInv, FrozenAt = 1..Len(old), NEW n \in 1..Cardinality(FrozenAt),
         old' = Select(old, (1..Len(old)) \ Oldest(n))
  PROVE  /\ n \in 0..Len(old)
         /\ Len(old') = Len(old) - n
         /\ \A i \in 1..(Len(old) - n) : old'[i] = old[n + i]
<1> DEFINE b == Len(old)
           idx == (1..Len(old)) \ Oldest(n)
<1>1. old \in Seq(Segment) /\ b \in Nat
  BY DEF ChainInv, TypeOK
<1>2. FrozenAt = 1..b /\ old' = Select(old, idx)
  OBVIOUS
<1>3. ASSUME NEW m \in Nat PROVE Cardinality(1..m) = m
  <2>1. Cardinality(1..m) = IF 1 > m THEN 0 ELSE m - 1 + 1
    BY FS_Interval
  <2> QED
    BY <2>1
<1>4. n \in 1..b
  BY <1>1, <1>2, <1>3
<1>5. ASSUME NEW i \in 1..b PROVE i \in Oldest(n) <=> i <= n
  <2>1. {j \in 1..b : j <= i} = 1..i
    BY <1>1
  <2>2. Cardinality({j \in FrozenAt : j <= i}) = i
    <3>1. {j \in FrozenAt : j <= i} = 1..i
      BY <1>2, <2>1
    <3>2. i \in Nat
      OBVIOUS
    <3>3. Cardinality(1..i) = i
      BY <1>3, <3>2
    <3> QED
      BY <3>1, <3>3
  <2> QED
    BY <1>2, <2>2 DEF Oldest
<1>6. ASSUME NEW m \in 1..b PROVE m \in idx <=> m > n
  <2>1. m \in idx <=> ~(m \in Oldest(n))
    OBVIOUS
  <2>2. m \in Oldest(n) <=> m <= n
    BY <1>5
  <2> HIDE DEF idx
  <2> QED
    BY <1>1, <1>4, <2>1, <2>2
<1> HIDE DEF idx
<1>7. n \in 0..Len(old)
  BY <1>4
<1>8. /\ Len(Select(old, idx)) = Len(old) - n
      /\ \A i \in 1..(Len(old) - n) : Select(old, idx)[i] = old[n + i]
  BY <1>1, <1>6, <1>7, SelectSuffix
<1> QED
  BY <1>2, <1>7, <1>8

\* Trimming and retention leave segments that are joined as before.
LEMMA PlainRemove ==
  ASSUME ChainInv, PlainInv, OffsetInv', ~policy.compact, ScanTrim \/ EnforceRetention
  PROVE  PlainInv'
<1>1. Uncompacted /\ Ascending /\ OldIsLog /\ AllFrozen /\ Joined
  BY DEF PlainInv
<1>2. old \in Seq(Segment) /\ trim \in Nat /\ policy \in Policy
  BY HotAssumption DEF ChainInv, TypeOK
<1>3. UNCHANGED <<policy, active, comp, restarts, log>>
  BY DEF ScanTrim, EnforceRetention
<1>4. PICK f : Sub(f, old, old')
  BY ChainRemove
<1>5. /\ \A i \in 1..Len(old') : f[i] \in 1..Len(old) /\ old'[i] = old[f[i]]
      /\ \A i, j \in 1..Len(old') : i < j => f[i] < f[j]
  BY <1>4 DEF Sub
<1>6. Uncompacted' /\ AllFrozen'
  BY <1>1, <1>3, <1>5 DEF Uncompacted, AllFrozen
<1>7. Ascending'
  <2> SUFFICES ASSUME NEW i \in 1..Len(old'), NEW j \in 1..Len(old'), i < j
               PROVE  NextOffset(old'[i]) <= old'[j].base
    BY DEF Ascending, NextOffset
  <2> QED
    BY <1>1, <1>5 DEF Ascending
<1>8. OldIsLog'
  <2> SUFFICES ASSUME NEW i \in 1..Len(old'), NEW j \in 1..Len(old'[i].recs)
               PROVE  old'[i].recs[j] = log[old'[i].base + j]
    BY <1>3 DEF OldIsLog
  <2>1. f[i] \in 1..Len(old) /\ old'[i] = old[f[i]]
    BY <1>5
  <2> QED
    BY <1>1, <2>1 DEF OldIsLog
<1>9. Joined'
  <2>1. CASE ~FromTheFront
    BY <1>3, <2>1 DEF Joined, FromTheFront
  <2>2. CASE FromTheFront /\ ScanTrim
    <3>1. Leading(trim) \in 0..Len(old)
      BY <1>2, LeadingFacts
    <3>2. old' = SubSeq(old, Leading(trim) + 1, Len(old))
      BY <2>2 DEF ScanTrim
    <3> DEFINE c == Leading(trim)
    <3> HIDE DEF c
    <3>3. /\ c \in 0..Len(old)
          /\ Len(old') = Len(old) - c
          /\ \A i \in 1..(Len(old) - c) : old'[i] = old[c + i]
      BY <1>2, <3>1, <3>2, SuffixFacts DEF c
    <3> QED
      BY <1>1, <1>2, <1>3, <2>2, <3>3, JoinedSuffix
  <2>3. CASE FromTheFront /\ EnforceRetention
    <3>1. PICK n \in 1..Cardinality(FrozenAt) :
            /\ \A m \in 0..(n - 1) : ~RetentionMet(m)
            /\ old' = Select(old, (1..Len(old)) \ Oldest(n))
      BY <2>3 DEF EnforceRetention
    <3>2. ~RetentionMet(0)
      BY <3>1
    <3>3. restarts = 0
      <4>1. CASE policy.maxSegments + policy.maxSize = 0
        <5>1. policy.maxSegments \in Nat /\ policy.maxSize \in Nat
          BY <1>2 DEF Policy
        <5>2. ~(policy.maxSegments > 0) /\ ~(policy.maxSize > 0)
          BY <4>1, <5>1
        <5> QED
          BY <3>2, <5>2 DEF RetentionMet
      <4> QED
        BY <2>3, <4>1 DEF FromTheFront
    <3>4. FrozenAt = 1..Len(old)
      BY <1>1, <3>3 DEF AllFrozen, FrozenAt
    <3>5. /\ n \in 0..Len(old)
          /\ Len(old') = Len(old) - n
          /\ \A i \in 1..(Len(old) - n) : old'[i] = old[n + i]
      BY <3>1, <3>4, RetentionSuffix
    <3> QED
      BY <1>1, <1>2, <1>3, <2>3, <3>5, JoinedSuffix
  <2> QED
    BY <2>1, <2>2, <2>3
<1> QED
  BY <1>6, <1>7, <1>8, <1>9 DEF PlainInv

\* Every step keeps a topic that is not compacted in order.
LEMMA PlainStep == ChainInv /\ PlainInv /\ [Next]_vars => PlainInv'
<1> SUFFICES ASSUME ChainInv, PlainInv, [Next]_vars PROVE PlainInv'
  OBVIOUS
<1>1. OffsetInv'
  BY OffsetStep DEF ChainInv
<1>2. policy' = policy
  BY DEF Next, AppendRecord, Restart, Tick, ScanRead, ScanTrim, EnforceRetention,
         CompactRead, CompactSwap, vars
<1>3. CASE policy.compact
  BY <1>2, <1>3 DEF PlainInv
<1>4. CASE ~policy.compact
  <2>1. CASE \E k \in policy.keys, t \in policy.ttls, stamp \in 0..MaxClock :
            AppendRecord(k, t, stamp)
    BY <1>1, <1>4, <2>1, PlainAppend
  <2>2. CASE \E rolled \in BOOLEAN : Restart(rolled)
    BY <1>1, <1>4, <2>2, PlainRestart
  <2>3. CASE ScanTrim \/ EnforceRetention
    BY <1>1, <1>4, <2>3, PlainRemove
  <2>4. CASE CompactRead \/ CompactSwap
    BY <1>4, <2>4 DEF CompactRead, CompactSwap, PlainInv, Uncompacted
  <2>5. CASE Tick \/ ScanRead \/ UNCHANGED vars
    <3>1. UNCHANGED <<policy, old, active, comp, restarts, log>>
      BY <2>5 DEF Tick, ScanRead, vars
    <3> QED
      BY <3>1 DEF PlainInv, Uncompacted, Ascending, OldIsLog, AllFrozen, Joined, FromTheFront,
                  NextOffset
  <2> QED
    BY <2>1, <2>2, <2>3, <2>4, <2>5 DEF Next
<1> QED
  BY <1>3, <1>4

\* The chain as the search sees it.
LEMMA ChainJoined ==
  ASSUME ChainInv, PlainInv, ~policy.compact
  PROVE  /\ Chain \in Seq(Segment) /\ Len(Chain) = Len(old) + 1 /\ Len(old) \in Nat
         /\ Chain[Len(Chain)] = active
         /\ \A i \in 1..Len(Chain) :
              /\ Chain[i] \in Segment
              /\ Chain[i].base \in Nat
              /\ NextOffset(Chain[i]) = Chain[i].base + Len(Chain[i].recs)
              /\ NextOffset(Chain[i]) \in Nat
              /\ \A j \in 1..Len(Chain[i].recs) : Chain[i].recs[j] = log[Chain[i].base + j]
         /\ \A i, j \in 1..Len(Chain) : i < j => NextOffset(Chain[i]) <= Chain[j].base
         /\ FromTheFront => \A i \in 1..Len(old) : NextOffset(Chain[i]) = Chain[i + 1].base
<1> DEFINE ch == Chain
           n == Len(old) + 1
<1>1. old \in Seq(Segment) /\ active \in Segment /\ Len(old) \in Nat /\ Behind
  BY DEF ChainInv, TypeOK
<1>2. /\ ch \in Seq(Segment) /\ Len(ch) = n /\ ch[n] = active
      /\ \A i \in 1..Len(old) : ch[i] = old[i]
  BY <1>1, ChainFacts
<1>3. Ascending /\ OldIsLog /\ Joined
  BY DEF PlainInv
<1> HIDE DEF ch
<1>4. ASSUME NEW i \in 1..n PROVE i = n \/ (i \in 1..Len(old) /\ ch[i] = old[i])
  BY <1>1, <1>2
<1>5. ASSUME NEW i \in 1..n
      PROVE  /\ ch[i] \in Segment /\ ch[i].base \in Nat
             /\ NextOffset(ch[i]) = ch[i].base + Len(ch[i].recs)
             /\ NextOffset(ch[i]) \in Nat
             /\ \A j \in 1..Len(ch[i].recs) : ch[i].recs[j] = log[ch[i].base + j]
  <2>1. ch[i] \in Segment
    BY <1>2
  <2>2. \A j \in 1..Len(ch[i].recs) : ch[i].recs[j] = log[ch[i].base + j]
    <3>1. CASE i = n
      BY <1>2, <3>1 DEF ChainInv, OffsetInv, ActiveIsTail
    <3>2. CASE i # n
      BY <1>3, <1>4, <3>2 DEF OldIsLog
    <3> QED
      BY <3>1, <3>2
  <2> QED
    BY <2>1, <2>2, SegmentSpan
<1>6. ASSUME NEW i \in 1..n, NEW j \in 1..n, i < j PROVE NextOffset(ch[i]) <= ch[j].base
  <2>1. i \in 1..Len(old) /\ ch[i] = old[i]
    BY <1>1, <1>2, <1>6
  <2>2. CASE j = n
    BY <1>1, <1>2, <2>1, <2>2 DEF Behind
  <2>3. CASE j # n
    BY <1>3, <1>4, <1>6, <2>1, <2>3 DEF Ascending
  <2> QED
    BY <2>2, <2>3
<1>7. ASSUME FromTheFront, NEW i \in 1..Len(old) PROVE NextOffset(ch[i]) = ch[i + 1].base
  <2>1. NextOffset(old[i]) = IF i = Len(old) THEN active.base ELSE old[i + 1].base
    BY <1>3, <1>7 DEF Joined
  <2>2. CASE i = Len(old)
    BY <1>2, <2>1, <2>2
  <2>3. CASE i # Len(old)
    <3>1. i + 1 \in 1..Len(old)
      BY <1>1, <2>3
    <3> QED
      BY <1>2, <2>1, <2>3, <3>1
  <2> QED
    BY <2>2, <2>3
<1> QED
  BY <1>1, <1>2, <1>5, <1>6, <1>7 DEF ch

\* What Read returns at an offset is what was appended there.
LEMMA PlainRead ==
  ASSUME ChainInv, PlainInv, ~policy.compact, NEW o \in Nat, Read(o) # NoRecord
  PROVE  Read(o) = log[o + 1] /\ o < Len(log)
<1> DEFINE ch == Chain
           k == FindSegment(o)
<1>1. /\ ch \in Seq(Segment) /\ Len(ch) \in Nat /\ ch[Len(ch)] = active
      /\ \A i \in 1..Len(ch) :
           /\ ch[i].base \in Nat
           /\ NextOffset(ch[i]) = ch[i].base + Len(ch[i].recs)
           /\ NextOffset(ch[i]) \in Nat
           /\ \A j \in 1..Len(ch[i].recs) : ch[i].recs[j] = log[ch[i].base + j]
      /\ \A i, j \in 1..Len(ch) : i < j => NextOffset(ch[i]) <= ch[j].base
  BY ChainJoined
<1>2. k # 0 /\ Read(o) = ch[k].recs[o - ch[k].base + 1]
  BY DEF Read
<1>3. k \in 1..Len(ch) /\ Covers(ch[k], o)
  BY <1>1, <1>2, SearchSound DEF FindSegment
<1>4. NextOffset(active) = Len(log)
  BY DEF ChainInv, OffsetInv, OffsetsNeverReused
<1> HIDE DEF ch, k
<1> DEFINE b == ch[k].base
           n == Len(ch[k].recs)
<1>5. b \in Nat /\ n \in Nat /\ b <= o /\ o < b + n
  <2>1. ch[k] \in Segment
    BY <1>1, <1>3
  <2>2. n \in Nat
    BY <2>1, SegmentSpan
  <2> QED
    BY <1>1, <1>3, <2>2 DEF Covers
<1>6. ch[k].recs[o - b + 1] = log[b + (o - b + 1)]
  <2>1. o - b + 1 \in 1..n
    <3> HIDE DEF b, n
    <3> QED
      BY <1>5
  <2> QED
    BY <1>1, <1>3, <2>1
<1>7. b + (o - b + 1) = o + 1
  <2> HIDE DEF b, n
  <2> QED
    BY <1>5
<1>8. b + n <= Len(log)
  <2>1. CASE k = Len(ch)
    BY <1>1, <1>3, <1>4, <2>1
  <2>2. CASE k # Len(ch)
    <3>1. k < Len(ch) /\ Len(ch) \in 1..Len(ch)
      BY <1>1, <1>3, <2>2
    <3>2. NextOffset(ch[k]) <= ch[Len(ch)].base
      BY <1>1, <1>3, <3>1
    <3>3. /\ ch[Len(ch)].base \in Nat
          /\ NextOffset(ch[Len(ch)]) = ch[Len(ch)].base + Len(ch[Len(ch)].recs)
      BY <1>1, <3>1
    <3>4. Len(ch[Len(ch)].recs) \in Nat
      BY <1>1, SegmentSpan DEF ChainInv, TypeOK
    <3>5. NextOffset(ch[k]) = b + n /\ NextOffset(ch[Len(ch)]) = Len(log)
      BY <1>1, <1>3, <1>4
    <3> HIDE DEF b, n
    <3> QED
      BY <1>5, <3>2, <3>3, <3>4, <3>5
  <2> QED
    BY <2>1, <2>2
<1>9. Len(log) \in Nat
  BY DEF ChainInv, TypeOK
<1>10. Read(o) = log[o + 1]
  BY <1>2, <1>6, <1>7
<1> HIDE DEF b, n
<1>11. o < Len(log)
  BY <1>5, <1>8, <1>9
<1> QED
  BY <1>10, <1>11

\* Segments that join cover every offset between the first and the last.
LEMMA PlainNoHoles == ChainInv /\ PlainInv => NoHoles
<1> SUFFICES ASSUME ChainInv, PlainInv, ~policy.compact, FromTheFront,
                    NEW o \in LogStartOffset..(Len(log) - 1)
             PROVE  Read(o) = log[o + 1]
  BY DEF NoHoles, FromTheFront
<1> DEFINE ch == Chain
           n == Len(ch)
           T == {i \in 1..n : o < NextOffset(ch[i])}
<1>1. /\ ch \in Seq(Segment) /\ n = Len(old) + 1 /\ Len(old) \in Nat /\ ch[n] = active
      /\ \A i \in 1..n :
           /\ ch[i].base \in Nat
           /\ NextOffset(ch[i]) = ch[i].base + Len(ch[i].recs)
           /\ NextOffset(ch[i]) \in Nat
           /\ \A j \in 1..Len(ch[i].recs) : ch[i].recs[j] = log[ch[i].base + j]
      /\ \A i, j \in 1..n : i < j => NextOffset(ch[i]) <= ch[j].base
      /\ \A i \in 1..Len(old) : NextOffset(ch[i]) = ch[i + 1].base
  BY ChainJoined
<1>2. NextOffset(active) = Len(log) /\ Len(log) \in Nat
  BY DEF ChainInv, OffsetInv, OffsetsNeverReused, TypeOK
<1>3. ch[1].base <= o /\ o < Len(log) /\ o \in Nat
  <2>1. ch[1].base \in Nat /\ LogStartOffset = ch[1].base
    BY <1>1 DEF LogStartOffset
  <2> HIDE DEF ch
  <2> QED
    BY <1>2, <2>1
<1>4. FindSegment(o) = Search(ch, o)[<<1, Len(ch)>>]
  BY DEF FindSegment
<1>5. Read(o) = IF FindSegment(o) = 0 THEN NoRecord
                ELSE ch[FindSegment(o)].recs[o - ch[FindSegment(o)].base + 1]
  BY DEF Read
<1> HIDE DEF ch
<1>6. n \in T
  <2>1. n \in 1..n
    BY <1>1
  <2>2. NextOffset(ch[n]) = Len(log)
    BY <1>1, <1>2
  <2> QED
    BY <1>3, <2>1, <2>2
<1>7. T \in SUBSET Nat
  BY <1>1
<1> HIDE DEF T
<1>8. PICK k \in T : \A i \in T : k <= i
  BY <1>6, <1>7, LeastNat
<1>9. k \in 1..n /\ o < NextOffset(ch[k])
  BY <1>8 DEF T
<1>10. ASSUME NEW i \in 1..(k - 1) PROVE NextOffset(ch[i]) <= o
  <2>1. i \in 1..n /\ ~(k <= i)
    BY <1>1, <1>9
  <2>2. i \notin T
    BY <1>8, <2>1
  <2>3. ~(o < NextOffset(ch[i])) /\ NextOffset(ch[i]) \in Nat
    BY <1>1, <2>1, <2>2 DEF T
  <2> QED
    BY <1>3, <2>3
<1>11. ch[k].base <= o
  <2>1. CASE k = 1
    BY <1>3, <2>1
  <2>2. CASE k # 1
    <3>1. k - 1 \in 1..(k - 1) /\ k - 1 \in 1..Len(old) /\ (k - 1) + 1 = k
      BY <1>1, <1>9, <2>2
    <3>2. NextOffset(ch[k - 1]) = ch[k].base
      BY <1>1, <3>1
    <3> QED
      BY <1>10, <3>1, <3>2
  <2> QED
    BY <2>1, <2>2
<1>12. Covers(ch[k], o)
  BY <1>1, <1>3, <1>9, <1>11 DEF Covers
<1>13. ASSUME NEW i \in (k + 1)..n PROVE o < ch[i].base
  <2>1. i \in 1..n /\ k < i
    BY <1>1, <1>9
  <2>2. NextOffset(ch[k]) <= ch[i].base /\ NextOffset(ch[k]) \in Nat /\ ch[i].base \in Nat
    BY <1>1, <1>9, <2>1
  <2> QED
    BY <1>3, <1>9, <2>2
<1>14. Search(ch, o)[<<1, Len(ch)>>] = k
  BY <1>1, <1>3, <1>9, <1>10, <1>12, <1>13, SearchFinds
<1>15. Read(o) # NoRecord
  <2>1. k # 0
    BY <1>1, <1>9
  <2>2. Read(o) = ch[k].recs[o - ch[k].base + 1]
    BY <1>4, <1>5, <1>14, <2>1
  <2>3. ch[k] \in Segment
    BY <1>1, <1>9
  <2>4. ch[k].recs \in Seq(Record) /\ Len(ch[k].recs) \in Nat
    BY <2>3, SegmentSpan
  <2> DEFINE b == ch[k].base
             m == Len(ch[k].recs)
  <2>5. b \in Nat /\ m \in Nat /\ b <= o /\ o < b + m
    BY <1>1, <1>9, <1>11, <2>4
  <2>6. o - b + 1 \in 1..m
    <3> HIDE DEF b, m
    <3> QED
      BY <1>3, <2>5
  <2>7. ch[k].recs[o - b + 1] \in Record
    BY <2>4, <2>6
  <2> QED
    BY <2>2, <2>7, HotAssumption
<1> QED
  BY <1>3, <1>15, PlainRead

\* In a topic that is not compacted, every offset from the log start to the high
\* watermark is read as the message that was appended there (LogStartOffset,
\* Partition.Read), as long as retention removes segments from the front.
THEOREM ReadsWithoutHoles == Spec => []NoHoles
<1>1. ChainInv /\ PlainInv /\ [Next]_vars => (ChainInv /\ PlainInv)'
  BY ChainStep, PlainStep
<1>2. Init => ChainInv /\ PlainInv
  BY ChainInit, PlainInit
<1> QED
  BY <1>1, <1>2, PlainNoHoles, PTL DEF Spec
-----------------------------------------------------------------------------
\* What restarts and the expirer remove.

\* A record of one of the segments segs or of act.
Holds(segs, act, r) ==
  \/ \E i \in 1..Len(segs) : \E j \in 1..Len(segs[i].recs) : r = segs[i].recs[j]
  \/ \E j \in 1..Len(act.recs) : r = act.recs[j]

\* The stored records are those of the old segments and of the active one.
LEMMA StoredOf ==
  ASSUME NEW segs \in Seq(Segment), NEW act \in Segment, NEW r
  PROVE  r \in UNION {Elems(Append(segs, act)[i].recs) : i \in 1..Len(Append(segs, act))}
           <=> Holds(segs, act, r)
<1> DEFINE ch == Append(segs, act)
           n == Len(segs) + 1
<1>1. /\ Len(ch) = n /\ ch[n] = act
      /\ \A i \in 1..Len(segs) : ch[i] = segs[i]
  BY AppendFacts
<1>2. Len(segs) \in Nat
  OBVIOUS
<1> HIDE DEF ch
<1>3. ASSUME NEW i \in 1..n, r \in Elems(ch[i].recs) PROVE Holds(segs, act, r)
  <2>1. PICK j \in 1..Len(ch[i].recs) : r = ch[i].recs[j]
    BY <1>3 DEF Elems
  <2>2. i = n \/ i \in 1..Len(segs)
    BY <1>2
  <2> QED
    BY <1>1, <2>1, <2>2 DEF Holds
<1>4. ASSUME Holds(segs, act, r) PROVE \E i \in 1..n : r \in Elems(ch[i].recs)
  <2>1. n \in 1..n /\ \A i \in 1..Len(segs) : i \in 1..n
    BY <1>2
  <2> QED
    BY <1>1, <1>4, <2>1 DEF Holds, Elems
<1>5. r \in UNION {Elems(ch[i].recs) : i \in 1..Len(ch)} <=> Holds(segs, act, r)
  <2>1. r \in UNION {Elems(ch[i].recs) : i \in 1..Len(ch)}
          <=> \E i \in 1..Len(ch) : r \in Elems(ch[i].recs)
    OBVIOUS
  <2> QED
    BY <1>1, <1>3, <1>4, <2>1
<1> QED
  BY <1>5 DEF ch

\* The same before and after a step.
LEMMA StoredBoth ==
  ASSUME ChainInv, ChainInv', NEW r
  PROVE  /\ r \in Stored <=> Holds(old, active, r)
         /\ r \in Stored' <=> Holds(old', active', r)
<1>1. /\ old \in Seq(Segment) /\ active \in Segment
      /\ old' \in Seq(Segment) /\ active' \in Segment
  BY DEF ChainInv, TypeOK
<1>2. r \in Stored <=> Holds(old, active, r)
  BY <1>1, StoredOf DEF Stored, Chain
<1>3. r \in Stored' <=> Holds(old', active', r)
  BY <1>1, StoredOf DEF Stored, Chain
<1> QED
  BY <1>2, <1>3

\* A restart of a topic that is not compacted keeps every record.
LEMMA RestartLosesNothing ==
  ASSUME ChainInv, ChainInv', PlainInv, ~policy.compact,
         NEW rolled \in BOOLEAN, Restart(rolled), NEW r, Holds(old, active, r)
  PROVE  Holds(old', active', r)
<1> DEFINE files == RestartFiles(rolled)
<1>1. /\ Len(old') = Len(files)
      /\ \A i \in 1..Len(files) : old'[i].recs = files[i].recs
  BY PlainFiles
<1>2. old \in Seq(Segment) /\ active \in Segment /\ Len(old) \in Nat
  BY DEF ChainInv, TypeOK
<1>3. CASE ~rolled
  <2>1. files = old /\ active' = active
    BY <1>3 DEF RestartFiles, Restart
  <2> HIDE DEF files
  <2> QED
    BY <1>1, <2>1 DEF Holds
<1>4. CASE rolled
  <2>1. files = Append(old, active)
    BY <1>4 DEF RestartFiles
  <2> DEFINE n == Len(old) + 1
  <2>2. /\ Len(files) = n /\ files[n] = active
        /\ \A i \in 1..Len(old) : files[i] = old[i]
    BY <1>2, <2>1, AppendFacts
  <2> HIDE DEF files
  <2>3. n \in 1..n /\ \A i \in 1..Len(old) : i \in 1..n
    BY <1>2
  <2>4. /\ \A i \in 1..Len(old) : i \in 1..Len(old') /\ old'[i].recs = old[i].recs
        /\ n \in 1..Len(old') /\ old'[n].recs = active.recs
    BY <1>1, <2>2, <2>3
  <2> HIDE DEF n
  <2> QED
    BY <2>4 DEF Holds
<1> QED
  BY <1>3, <1>4

\* Only a restart counts as one.
LEMMA KeepsStep == ChainInv /\ ChainInv' /\ PlainInv /\ [Next]_vars => LosesNothing
<1> SUFFICES ASSUME ChainInv, ChainInv', PlainInv, [Next]_vars,
                    ~policy.compact, restarts' # restarts
             PROVE  Stored \subseteq Stored'
  BY DEF LosesNothing
<1>1. PICK rolled \in BOOLEAN : Restart(rolled)
  BY DEF Next, AppendRecord, Tick, ScanRead, ScanTrim, EnforceRetention, CompactRead,
         CompactSwap, vars
<1>2. ASSUME NEW r \in Stored PROVE r \in Stored'
  <2>1. Holds(old, active, r)
    BY StoredBoth
  <2>2. Holds(old', active', r)
    BY <1>1, <2>1, RestartLosesNothing
  <2> QED
    BY <2>2, StoredBoth
<1> QED
  BY <1>2

\* OpenPartition finds every message that a topic without compaction has stored, also
\* when the process dies in a rollover.
THEOREM RestartSafe == Spec => RestartKeeps
<1>1. ChainInv /\ PlainInv /\ [Next]_vars => (ChainInv /\ PlainInv)'
  BY ChainStep, PlainStep
<1>2. Init => ChainInv /\ PlainInv
  BY ChainInit, PlainInit
<1>3. ChainInv /\ PlainInv /\ [Next]_vars => LosesNothing
  BY <1>1, KeepsStep
<1> QED
  BY <1>1, <1>2, <1>3, PTL DEF Spec, RestartKeeps

\* Initially there is nothing to expire.
LEMMA AgeInit == Init => Doomed
<1> SUFFICES ASSUME Init PROVE Doomed
  OBVIOUS
<1>1. ~(trim > 0)
  BY DEF Init
<1> QED
  BY <1>1 DEF Doomed

\* What is expired stays expired.
LEMMA DoomedKept ==
  ASSUME ChainInv, Doomed, UNCHANGED <<policy, trim>>, clock' \in Nat, clock <= clock',
         Len(log') \in Nat, Len(log) <= Len(log'), \A m \in 1..Len(log) : log'[m] = log[m]
  PROVE  Doomed'
<1> SUFFICES ASSUME ~policy.compact, trim > 0
             PROVE  trim <= Len(log') /\ log'[trim].exp # 0 /\ log'[trim].exp < clock'
  BY DEF Doomed, Expired
<1>1. trim <= Len(log) /\ log[trim].exp # 0 /\ log[trim].exp < clock
  BY DEF Doomed, Expired
<1>2. trim \in Nat /\ log \in Seq(Record) /\ clock \in Nat /\ Len(log) \in Nat
  BY DEF ChainInv, TypeOK
<1>3. trim \in 1..Len(log)
  BY <1>1, <1>2
<1>4. log'[trim] = log[trim] /\ log[trim].exp \in Nat
  <2>1. log[trim] \in Record
    BY <1>2, <1>3
  <2> QED
    BY <1>3, <2>1 DEF Record
<1>5. trim <= Len(log')
  BY <1>1, <1>2
<1>6. log[trim].exp < clock'
  BY <1>1, <1>2, <1>4
<1> QED
  BY <1>1, <1>4, <1>5, <1>6

\* Every step keeps what the expirer knows.
LEMMA AgeStep == ChainInv /\ PlainInv /\ Doomed /\ [Next]_vars => Doomed'
<1> SUFFICES ASSUME ChainInv, PlainInv, Doomed, [Next]_vars PROVE Doomed'
  OBVIOUS
<1>1. OffsetInv' /\ ChainInv'
  BY OffsetStep, ChainStep DEF ChainInv
<1>2. log \in Seq(Record) /\ Len(log) \in Nat /\ clock \in Nat /\ trim \in Nat
  BY DEF ChainInv, TypeOK
<1>3. clock' \in Nat /\ Len(log') \in Nat /\ log' \in Seq(Record)
  BY <1>1 DEF ChainInv, TypeOK
<1>4. CASE \E k \in policy.keys, t \in policy.ttls, stamp \in 0..MaxClock :
            AppendRecord(k, t, stamp)
  <2>1. PICK k \in policy.keys, t \in policy.ttls, stamp \in 0..MaxClock :
             AppendRecord(k, t, stamp)
    BY <1>4
  <2> DEFINE rec == [off |-> Len(log), key |-> k, exp |-> IF t = 0 THEN 0 ELSE stamp + t]
  <2>2. UNCHANGED <<policy, trim, clock>> /\ log' = Append(log, rec)
    BY <2>1 DEF AppendRecord
  <2>3. \A m \in 1..Len(log) : log'[m] = log[m]
    BY <1>1, <2>1, LogGrows
  <2> HIDE DEF rec
  <2>4. Len(log) <= Len(log') /\ clock <= clock'
    BY <1>2, <2>2
  <2> QED
    BY <1>3, <2>2, <2>3, <2>4, DoomedKept
<1>5. CASE Tick
  <2>1. UNCHANGED <<policy, trim, log>> /\ clock' = clock + 1
    BY <1>5 DEF Tick
  <2>2. Len(log) <= Len(log') /\ clock <= clock' /\ \A m \in 1..Len(log) : log'[m] = log[m]
    BY <1>2, <2>1
  <2> QED
    BY <1>3, <2>1, <2>2, DoomedKept
<1>6. CASE \/ \E rolled \in BOOLEAN : Restart(rolled)
           \/ ScanRead \/ ScanTrim \/ EnforceRetention \/ CompactRead \/ CompactSwap
           \/ UNCHANGED vars
  <2>1. UNCHANGED <<policy, clock, log>>
    BY <1>6 DEF Restart, ScanRead, ScanTrim, EnforceRetention, CompactRead, CompactSwap, vars
  <2>2. CASE trim' = trim
    BY <2>1, <2>2 DEF Doomed, Expired
  <2>3. CASE trim' = 0
    BY <2>3 DEF Doomed
  <2>4. CASE ScanRead
    <3>1. /\ LastExpired \in Scanned /\ LastExpired \in Nat /\ Expired(Read(LastExpired))
          /\ trim' = LastExpired + 1
      BY <2>4, ScanFinds DEF ScanRead, ChainInv
    <3>2. Read(LastExpired) # NoRecord
      BY <3>1 DEF Scanned
    <3>3. ASSUME ~policy.compact
          PROVE  trim' <= Len(log) /\ Expired(log[trim'])
      <4>1. Read(LastExpired) = log[LastExpired + 1] /\ LastExpired < Len(log)
        BY <3>1, <3>2, <3>3, PlainRead
      <4>2. LastExpired + 1 <= Len(log)
        BY <1>2, <3>1, <4>1
      <4> QED
        BY <3>1, <4>1, <4>2
    <3> QED
      BY <2>1, <3>3 DEF Doomed, Expired
  <2>5. trim' = trim \/ trim' = 0 \/ ScanRead
    BY <1>6 DEF Restart, ScanTrim, EnforceRetention, CompactRead, CompactSwap, vars
  <2> QED
    BY <2>2, <2>3, <2>4, <2>5
<1> QED
  BY <1>4, <1>5, <1>6 DEF Next

\* A segment that is trimmed ends before an expired message.
LEMMA TrimStep ==
  ChainInv /\ ChainInv' /\ PlainInv /\ Doomed /\ [Next]_vars => KeepsLive
<1> SUFFICES ASSUME ChainInv, ChainInv', PlainInv, Doomed, [Next]_vars, ~policy.compact,
                    trim # 0, InTimeOrder(trim), trim' = 0, restarts' = restarts,
                    NEW r \in Stored, r \notin Stored'
             PROVE  Expired(r)
  BY DEF KeepsLive
<1>1. /\ old \in Seq(Segment) /\ Len(old) \in Nat /\ trim \in Nat /\ restarts \in Nat
      /\ log \in Seq(Record) /\ clock \in Nat /\ Len(log) \in Nat
  BY DEF ChainInv, TypeOK
<1>2. ScanTrim
  <2>1. ASSUME NEW rolled \in BOOLEAN, Restart(rolled) PROVE FALSE
    BY <1>1, <2>1 DEF Restart
  <2>2. ~ScanRead
    BY DEF ScanRead
  <2> QED
    BY <2>1, <2>2 DEF Next, AppendRecord, Tick, EnforceRetention, CompactRead, CompactSwap, vars
<1>3. UNCHANGED active /\ old' = SubSeq(old, Leading(trim) + 1, Len(old))
  BY <1>2 DEF ScanTrim
<1> DEFINE c == Leading(trim)
<1>4. c \in 0..Len(old) /\ \A i \in 1..c : NextOffset(old[i]) <= trim
  BY <1>1, LeadingFacts
<1> HIDE DEF c
<1>5. Len(old') = Len(old) - c /\ \A i \in 1..(Len(old) - c) : old'[i] = old[c + i]
  BY <1>1, <1>3, <1>4, SuffixFacts DEF c
<1>6. Holds(old, active, r) /\ ~Holds(old', active', r)
  BY StoredBoth
<1>7. PICK i \in 1..Len(old) : \E j \in 1..Len(old[i].recs) : r = old[i].recs[j]
  BY <1>3, <1>6 DEF Holds
<1>8. PICK j \in 1..Len(old[i].recs) : r = old[i].recs[j]
  BY <1>7
<1>9. i \in 1..c
  <2> SUFFICES ASSUME i \notin 1..c PROVE FALSE
    OBVIOUS
  <2>1. i - c \in 1..Len(old') /\ c + (i - c) = i /\ i - c \in 1..(Len(old) - c)
    BY <1>1, <1>4, <1>5
  <2>2. old'[i - c] = old[i]
    BY <1>5, <2>1
  <2> QED
    BY <1>6, <1>8, <2>1, <2>2 DEF Holds
<1> DEFINE m == old[i].base + j
<1>10. m \in 1..Len(log) /\ m <= trim
  <2>1. NextOffset(old[i]) <= trim
    BY <1>4, <1>9
  <2>2. /\ old[i].base \in Nat /\ Len(old[i].recs) \in Nat
        /\ NextOffset(old[i]) = old[i].base + Len(old[i].recs)
        /\ m \in 1..Len(log)
    BY OldSegment
  <2> QED
    BY <1>1, <2>1, <2>2, SMTT(20)
<1>11. r = log[m]
  BY <1>8 DEF PlainInv, OldIsLog
<1> HIDE DEF m
<1>12. trim > 0 /\ trim \in 1..Len(log) /\ Expired(log[trim])
  <2>1. trim > 0
    BY <1>1
  <2>2. trim <= Len(log) /\ Expired(log[trim])
    BY <2>1 DEF Doomed
  <2> QED
    BY <1>1, <2>1, <2>2
<1>13. log[trim].exp # 0 /\ log[trim].exp < clock
  BY <1>12 DEF Expired
<1>14. log[m].exp \in Nat /\ log[trim].exp \in Nat
  <2>1. log[m] \in Record /\ log[trim] \in Record
    BY <1>1, <1>10, <1>12
  <2> QED
    BY <2>1 DEF Record
<1>15. log[m].exp # 0 /\ log[m].exp <= log[trim].exp
  <2>1. CASE m = trim
    BY <1>13, <1>14, <2>1
  <2>2. CASE m # trim
    <3>1. m \in 1..trim /\ trim \in 1..trim /\ m < trim
      BY <1>1, <1>10, <2>2
    <3>2. log[m].exp \in 1..log[trim].exp
      BY <1>13, <3>1 DEF InTimeOrder
    <3> QED
      BY <1>14, <3>2
  <2> QED
    BY <2>1, <2>2
<1>16. log[m].exp < clock
  BY <1>1, <1>13, <1>14, <1>15
<1> QED
  BY <1>11, <1>15, <1>16 DEF Expired

\* If the messages of a topic that is not compacted have their deadlines in the order of
\* their offsets, the expirer removes none that has not expired (Expirer.scan,
\* AdvanceLogStart), whatever is appended, trimmed or restarted between its reading and
\* its trimming.
THEOREM TrimSafe == Spec => TrimsOnlyExpired
<1> DEFINE HotInv == ChainInv /\ PlainInv /\ Doomed
<1>1. HotInv /\ [Next]_vars => HotInv'
  BY ChainStep, PlainStep, AgeStep
<1>2. Init => HotInv
  BY ChainInit, PlainInit, AgeInit
<1>3. HotInv /\ [Next]_vars => KeepsLive
  BY <1>1, TrimStep
<1> HIDE DEF HotInv
<1> QED
  BY <1>1, <1>2, <1>3, PTL DEF Spec, TrimsOnlyExpired
=============================================================================
