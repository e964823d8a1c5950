------------------------- MODULE ConsumerGroupProofs -------------------------
(***************************************************************************)
(* A consumer group, for any members, number of partitions, strategies and *)
(* restarts, and any number of rebalances that are owed at once.           *)
(*                                                                         *)
(* First, the committed offsets, for any goroutines that commit: what the  *)
(* group answers with is what a restart would load, where commits did not  *)
(* overlap and writes did not fail.  The invariant follows a commit        *)
(* through its two critical sections: a partition in which the group is    *)
(* ahead of the cache has a commit under way, the group's last one.        *)
(*                                                                         *)
(* Then the assignment: each strategy is a recursion over the partitions   *)
(* whose every step keeps the members' lists disjoint, so that a group to  *)
(* which no rebalance is owed has every partition with one member.         *)
(***************************************************************************)
EXTENDS ConsumerGroup, FiniteSetTheorems, WellFoundedInduction, TLAPS

Zero == [p \in Partition |-> 0]

OffsetTypes ==
  /\ committed \in [Partition -> Nat]
  /\ store \in [Partition -> Nat]
  /\ file \in [Partition -> Nat]
  /\ saving \in [Committers -> (Partition \X Nat) \cup {None}]
  /\ unwritten \in BOOLEAN
  /\ scope \in Scopes

\* Partition p is answered from a commit under way that is the only one, or from what
\* the cache has.
Traced(p) ==
  /\ (\A c \in Committers : ~Pending(c, p)) => committed[p] = store[p]
  /\ \A c, d \in Committers : Pending(c, p) /\ Pending(d, p) => c = d
  /\ \A c \in Committers : Pending(c, p) => saving[c][2] = committed[p]

CommitInv ==
  /\ OffsetTypes
  /\ strategy = None => \A c \in Committers : saving[c] = None
  /\ scope.valid => /\ ~unwritten => file = store
                    /\ strategy # None => \A p \in Partition \ mixed : Traced(p)
  /\ ~scope.valid => /\ store = Zero /\ file = Zero
                     /\ strategy # None /\ ~unwritten =>
                          \A p \in Partition : committed[p] = 0 \/ \E c \in Committers : Pending(c, p)

\* A group is created from the cache, with no commit under way.
LEMMA JoinKeeps ==
  ASSUME CommitInv, NEW m \in Members, NEW s \in Strategies, Join(m, s)
  PROVE  CommitInv'
<1>1. UNCHANGED <<store, file, saving, mixed, unwritten, scope>>
  BY DEF Join
<1>2. OffsetTypes' /\ strategy' # None
  BY ConsumerGroupAssumption DEF CommitInv, OffsetTypes, Join
<1>3. CASE strategy = None
  <2>1. committed' = store /\ \A c \in Committers : saving[c] = None
    BY <1>3 DEF CommitInv, Join
  <2>2. \A p \in Partition : Traced(p)'
    BY <1>1, <2>1 DEF Traced, Pending
  <2>3. ~scope.valid => \A p \in Partition : committed'[p] = 0
    BY <2>1 DEF CommitInv, Zero
  <2> QED
    BY <1>1, <1>2, <2>2, <2>3 DEF CommitInv
<1>4. CASE strategy # None
  <2>1. committed' = committed
    BY <1>4 DEF Join
  <2>2. \A p \in Partition : Traced(p)' <=> Traced(p)
    BY <1>1, <2>1 DEF Traced, Pending
  <2> QED
    BY <1>1, <1>2, <1>4, <2>1, <2>2 DEF CommitInv, Pending
<1> QED
  BY <1>3, <1>4

\* A commit is the only one of its partition or the partition is marked.
LEMMA CommitKeeps ==
  ASSUME CommitInv, NEW c \in Committers,
         NEW p \in Partition, NEW o \in 1..MaxOffset, Commit(c, p, o)
  PROVE  CommitInv'
<1>1. o \in Nat /\ <<p, o>> \in Partition \X Nat /\ <<p, o>> # None
  BY ConsumerGroupAssumption
<1>2. /\ strategy # None /\ strategy' = strategy
      /\ saving[c] = None
      /\ committed' = [committed EXCEPT ![p] = o]
      /\ saving' = [saving EXCEPT ![c] = <<p, o>>]
      /\ UNCHANGED <<store, file, unwritten, scope>>
  BY DEF Commit, group
<1>3. OffsetTypes'
  BY <1>1, <1>2 DEF CommitInv, OffsetTypes
<1>4. saving'[c] = <<p, o>> /\ \A d \in Committers \ {c} : saving'[d] = saving[d]
  BY <1>2 DEF CommitInv, OffsetTypes
<1>5. committed'[p] = o /\ \A q \in Partition \ {p} : committed'[q] = committed[q]
  BY <1>2 DEF CommitInv, OffsetTypes
<1>6. /\ Pending(c, p)' /\ \A q \in Partition \ {p} : ~Pending(c, q)'
      /\ \A q \in Partition : ~Pending(c, q)
      /\ \A d \in Committers \ {c}, q \in Partition : Pending(d, q)' <=> Pending(d, q)
  BY <1>1, <1>2, <1>4 DEF Pending
<1>7. ASSUME scope.valid, NEW q \in Partition \ mixed'
      PROVE  Traced(q)'
  <2>1. CASE q = p
    <3>1. \A d \in Committers : ~Pending(d, p)
      BY <2>1 DEF Commit
    <3>2. \A d \in Committers \ {c} : ~Pending(d, p)'
      BY <1>6, <3>1
    <3> QED
      BY <1>4, <1>5, <1>6, <2>1, <3>2 DEF Traced
  <2>2. CASE q # p
    <3>1. q \notin mixed
      BY <2>2 DEF Commit
    <3>2. Traced(q)
      BY <1>2, <1>7, <3>1 DEF CommitInv
    <3>3. \A d \in Committers : /\ Pending(d, q)' <=> Pending(d, q)
                                /\ Pending(d, q) => saving'[d] = saving[d]
      BY <1>4, <1>6, <2>2
    <3> QED
      BY <1>2, <1>5, <2>2, <3>2, <3>3 DEF Traced
  <2> QED
    BY <2>1, <2>2
<1>8. ASSUME ~scope.valid, ~unwritten, NEW q \in Partition
      PROVE  committed'[q] = 0 \/ \E d \in Committers : Pending(d, q)'
  <2>1. CASE q = p
    BY <1>6, <2>1
  <2>2. CASE q # p
    <3>1. committed[q] = 0 \/ \E d \in Committers : Pending(d, q)
      BY <1>2, <1>8 DEF CommitInv
    <3> QED
      BY <1>5, <1>6, <2>2, <3>1
  <2> QED
    BY <2>1, <2>2
<1> QED
  BY <1>2, <1>3, <1>7, <1>8 DEF CommitInv

\* The save brings the cache up to the group, and the file up to the cache or not.
LEMMA SaveKeeps ==
  ASSUME CommitInv, NEW c \in Committers, Save(c)
  PROVE  CommitInv'
<1> DEFINE p == saving[c][1]
           o == saving[c][2]
<1>1. /\ saving[c] # None /\ strategy' = strategy /\ committed' = committed
      /\ saving' = [saving EXCEPT ![c] = None]
      /\ mixed' = mixed /\ scope' = scope
      /\ store' = IF scope.valid THEN [store EXCEPT ![p] = o] ELSE store
      /\ \/ scope.valid /\ file' = store' /\ unwritten' = FALSE
         \/ file' = file /\ unwritten' = TRUE
  BY DEF Save, group
<1>2. saving[c] \in Partition \X Nat /\ strategy # None /\ p \in Partition /\ o \in Nat
  BY <1>1 DEF CommitInv, OffsetTypes
<1>3. OffsetTypes'
  BY <1>1, <1>2 DEF CommitInv, OffsetTypes
<1>4. saving'[c] = None /\ \A d \in Committers \ {c} : saving'[d] = saving[d]
  BY <1>1 DEF CommitInv, OffsetTypes
<1>5. /\ Pending(c, p) /\ \A q \in Partition : ~Pending(c, q)'
      /\ \A q \in Partition \ {p} : ~Pending(c, q)
      /\ \A d \in Committers \ {c}, q \in Partition : Pending(d, q)' <=> Pending(d, q)
  BY <1>1, <1>4 DEF Pending
<1> HIDE DEF p, o
<1>6. ASSUME scope.valid, NEW q \in Partition \ mixed'
      PROVE  Traced(q)'
  <2>1. Traced(q)
    BY <1>1, <1>2, <1>6 DEF CommitInv
  <2>2. store' = [store EXCEPT ![p] = o] /\ store \in [Partition -> Nat]
    BY <1>1, <1>6 DEF CommitInv, OffsetTypes
  <2>3. CASE q = p
    <3>1. saving[c][2] = committed[p] /\ \A d \in Committers \ {c} : ~Pending(d, p)
      BY <1>5, <2>1, <2>3 DEF Traced
    <3>2. store'[p] = committed'[p]
      BY <1>1, <1>2, <2>2, <3>1 DEF o
    <3>3. \A d \in Committers : ~Pending(d, q)'
      BY <1>2, <1>5, <2>3, <3>1
    <3> QED
      BY <2>3, <3>2, <3>3 DEF Traced
  <2>4. CASE q # p
    <3>1. store'[q] = store[q]
      BY <1>6, <2>2, <2>4
    <3>2. \A d \in Committers : /\ Pending(d, q)' <=> Pending(d, q)
                                /\ Pending(d, q) => saving'[d] = saving[d]
      BY <1>4, <1>5, <2>4
    <3> QED
      BY <1>1, <2>1, <3>1, <3>2 DEF Traced
  <2> QED
    BY <2>3, <2>4
<1>7. ASSUME ~scope.valid
      PROVE  unwritten' = TRUE /\ store' = Zero /\ file' = Zero
  BY <1>1, <1>7 DEF CommitInv
<1>8. ASSUME unwritten' = FALSE, scope.valid
      PROVE  file' = store'
  BY <1>1, <1>8
<1>9. unwritten' = TRUE \/ unwritten' = FALSE
  BY <1>1
<1>10. CASE scope.valid
  <2>1. ~unwritten' => file' = store'
    BY <1>8, <1>9, <1>10
  <2> QED
    BY <1>1, <1>2, <1>3, <1>6, <1>10, <2>1 DEF CommitInv
<1>11. CASE ~scope.valid
  <2>1. unwritten' = TRUE /\ store' = Zero /\ file' = Zero
    BY <1>7, <1>11
  <2>2. ~scope'.valid /\ strategy' # None
    BY <1>1, <1>2, <1>11
  <2> QED
    BY <1>3, <2>1, <2>2 DEF CommitInv
<1> QED
  BY <1>10, <1>11

\* When no commit is under way and the last write did not fail, the offsets a group
\* answers with are those a restart would load, but for partitions whose last commits
\* overlapped (ConsumerGroup.CommitOffset, OffsetStore.Save).
THEOREM CommitsKept == Spec => []StoreAgrees
<1>1. ASSUME Init PROVE CommitInv
  <2>1. /\ strategy = None /\ committed = Zero /\ store = Zero /\ file = Zero
        /\ saving = [c \in Committers |-> None] /\ unwritten = FALSE /\ scope \in Scopes
    BY <1>1 DEF Init, Zero
  <2>2. OffsetTypes
    BY <2>1 DEF OffsetTypes, Zero
  <2>3. \A c \in Committers : saving[c] = None
    BY <2>1
  <2> QED
    BY <2>1, <2>2, <2>3 DEF CommitInv
<1>2. CommitInv /\ [Next]_vars => CommitInv'
  <2> SUFFICES ASSUME CommitInv, [Next]_vars
               PROVE  CommitInv'
    OBVIOUS
  <2>1. CASE UNCHANGED <<strategy, committed, store, file, saving, mixed, unwritten, scope>>
    BY <2>1 DEF CommitInv, OffsetTypes, Traced, Pending
  <2>2. CASE Expire
    BY <2>1, <2>2 DEF Expire, offsets
  <2>3. CASE Restart
    <3>1. /\ strategy' = None /\ committed' = Zero /\ store' = file /\ file' = file
          /\ saving' = [d \in Committers |-> None] /\ unwritten' = FALSE /\ scope' = scope
      BY <2>3 DEF Restart, Zero
    <3>2. OffsetTypes'
      BY <3>1 DEF CommitInv, OffsetTypes, Zero
    <3> QED
      BY <3>1, <3>2 DEF CommitInv
  <2>4. ASSUME NEW by \in Rebalancers, rebalance(by)
        PROVE  CommitInv'
    BY <2>1, <2>4 DEF rebalance, offsets
  <2>5. ASSUME NEW m \in Members, Leave(m) \/ Heartbeat(m) \/ TimesOut(m)
        PROVE  CommitInv'
    BY <2>1, <2>5 DEF Leave, Heartbeat, TimesOut, offsets
  <2>6. ASSUME NEW m \in Members, NEW s \in Strategies, Join(m, s)
        PROVE  CommitInv'
    BY <2>6, JoinKeeps
  <2>7. ASSUME NEW p \in Partition, CommitDropped(p)
        PROVE  CommitInv'
    BY <2>1, <2>7 DEF CommitDropped, group
  <2>8. ASSUME NEW p \in Partition, NEW o \in 1..MaxOffset, NEW d \in Committers, Commit(d, p, o)
        PROVE  CommitInv'
    BY <2>8, CommitKeeps
  <2>9. ASSUME NEW d \in Committers, Save(d)
        PROVE  CommitInv'
    BY <2>9, SaveKeeps
  <2>10. CASE UNCHANGED vars
    BY <2>1, <2>10 DEF vars, group, offsets
  <2>11. /\ scope.members \subseteq Members /\ scope.strategies \subseteq Strategies
         /\ scope.commits \subseteq Partition /\ scope.by \subseteq Committers
    BY ConsumerGroupAssumption DEF CommitInv, OffsetTypes, Scope
  <2> QED
    BY <2>2, <2>3, <2>4, <2>5, <2>6, <2>7, <2>8, <2>9, <2>10, <2>11 DEF Next
<1>3. CommitInv => StoreAgrees
  <2> SUFFICES ASSUME CommitInv, strategy # None, ~unwritten,
                      \A c \in Committers : saving[c] = None, NEW p \in Partition \ mixed
               PROVE  file[p] = committed[p]
    BY DEF StoreAgrees
  <2>1. \A c \in Committers : ~Pending(c, p)
    BY DEF Pending
  <2>2. CASE scope.valid
    BY <2>1, <2>2 DEF CommitInv, Traced
  <2>3. CASE ~scope.valid
    BY <2>1, <2>3 DEF CommitInv, Zero
  <2> QED
    BY <2>2, <2>3
<1> QED
  BY <1>1, <1>2, <1>3, PTL DEF Spec

-----------------------------------------------------------------------------
\* Induction, recursion and division.

\* A set of natural numbers that is not empty has a least one.
LEMMA LeastNat ==
  ASSUME NEW T \in SUBSET Nat, T # {}
  PROVE  \E n \in T : \A m \in T : n <= m
<1> DEFINE R == OpToRel(<, Nat)
<1>1. IsWellFoundedOn(R, Nat)
  BY NatLessThanWellFounded
<1>2. \A x, y \in Nat : y < x => <<y, x>> \in R
  BY DEF OpToRel
<1> HIDE DEF R
<1>3. PICK x \in T : \A y \in T : ~(<<y, x>> \in R)
  BY <1>1, WFMin
<1>4. \A y \in T : ~(y < x)
  BY <1>2, <1>3
<1> QED
  BY <1>3, <1>4

\* A set that has 0, and n + 1 whenever it has n, has all numbers up to a bound.
LEMMA UpTo ==
  ASSUME NEW b \in Nat, NEW G, 0 \in G, \A n \in 0..(b - 1) : n \in G => n + 1 \in G
  PROVE  \A n \in 0..b : n \in G
<1> DEFINE T == {n \in 0..b : n \notin G}
<1> SUFFICES ASSUME T # {} PROVE FALSE
  OBVIOUS
<1>1. PICK n \in T : \A m \in T : n <= m
  <2>1. T \in SUBSET Nat
    OBVIOUS
  <2> HIDE DEF T
  <2> QED
    BY <2>1, LeastNat
<1>2. n \in 0..b /\ n \notin G /\ n # 0
  BY <1>1
<1>3. n - 1 \in 0..(b - 1) /\ n - 1 \notin T
  BY <1>1, <1>2
<1>4. n - 1 \in G
  BY <1>2, <1>3
<1>5. (n - 1) + 1 = n
  BY <1>2
<1> QED
  BY <1>2, <1>3, <1>4, <1>5

\* A value z of X, and a step E from one value of X to the next.
Recurrence(b, X, z, E) == z \in X /\ \A n \in 1..b, x \in X : E[<<n, x>>] \in X

\* The function on 0..b that starts with z and makes the steps E.
Follows(f, b, X, z, E) ==
  /\ f \in [0..b -> X]
  /\ f[0] = z
  /\ \A n \in 1..b : f[n] = E[<<n, f[n - 1]>>]

\* A function on 0..b is defined by its value at 0 and a step.
LEMMA Recursion ==
  ASSUME NEW b \in Nat, NEW X, NEW z, NEW E, Recurrence(b, X, z, E)
  PROVE  \E f : Follows(f, b, X, z, E)
<1>0. z \in X /\ \A n \in 1..b, x \in X : E[<<n, x>>] \in X
  BY DEF Recurrence
<1> DEFINE Solves(f, c) == f[0] = z /\ \A n \in 1..c : f[n] = E[<<n, f[n - 1]>>]
           G == {c \in 0..b : \E f \in [0..b -> X] : Solves(f, c)}
<1>1. 0 \in G
  <2>1. [n \in 0..b |-> z] \in [0..b -> X] /\ Solves([n \in 0..b |-> z], 0)
    BY <1>0
  <2> HIDE DEF Solves
  <2> QED
    BY <2>1
<1>2. ASSUME NEW c \in 0..(b - 1), c \in G PROVE c + 1 \in G
  <2>1. PICK f \in [0..b -> X] : Solves(f, c)
    BY <1>2
  <2> DEFINE v == E[<<c + 1, f[c]>>]
             g == [f EXCEPT ![c + 1] = v]
  <2>2. c \in 0..b /\ c + 1 \in 1..b /\ c + 1 \in 0..b /\ 0 \in 0..b
    OBVIOUS
  <2>3. f[c] \in X
    BY <2>2
  <2>4. v \in X
    BY <1>0, <2>2, <2>3
  <2> HIDE DEF v
  <2>5. /\ g \in [0..b -> X]
        /\ g[c + 1] = v
        /\ \A n \in 0..b : n # c + 1 => g[n] = f[n]
    BY <2>2, <2>4
  <2> HIDE DEF g
  <2>6. g[0] = z
    BY <2>1, <2>2, <2>5
  <2>7. ASSUME NEW n \in 1..(c + 1) PROVE g[n] = E[<<n, g[n - 1]>>]
    <3>1. n - 1 \in 0..b /\ n - 1 # c + 1
      OBVIOUS
    <3>2. g[n - 1] = f[n - 1]
      BY <2>5, <3>1
    <3>3. CASE n = c + 1
      <4>1. n - 1 = c
        BY <3>3
      <4> QED
        BY <3>2, <3>3, <4>1, <2>5 DEF v
    <3>4. CASE n # c + 1
      <4>1. n \in 1..c /\ n \in 0..b
        BY <3>4
      <4>2. f[n] = E[<<n, f[n - 1]>>]
        BY <2>1, <4>1
      <4> QED
        BY <2>5, <3>2, <3>4, <4>1, <4>2
    <3> QED
      BY <3>3, <3>4
  <2>8. Solves(g, c + 1)
    BY <2>6, <2>7
  <2> HIDE DEF Solves
  <2> QED
    BY <2>2, <2>5, <2>8
<1>3. b \in G
  <2> HIDE DEF G
  <2> QED
    BY <1>1, <1>2, UpTo
<1> QED
  BY <1>3 DEF Follows

LEMMA DivMod ==
  ASSUME NEW n \in Nat, NEW k \in Nat \ {0}
  PROVE  /\ n \div k \in Nat /\ n % k \in 0..(k - 1)
         /\ n = k * (n \div k) + (n % k)
OBVIOUS
LEMMA DivUnique ==
  ASSUME NEW k \in Nat \ {0}, NEW q \in Nat, NEW r \in 0..(k - 1), NEW u \in Nat, NEW v \in 0..(k - 1),
         k * q + r = k * u + v
  PROVE  q = u /\ r = v
<1>1. ~ (q < u)
  <2> SUFFICES ASSUME q < u PROVE FALSE
    OBVIOUS
  <2>1. PICK d \in Nat : u = q + 1 + d
    <3>1. u - q - 1 \in Nat /\ u = q + 1 + (u - q - 1)
      OBVIOUS
    <3> QED BY <3>1
  <2>2. k * u = k * q + k + k * d /\ k * d \in Nat /\ k * q \in Nat
    BY <2>1
  <2> QED BY <2>2
<1>2. ~ (u < q)
  <2> SUFFICES ASSUME u < q PROVE FALSE
    OBVIOUS
  <2>1. PICK d \in Nat : q = u + 1 + d
    <3>1. q - u - 1 \in Nat /\ q = u + 1 + (q - u - 1)
      OBVIOUS
    <3> QED BY <3>1
  <2>2. k * q = k * u + k + k * d /\ k * d \in Nat /\ k * u \in Nat
    BY <2>1
  <2> QED BY <2>2
<1>3. q = u
  BY <1>1, <1>2
<1>4. k * q = k * u /\ k * q \in Int
  BY <1>3
<1> QED BY <1>3, <1>4
LEMMA NextDiv ==
  ASSUME NEW n \in Nat, NEW k \in Nat \ {0}
  PROVE  \/ /\ n % k = k - 1 /\ (n + 1) % k = 0 /\ (n + 1) \div k = (n \div k) + 1
         \/ /\ n % k < k - 1 /\ (n + 1) % k = (n % k) + 1 /\ (n + 1) \div k = n \div k
<1> DEFINE q == n \div k
           r == n % k
           u == (n + 1) \div k
           v == (n + 1) % k
<1>1. q \in Nat /\ r \in 0..(k - 1) /\ n = k * q + r
  BY DivMod
<1>2. u \in Nat /\ v \in 0..(k - 1) /\ n + 1 = k * u + v
  <2>1. n + 1 \in Nat
    OBVIOUS
  <2> HIDE DEF q, r
  <2> QED
    BY <2>1, DivMod
<1> HIDE DEF q, r, u, v
<1>3. CASE r = k - 1
  <2>1. k * (q + 1) = k * q + k /\ k * q \in Int /\ k * u \in Int
    BY <1>1, <1>2
  <2>2. k * (q + 1) + 0 = k * u + v
    BY <1>1, <1>2, <1>3, <2>1
  <2>3. q + 1 = u /\ 0 = v
    BY <1>1, <1>2, <2>2, DivUnique
  <2> QED BY <1>3, <2>3 DEF q, r, u, v
<1>4. CASE r # k - 1
  <2>1. k * q \in Int /\ k * u \in Int
    BY <1>1, <1>2
  <2>2. k * q + (r + 1) = k * u + v /\ r + 1 \in 0..(k - 1) /\ r < k - 1
    BY <1>1, <1>2, <1>4, <2>1
  <2>3. q = u /\ r + 1 = v
    BY <1>1, <1>2, <2>2, DivUnique
  <2> QED BY <2>2, <2>3 DEF q, r, u, v
<1> QED BY <1>3, <1>4

-----------------------------------------------------------------------------
\* Members' lists of partitions.

\* The lists ps of the members M, and of nobody else, hold every partition of S once
\* and no other.
Holds(ps, M, S) ==
  /\ ps \in [Members -> Seq(Partition)]
  /\ \A m \in Members \ M : ps[m] = <<>>
  /\ \A m \in Members : \A i \in 1..Len(ps[m]) : ps[m][i] \in S
  /\ \A p \in S : \E m \in Members : \E i \in 1..Len(ps[m]) : ps[m][i] = p
  /\ \A m, l \in Members : \A i \in 1..Len(ps[m]), j \in 1..Len(ps[l]) :
       ps[m][i] = ps[l][j] => m = l /\ i = j

\* Give appends to one list.
LEMMA GiveFacts ==
  ASSUME NEW ps \in [Members -> Seq(Partition)], NEW m \in Members, NEW p \in Partition
  PROVE  /\ Give(ps, m, p) \in [Members -> Seq(Partition)]
         /\ \A l \in Members : l # m => Give(ps, m, p)[l] = ps[l]
         /\ Len(Give(ps, m, p)[m]) = Len(ps[m]) + 1
         /\ Give(ps, m, p)[m][Len(ps[m]) + 1] = p
         /\ \A i \in 1..Len(ps[m]) : Give(ps, m, p)[m][i] = ps[m][i]
<1>1. ps[m] \in Seq(Partition)
  OBVIOUS
<1>2. /\ Append(ps[m], p) \in Seq(Partition)
      /\ Len(Append(ps[m], p)) = Len(ps[m]) + 1
      /\ Append(ps[m], p)[Len(ps[m]) + 1] = p
      /\ \A i \in 1..Len(ps[m]) : Append(ps[m], p)[i] = ps[m][i]
  BY <1>1
<1> DEFINE a == Append(ps[m], p)
<1> HIDE DEF a
<1>3. Give(ps, m, p) = [ps EXCEPT ![m] = a]
  BY DEF Give, a
<1>4. a \in Seq(Partition)
  BY <1>2 DEF a
<1>5. /\ [ps EXCEPT ![m] = a] \in [Members -> Seq(Partition)]
      /\ \A l \in Members : l # m => [ps EXCEPT ![m] = a][l] = ps[l]
      /\ [ps EXCEPT ![m] = a][m] = a
  BY <1>4
<1> QED
  BY <1>2, <1>3, <1>5 DEF a

\* Giving a partition that nobody has.
LEMMA GiveHolds ==
  ASSUME NEW ps, NEW M \in SUBSET Members, NEW S \in SUBSET Partition, Holds(ps, M, S),
         NEW m \in M, NEW p \in Partition, p \notin S
  PROVE  Holds(Give(ps, m, p), M, S \cup {p})
<1>1. ps \in [Members -> Seq(Partition)]
  BY DEF Holds
<1>2. PICK gs : gs = Give(ps, m, p)
  OBVIOUS
<1>3. /\ gs \in [Members -> Seq(Partition)]
      /\ \A l \in Members : l # m => gs[l] = ps[l]
      /\ Len(gs[m]) = Len(ps[m]) + 1
      /\ gs[m][Len(ps[m]) + 1] = p
      /\ \A i \in 1..Len(ps[m]) : gs[m][i] = ps[m][i]
  BY <1>1, <1>2, GiveFacts
<1>4. \A l \in Members : Len(ps[l]) \in Nat
  BY <1>1
<1>5. \A l \in Members \ M : gs[l] = <<>>
  BY <1>3 DEF Holds
<1>6. ASSUME NEW l \in Members, NEW i \in 1..Len(gs[l])
      PROVE  \/ i \in 1..Len(ps[l]) /\ gs[l][i] = ps[l][i]
             \/ l = m /\ i = Len(ps[m]) + 1 /\ gs[l][i] = p
  <2>1. CASE l # m
    BY <2>1, <1>3
  <2>2. CASE l = m
    <3>1. Len(ps[m]) \in Nat /\ Len(gs[l]) = Len(ps[m]) + 1
      BY <1>3, <1>4, <2>2
    <3>2. i \in 1..Len(ps[m]) \/ i = Len(ps[m]) + 1
      BY <3>1
    <3> QED
      BY <1>3, <2>2, <3>2
  <2> QED
    BY <2>1, <2>2
<1>7. \A l \in Members : \A i \in 1..Len(gs[l]) : gs[l][i] \in S \cup {p}
  BY <1>6 DEF Holds
<1>8. ASSUME NEW q \in S \cup {p}
      PROVE  \E l \in Members : \E i \in 1..Len(gs[l]) : gs[l][i] = q
  <2>1. CASE q = p
    <3>1. Len(gs[m]) \in 1..Len(gs[m])
      BY <1>3, <1>4
    <3> QED
      BY <1>3, <2>1, <3>1
  <2>2. CASE q \in S
    <3>1. PICK l \in Members : \E i \in 1..Len(ps[l]) : ps[l][i] = q
      BY <2>2 DEF Holds
    <3>2. PICK i \in 1..Len(ps[l]) : ps[l][i] = q
      BY <3>1
    <3>3. CASE l = m
      <4>1. gs[m][i] = q /\ i \in 1..Len(gs[m])
        BY <1>3, <1>4, <3>2, <3>3
      <4> QED
        BY <4>1
    <3>4. CASE l # m
      <4>1. gs[l] = ps[l]
        BY <1>3, <3>4
      <4> QED
        BY <3>2, <4>1
    <3> QED
      BY <3>3, <3>4
  <2> QED
    BY <2>1, <2>2
<1>9. \A l, k \in Members : \A i \in 1..Len(ps[l]), j \in 1..Len(ps[k]) :
        ps[l][i] = ps[k][j] => l = k /\ i = j
  BY DEF Holds
<1>10. ASSUME NEW l \in Members, NEW k \in Members,
              NEW i \in 1..Len(gs[l]), NEW j \in 1..Len(gs[k]), gs[l][i] = gs[k][j]
       PROVE  l = k /\ i = j
  <2>1. CASE i \in 1..Len(ps[l]) /\ gs[l][i] = ps[l][i]
    <3>1. gs[l][i] # p
      BY <2>1 DEF Holds
    <3>2. j \in 1..Len(ps[k]) /\ gs[k][j] = ps[k][j]
      BY <1>6, <1>10, <3>1
    <3>3. ps[l][i] = ps[k][j]
      BY <1>10, <2>1, <3>2
    <3> QED
      BY <1>9, <2>1, <3>2, <3>3
  <2>2. CASE l = m /\ i = Len(ps[m]) + 1 /\ gs[l][i] = p
    <3>1. ~(j \in 1..Len(ps[k]) /\ gs[k][j] = ps[k][j])
      BY <1>10, <2>2 DEF Holds
    <3> QED
      BY <1>6, <2>2, <3>1
  <2> QED
    BY <1>6, <2>1, <2>2
<1> QED
  BY <1>2, <1>3, <1>5, <1>7, <1>8, <1>10 DEF Holds

\* Taking the last partition of somebody who has one.
LEMMA TakeHolds ==
  ASSUME NEW ps, NEW M \in SUBSET Members, NEW S \in SUBSET Partition, Holds(ps, M, S),
         NEW a \in Members, Len(ps[a]) > 0
  PROVE  /\ Last(ps[a]) \in S
         /\ Holds([ps EXCEPT ![a] = Front(@)], M, S \ {Last(ps[a])})
<1>1. ps \in [Members -> Seq(Partition)] /\ ps[a] \in Seq(Partition)
  BY DEF Holds
<1> DEFINE n == Len(ps[a])
           p == ps[a][n]
<1>2. n \in Nat /\ n \in 1..n /\ Last(ps[a]) = p
  BY <1>1 DEF Last
<1>3. PICK f : f = Front(ps[a])
  OBVIOUS
<1>4. f \in Seq(Partition) /\ Len(f) = n - 1 /\ \A i \in 1..(n - 1) : f[i] = ps[a][i]
  <2>1. f = SubSeq(ps[a], 1, n - 1)
    BY <1>3 DEF Front
  <2>2. PICK s, k : s = ps[a] /\ k = n - 1
    OBVIOUS
  <2>3. s \in Seq(Partition) /\ k \in Nat /\ k <= Len(s)
    BY <1>1, <1>2, <2>2
  <2>4. /\ SubSeq(s, 1, k) \in Seq(Partition) /\ Len(SubSeq(s, 1, k)) = k
        /\ \A i \in 1..k : SubSeq(s, 1, k)[i] = s[i]
    BY <2>3
  <2> QED
    BY <2>1, <2>2, <2>4
<1>5. PICK gs : gs = [ps EXCEPT ![a] = f]
  OBVIOUS
<1>6. /\ gs \in [Members -> Seq(Partition)]
      /\ gs[a] = f
      /\ \A l \in Members : l # a => gs[l] = ps[l]
  BY <1>1, <1>4, <1>5
<1>7. p \in S
  BY <1>2 DEF Holds
<1>8. ASSUME NEW l \in Members
      PROVE  /\ \A i \in 1..Len(gs[l]) : i \in 1..Len(ps[l]) /\ gs[l][i] = ps[l][i] /\ <<l, i>> # <<a, n>>
             /\ \A i \in 1..Len(ps[l]) : <<l, i>> # <<a, n>> => i \in 1..Len(gs[l]) /\ gs[l][i] = ps[l][i]
  <2>1. CASE l # a
    BY <1>6, <2>1
  <2>2. CASE l = a
    BY <1>2, <1>4, <1>6, <2>2
  <2> QED
    BY <2>1, <2>2
<1> HIDE DEF n, p
<1>9. \A l \in Members \ M : gs[l] = <<>>
  <2>1. ASSUME NEW l \in Members \ M PROVE l # a
    BY <2>1, <1>1 DEF Holds
  <2> QED
    BY <1>6, <2>1 DEF Holds
<1>10. ASSUME NEW l \in Members, NEW i \in 1..Len(gs[l]) PROVE gs[l][i] \in S \ {p}
  <2>1. i \in 1..Len(ps[l]) /\ gs[l][i] = ps[l][i] /\ ~(l = a /\ i = n)
    BY <1>8
  <2>2. ps[l][i] # p
    BY <1>2, <2>1 DEF Holds, p, n
  <2> QED
    BY <2>1, <2>2 DEF Holds
<1>11. ASSUME NEW q \in S \ {p} PROVE \E l \in Members : \E i \in 1..Len(gs[l]) : gs[l][i] = q
  <2>1. PICK l \in Members : \E i \in 1..Len(ps[l]) : ps[l][i] = q
    BY DEF Holds
  <2>2. PICK i \in 1..Len(ps[l]) : ps[l][i] = q
    BY <2>1
  <2>3. <<l, i>> # <<a, n>>
    BY <2>2 DEF p
  <2>4. i \in 1..Len(gs[l]) /\ gs[l][i] = q
    BY <1>8, <2>2, <2>3
  <2> QED
    BY <2>4
<1>12. \A l, k \in Members : \A i \in 1..Len(ps[l]), j \in 1..Len(ps[k]) :
        ps[l][i] = ps[k][j] => l = k /\ i = j
  BY DEF Holds
<1>13. ASSUME NEW l \in Members, NEW k \in Members,
              NEW i \in 1..Len(gs[l]), NEW j \in 1..Len(gs[k]), gs[l][i] = gs[k][j]
       PROVE  l = k /\ i = j
  <2>1. i \in 1..Len(ps[l]) /\ gs[l][i] = ps[l][i] /\ j \in 1..Len(ps[k]) /\ gs[k][j] = ps[k][j]
    BY <1>8
  <2>2. ps[l][i] = ps[k][j]
    BY <1>13, <2>1
  <2> QED
    BY <1>12, <2>1, <2>2
<1>14. Holds(gs, M, S \ {p})
  BY <1>6, <1>9, <1>10, <1>11, <1>13 DEF Holds
<1>15. [ps EXCEPT ![a] = Front(@)] = gs
  BY <1>3, <1>5
<1> QED
  BY <1>2, <1>7, <1>14, <1>15

\* The lists before anything is given.
LEMMA NoPartsHold ==
  ASSUME NEW M \in SUBSET Members
  PROVE  Holds(NoParts, M, {})
<1>1. <<>> \in Seq(Partition) /\ Len(<<>>) = 0
  OBVIOUS
<1>2. NoParts \in [Members -> Seq(Partition)] /\ \A m \in Members : NoParts[m] = <<>>
  BY <1>1 DEF NoParts
<1> QED
  BY <1>1, <1>2 DEF Holds

Lists == [Members -> Seq(Partition)]

\* One step of Dealt.
DealStep(to, n, ps) == IF to[n - 1] = None THEN ps ELSE Give(ps, to[n - 1], n - 1)

\* Dealt deals one partition after the other.
LEMMA DealtDef ==
  ASSUME NEW to \in [Partition -> Members \cup {None}]
  PROVE  /\ Dealt(to) \in [0..PartitionCount -> Lists]
         /\ Dealt(to)[0] = NoParts
         /\ \A n \in 1..PartitionCount : Dealt(to)[n] = DealStep(to, n, Dealt(to)[n - 1])
<1> DEFINE b == PartitionCount
           Rec(f) == f = [n \in 0..PartitionCount |->
                            IF n = 0 THEN NoParts
                            ELSE IF to[n - 1] = None THEN f[n - 1]
                            ELSE Give(f[n - 1], to[n - 1], n - 1)]
           X == Lists
           z == NoParts
           E == [w \in (1..b) \X X |-> DealStep(to, w[1], w[2])]
<1>1. b \in Nat
  BY ConsumerGroupAssumption
<1>2. Dealt(to) = CHOOSE f : Rec(f)
  BY DEF Dealt
<1>3. ASSUME NEW n \in 1..b, NEW ps \in X PROVE DealStep(to, n, ps) \in X
  <2>1. n - 1 \in Partition
    BY <1>1 DEF Partition
  <2>2. CASE to[n - 1] = None
    BY <2>2 DEF DealStep
  <2>3. CASE to[n - 1] # None
    <3>1. to[n - 1] \in Members
      BY <2>1, <2>3
    <3> QED
      BY <2>1, <2>3, <3>1, GiveFacts DEF DealStep, Lists
  <2> QED
    BY <2>2, <2>3
<1>4. Recurrence(b, X, z, E)
  <2>1. z \in X
    BY DEF NoParts, Lists
  <2>2. ASSUME NEW n \in 1..b, NEW ps \in X PROVE E[<<n, ps>>] \in X
    <3>1. DealStep(to, n, ps) \in X
      BY <1>3
    <3> HIDE DEF X
    <3> QED
      BY <3>1
  <2> HIDE DEF E, z, X
  <2> QED
    BY <2>1, <2>2 DEF Recurrence
<1>5. PICK f : Follows(f, b, X, z, E)
  <2> HIDE DEF E, z, X, b
  <2> QED
    BY <1>1, <1>4, Recursion
<1>6. f \in [0..b -> X] /\ f[0] = NoParts
  BY <1>5 DEF Follows
<1>7. ASSUME NEW n \in 1..b PROVE f[n] = DealStep(to, n, f[n - 1])
  <2>1. n - 1 \in 0..b
    BY <1>1
  <2>2. f[n - 1] \in X
    BY <1>6, <2>1
  <2>3. f[n] = E[<<n, f[n - 1]>>]
    BY <1>5 DEF Follows
  <2> HIDE DEF X
  <2> QED
    BY <2>2, <2>3
<1>8. Rec(f)
  <2>1. ASSUME NEW n \in 0..b
        PROVE  f[n] = IF n = 0 THEN NoParts
                      ELSE IF to[n - 1] = None THEN f[n - 1]
                      ELSE Give(f[n - 1], to[n - 1], n - 1)
    <3>1. CASE n = 0
      BY <1>6, <3>1
    <3>2. CASE n # 0
      <4>1. n \in 1..b
        BY <3>2
      <4> QED
        BY <1>7, <3>2, <4>1 DEF DealStep
    <3> QED
      BY <3>1, <3>2
  <2>2. DOMAIN f = 0..b /\ f = [n \in 0..b |-> f[n]]
    BY <1>6
  <2> HIDE DEF b
  <2> QED
    BY <2>1, <2>2 DEF b
<1>9. Rec(Dealt(to))
  <2> HIDE DEF Rec
  <2> QED
    BY <1>2, <1>8
<1> DEFINE d == Dealt(to)
<1>10. d = [n \in 0..b |-> IF n = 0 THEN NoParts ELSE DealStep(to, n, d[n - 1])]
  BY <1>9 DEF DealStep
<1> HIDE DEF d
<1> DEFINE st(n) == IF n = 0 THEN NoParts ELSE DealStep(to, n, d[n - 1])
<1>11. d[0] = NoParts /\ \A n \in 1..b : d[n] = DealStep(to, n, d[n - 1])
  <2>1. \A n \in 0..b : d[n] = st(n)
    <3> HIDE DEF st, b
    <3>1. d = [n \in 0..b |-> st(n)]
      BY <1>10 DEF st
    <3> QED
      BY <3>1
  <2>2. 0 \in 0..b /\ \A n \in 1..b : n \in 0..b /\ n # 0
    BY <1>1
  <2> HIDE DEF b
  <2> QED
    BY <2>1, <2>2
<1>12. d \in [0..b -> X]
  <2> DEFINE G == {n \in 0..b : d[n] \in X}
  <2>1. 0 \in G
    BY <1>1, <1>4, <1>11 DEF Recurrence
  <2>2. ASSUME NEW n \in 0..(b - 1), n \in G PROVE n + 1 \in G
    <3>1. n + 1 \in 1..b /\ n + 1 \in 0..b /\ (n + 1) - 1 = n
      BY <1>1
    <3>2. d[n + 1] = DealStep(to, n + 1, d[n])
      BY <1>11, <3>1
    <3> QED
      BY <1>3, <2>2, <3>1, <3>2
  <2>3. \A n \in 0..b : n \in G
    <3> HIDE DEF G, b
    <3> QED
      BY <1>1, <2>1, <2>2, UpTo
  <2>4. DOMAIN d = 0..b /\ d = [n \in 0..b |-> d[n]]
    BY <1>10
  <2> HIDE DEF X, b
  <2> QED
    BY <2>3, <2>4
<1> QED
  BY <1>11, <1>12 DEF d

\* What is dealt is held.
LEMMA DealtHolds ==
  ASSUME NEW M \in SUBSET Members, NEW to \in [Partition -> M \cup {None}]
  PROVE  \A n \in 0..PartitionCount :
           Holds(Dealt(to)[n], M, {p \in Partition : p < n /\ to[p] # None})
<1> DEFINE b == PartitionCount
           d == Dealt(to)
           S(n) == {p \in Partition : p < n /\ to[p] # None}
           G == {n \in 0..b : Holds(d[n], M, S(n))}
<1>1. b \in Nat /\ None \notin Members
  BY ConsumerGroupAssumption
<1>2. d[0] = NoParts /\ \A n \in 1..b : d[n] = DealStep(to, n, d[n - 1])
  <2>1. to \in [Partition -> Members \cup {None}]
    OBVIOUS
  <2> QED
    BY <2>1, DealtDef
<1> HIDE DEF d
<1>3. 0 \in G
  <2>1. S(0) = {}
    BY DEF Partition
  <2> HIDE DEF S
  <2> QED
    BY <1>1, <1>2, <2>1, NoPartsHold
<1>4. ASSUME NEW n \in 0..(b - 1), n \in G PROVE n + 1 \in G
  <2>1. n + 1 \in 1..b /\ n + 1 \in 0..b /\ (n + 1) - 1 = n /\ n \in Partition
    BY <1>1 DEF Partition
  <2>2. d[n + 1] = DealStep(to, n + 1, d[n])
    BY <1>2, <2>1
  <2>3. CASE to[n] = None
    <3>1. S(n + 1) = S(n)
      BY <2>3 DEF Partition
    <3>2. d[n + 1] = d[n]
      BY <2>1, <2>2, <2>3 DEF DealStep
    <3> HIDE DEF S
    <3> QED
      BY <1>4, <2>1, <3>1, <3>2
  <2>4. CASE to[n] # None
    <3>1. S(n + 1) = S(n) \cup {n} /\ n \notin S(n) /\ S(n) \in SUBSET Partition
      BY <2>1, <2>4 DEF Partition
    <3>2. d[n + 1] = Give(d[n], to[n], n) /\ to[n] \in M
      BY <2>1, <2>2, <2>4 DEF DealStep
    <3> HIDE DEF S
    <3> QED
      BY <1>4, <2>1, <3>1, <3>2, GiveHolds
  <2> QED
    BY <2>3, <2>4
<1>5. \A n \in 0..b : n \in G
  <2> HIDE DEF G, b
  <2> QED
    BY <1>1, <1>3, <1>4, UpTo
<1> QED
  BY <1>5 DEF d

-----------------------------------------------------------------------------
\* The strategies, for members in any order.

\* ms lists the members M.
Listed(ms, M) ==
  /\ ms \in Seq(M) /\ Len(ms) > 0
  /\ \A m \in M : \E i \in 1..Len(ms) : ms[i] = m
  /\ \A i, j \in 1..Len(ms) : ms[i] = ms[j] => i = j

LEMMA ListedFacts ==
  ASSUME NEW M, NEW ms, Listed(ms, M)
  PROVE  /\ ms \in Seq(M) /\ Len(ms) \in Nat \ {0} /\ DOMAIN ms = 1..Len(ms)
         /\ \A i \in 1..Len(ms) : ms[i] \in M
         /\ ToSet(ms) = M
<1>1. ms \in Seq(M) /\ Len(ms) \in Nat \ {0} /\ DOMAIN ms = 1..Len(ms)
  BY DEF Listed
<1>2. \A i \in 1..Len(ms) : ms[i] \in M
  BY <1>1
<1> QED
  BY <1>1, <1>2 DEF Listed, ToSet

\* The i-th of k members gets a share of n partitions; the first ones one more.
Share(n, k, i) == IF i <= n % k THEN (n \div k) + 1 ELSE n \div k

\* The next partition adds to the share of the member it goes to.
LEMMA NextShare ==
  ASSUME NEW n \in Nat, NEW k \in Nat \ {0}, NEW i \in 1..k
  PROVE  Share(n + 1, k, i) = IF i = (n % k) + 1 THEN Share(n, k, i) + 1 ELSE Share(n, k, i)
<1>1. n \div k \in Nat /\ n % k \in 0..(k - 1)
  BY DivMod
<1>2. PICK q, r, u, v : q = n \div k /\ r = n % k /\ u = (n + 1) \div k /\ v = (n + 1) % k
  OBVIOUS
<1>3. \/ r = k - 1 /\ v = 0 /\ u = q + 1
      \/ r < k - 1 /\ v = r + 1 /\ u = q
  BY <1>2, NextDiv
<1>4. q \in Nat /\ r \in 0..(k - 1)
  BY <1>1, <1>2
<1>5. (IF i <= v THEN u + 1 ELSE u)
        = IF i = r + 1 THEN (IF i <= r THEN q + 1 ELSE q) + 1 ELSE (IF i <= r THEN q + 1 ELSE q)
  BY <1>3, <1>4
<1> QED
  BY <1>2, <1>5 DEF Share

\* Round robin deals every partition, and evenly.
LEMMA RoundRobinDeals ==
  ASSUME NEW M \in SUBSET Members, NEW ms, Listed(ms, M)
  PROVE  /\ Holds(rebalanceRoundRobin(ms), M, Partition)
         /\ \A i \in 1..Len(ms) :
              Len(rebalanceRoundRobin(ms)[ms[i]]) = Share(PartitionCount, Len(ms), i)
<1> DEFINE b == PartitionCount
           k == Len(ms)
           to == [p \in Partition |-> ms[(p % k) + 1]]
           d == Dealt(to)
<1>1. b \in Nat \ {0} /\ None \notin Members
  BY ConsumerGroupAssumption
<1>2. k \in Nat \ {0} /\ \A i \in 1..k : ms[i] \in M
  BY ListedFacts
<1>3. ASSUME NEW p \in Partition PROVE (p % k) + 1 \in 1..k /\ p \in Nat
  <2>1. p \in Nat
    BY DEF Partition
  <2>2. p % k \in 0..(k - 1)
    BY <1>2, <2>1, DivMod
  <2> HIDE DEF k
  <2> QED
    BY <1>2, <2>1, <2>2
<1>4. /\ to \in [Partition -> M \cup {None}]
      /\ \A p \in Partition : to[p] = ms[(p % k) + 1] /\ to[p] \in M /\ to[p] # None
  <2> HIDE DEF k
  <2> QED
    BY <1>1, <1>2, <1>3
<1>5. rebalanceRoundRobin(ms) = d[b]
  BY DEF rebalanceRoundRobin
<1> HIDE DEF to, k
<1>6. Holds(d[b], M, Partition)
  <2>1. {p \in Partition : p < b /\ to[p] # None} = Partition
    BY <1>1, <1>4 DEF Partition
  <2>2. b \in 0..b
    BY <1>1
  <2>3. Holds(d[b], M, {p \in Partition : p < b /\ to[p] # None})
    BY <1>4, <2>2, DealtHolds
  <2> QED
    BY <2>1, <2>3
<1>7. /\ d \in [0..b -> Lists]
      /\ d[0] = NoParts /\ \A n \in 1..b : d[n] = DealStep(to, n, d[n - 1])
  <2>1. to \in [Partition -> Members \cup {None}]
    BY <1>4
  <2> QED
    BY <2>1, DealtDef
<1> HIDE DEF d
<1> DEFINE G == {n \in 0..b : \A i \in 1..k : Len(d[n][ms[i]]) = Share(n, k, i)}
<1>8. 0 \in G
  <2>1. ASSUME NEW i \in 1..k PROVE Len(d[0][ms[i]]) = 0 /\ Share(0, k, i) = 0
    <3>1. ms[i] \in Members
      BY <1>2
    <3>2. 0 \div k = 0 /\ 0 % k = 0
      <4>1. 0 \div k \in Nat /\ 0 % k \in 0..(k - 1) /\ 0 = k * (0 \div k) + (0 % k)
        BY <1>2, DivMod
      <4>2. k * 0 + 0 = 0 /\ 0 \in 0..(k - 1)
        BY <1>2
      <4> QED
        BY <1>2, <4>1, <4>2, DivUnique
    <3>3. Share(0, k, i) = 0
      BY <3>2 DEF Share
    <3> QED
      BY <1>7, <3>1, <3>3 DEF NoParts
  <2> QED
    BY <1>1, <2>1
<1>9. ASSUME NEW n \in 0..(b - 1), n \in G PROVE n + 1 \in G
  <2>1. n + 1 \in 1..b /\ n + 1 \in 0..b /\ n \in 0..b /\ (n + 1) - 1 = n /\ n \in Partition /\ n \in Nat
    BY <1>1 DEF Partition
  <2>2. d[n] \in Lists
    BY <1>7, <2>1
  <2>3. d[n + 1] = Give(d[n], to[n], n)
    BY <1>4, <1>7, <2>1 DEF DealStep
  <2>4. to[n] = ms[(n % k) + 1] /\ (n % k) + 1 \in 1..k /\ to[n] \in Members
    BY <1>3, <1>4, <2>1
  <2>5. ASSUME NEW i \in 1..k PROVE Len(d[n + 1][ms[i]]) = Share(n + 1, k, i)
    <3>1. Len(d[n][ms[i]]) = Share(n, k, i) /\ ms[i] \in Members
      BY <1>2, <1>9
    <3>2. CASE i = (n % k) + 1
      <4>1. Len(d[n + 1][ms[i]]) = Len(d[n][ms[i]]) + 1
        BY <2>1, <2>2, <2>3, <2>4, <3>2, GiveFacts DEF Lists
      <4> QED
        BY <1>2, <2>1, <3>1, <3>2, <4>1, NextShare
    <3>3. CASE i # (n % k) + 1
      <4>1. ms[i] # to[n]
        BY <2>4, <3>3 DEF Listed, k
      <4>2. d[n + 1][ms[i]] = d[n][ms[i]]
        BY <2>1, <2>2, <2>3, <2>4, <3>1, <4>1, GiveFacts DEF Lists
      <4> QED
        BY <1>2, <2>1, <3>1, <3>3, <4>2, NextShare
    <3> QED
      BY <3>2, <3>3
  <2> QED
    BY <2>1, <2>5
<1>10. \A n \in 0..b : n \in G
  <2> HIDE DEF G, b
  <2>1. b \in Nat
    BY <1>1
  <2> QED
    BY <1>8, <1>9, <2>1, UpTo
<1>11. b \in G
  <2>1. b \in 0..b
    BY <1>1
  <2> QED
    BY <1>10, <2>1
<1> QED
  BY <1>5, <1>6, <1>11 DEF k

\* Min of two numbers.
LEMMA MinOfTwo ==
  ASSUME NEW x \in Int, NEW y \in Int
  PROVE  Min({x, y}) = IF x <= y THEN x ELSE y
<1> DEFINE v == IF x <= y THEN x ELSE y
<1>1. v \in {x, y} /\ \A u \in {x, y} : v <= u
  OBVIOUS
<1>2. \A w \in {x, y} : (\A u \in {x, y} : w <= u) => w = v
  OBVIOUS
<1>3. Min({x, y}) \in {x, y} /\ \A u \in {x, y} : Min({x, y}) <= u
  BY <1>1 DEF Min
<1> QED
  BY <1>2, <1>3

\* The ranges follow each other from the first partition to the last, and the i-th is
\* as long as the share of the i-th member.
LEMMA RangesFollow ==
  ASSUME NEW k \in Nat \ {0}
  PROVE  /\ RangeStart(k, 1) = 0 /\ RangeStart(k, k + 1) = PartitionCount
         /\ \A i \in 1..(k + 1) : RangeStart(k, i) \in Nat
         /\ \A i \in 1..k : RangeStart(k, i + 1) = RangeStart(k, i) + Share(PartitionCount, k, i)
         /\ \A i, j \in 1..(k + 1) : i <= j => RangeStart(k, i) <= RangeStart(k, j)
<1>1. PICK b, q, r : b = PartitionCount /\ q = b \div k /\ r = b % k
  OBVIOUS
<1>2. b \in Nat /\ q \in Nat /\ r \in 0..(k - 1) /\ b = k * q + r
  <2>1. b \in Nat
    BY <1>1, ConsumerGroupAssumption
  <2> QED
    BY <1>1, <2>1, DivMod
<1> DEFINE L(i) == IF i - 1 <= r THEN i - 1 ELSE r
<1>3. ASSUME NEW i \in 1..(k + 1) PROVE RangeStart(k, i) = (i - 1) * q + L(i)
  <2>1. i - 1 \in Int /\ r \in Int
    BY <1>2
  <2>2. Min({i - 1, r}) = L(i)
    BY <2>1, MinOfTwo
  <2> HIDE DEF L
  <2> QED
    BY <1>1, <2>2 DEF RangeStart
<1>4. \A i \in 1..(k + 1) : (i - 1) * q \in Nat /\ L(i) \in Nat
  <2>1. ASSUME NEW i \in 1..(k + 1) PROVE i - 1 \in Nat
    OBVIOUS
  <2>2. \A x \in Nat : x * q \in Nat
    BY <1>2
  <2> QED
    BY <1>2, <2>1, <2>2
<1>5. RangeStart(k, 1) = 0
  <2>1. (1 - 1) * q = 0 /\ L(1) = 0 /\ 1 \in 1..(k + 1)
    BY <1>2
  <2> QED
    BY <1>3, <2>1
<1>6. RangeStart(k, k + 1) = PartitionCount
  <2>1. ((k + 1) - 1) * q = k * q /\ L(k + 1) = r /\ k + 1 \in 1..(k + 1)
    BY <1>2
  <2> QED
    BY <1>1, <1>2, <1>3, <2>1
<1>7. \A i \in 1..(k + 1) : RangeStart(k, i) \in Nat
  <2> HIDE DEF L
  <2> QED
    BY <1>3, <1>4
<1>8. ASSUME NEW i \in 1..k
      PROVE  RangeStart(k, i + 1) = RangeStart(k, i) + Share(PartitionCount, k, i)
  <2>1. i \in 1..(k + 1) /\ i + 1 \in 1..(k + 1) /\ (i + 1) - 1 = i
    OBVIOUS
  <2>2. RangeStart(k, i) = (i - 1) * q + L(i) /\ RangeStart(k, i + 1) = i * q + L(i + 1)
    BY <1>3, <2>1
  <2>3. i * q = (i - 1) * q + q /\ (i - 1) * q \in Nat
    BY <1>2, <1>4, <2>1
  <2>4. Share(PartitionCount, k, i) = IF i <= r THEN q + 1 ELSE q
    BY <1>1 DEF Share
  <2>5. L(i + 1) + q = L(i) + (IF i <= r THEN q + 1 ELSE q)
    BY <1>2
  <2>6. L(i) \in Nat /\ L(i + 1) \in Nat /\ (IF i <= r THEN q + 1 ELSE q) \in Nat
    BY <1>2, <1>4, <2>1
  <2> HIDE DEF L
  <2> QED
    BY <1>2, <2>2, <2>3, <2>4, <2>5, <2>6
<1>9. ASSUME NEW i \in 1..(k + 1), NEW j \in 1..(k + 1), i <= j
      PROVE  RangeStart(k, i) <= RangeStart(k, j)
  <2>1. PICK x, y : x = i - 1 /\ y = j - i
    OBVIOUS
  <2>2. x \in Nat /\ y \in Nat /\ j - 1 = x + y
    BY <1>9, <2>1
  <2>3. (x + y) * q = x * q + y * q /\ x * q \in Nat /\ y * q \in Nat
    BY <1>2, <2>2
  <2>4. L(i) <= L(j) /\ L(i) \in Nat /\ L(j) \in Nat
    BY <1>2, <1>9
  <2> HIDE DEF L
  <2> QED
    BY <1>3, <2>1, <2>2, <2>3, <2>4
<1> QED
  BY <1>5, <1>6, <1>7, <1>8, <1>9

\* The partitions from x to before y.
LEMMA IntervalFacts ==
  ASSUME NEW x \in Nat, NEW y \in Nat, x <= y, y <= PartitionCount
  PROVE  /\ Interval(x, y) \in Seq(Partition)
         /\ Len(Interval(x, y)) = y - x
         /\ \A i \in 1..(y - x) : Interval(x, y)[i] = x + i - 1
<1>1. PICK n \in Nat : n = y - x
  OBVIOUS
<1>2. Interval(x, y) = [i \in 1..n |-> x + i - 1]
  BY <1>1 DEF Interval
<1>3. PartitionCount \in Nat
  BY ConsumerGroupAssumption
<1>4. ASSUME NEW i \in 1..n PROVE x + i - 1 \in Partition
  BY <1>1, <1>3 DEF Partition
<1>5. [i \in 1..n |-> x + i - 1] \in Seq(Partition) /\ Len([i \in 1..n |-> x + i - 1]) = n
  BY <1>4
<1> QED
  BY <1>1, <1>2, <1>5

\* Range deals every partition, and evenly.
LEMMA RangeDeals ==
  ASSUME NEW M \in SUBSET Members, NEW ms, Listed(ms, M)
  PROVE  /\ Holds(rebalanceRange(ms), M, Partition)
         /\ \A i \in 1..Len(ms) :
              Len(rebalanceRange(ms)[ms[i]]) = Share(PartitionCount, Len(ms), i)
<1> DEFINE k == Len(ms)
           F(i) == RangeStart(k, i)
           ps == rebalanceRange(ms)
<1>1. PartitionCount \in Nat \ {0}
  BY ConsumerGroupAssumption
<1>2. /\ k \in Nat \ {0} /\ \A i \in 1..k : ms[i] \in M
      /\ DOMAIN ms = 1..k /\ ToSet(ms) = M
  BY ListedFacts
<1>3. /\ \A m \in M : \E i \in 1..k : ms[i] = m
      /\ \A i, j \in 1..k : ms[i] = ms[j] => i = j
  BY DEF Listed
<1> HIDE DEF k
<1>4. /\ F(1) = 0 /\ F(k + 1) = PartitionCount
      /\ \A i \in 1..(k + 1) : F(i) \in Nat
      /\ \A i \in 1..k : F(i + 1) = F(i) + Share(PartitionCount, k, i)
      /\ \A i, j \in 1..(k + 1) : i <= j => F(i) <= F(j)
  BY <1>2, RangesFollow
<1>5. ASSUME NEW i \in 1..k PROVE Position(ms, ms[i]) = i
  BY <1>2, <1>3 DEF Position
<1>6. DOMAIN ps = Members /\ \A m \in Members \ M : ps[m] = <<>>
  BY <1>2 DEF rebalanceRange
<1>7. ASSUME NEW i \in 1..k PROVE ps[ms[i]] = Interval(F(i), F(i + 1))
  BY <1>2, <1>5 DEF rebalanceRange, k
<1> HIDE DEF ps, F
<1>8. ASSUME NEW i \in 1..k
      PROVE  /\ F(i) \in Nat /\ F(i + 1) \in Nat /\ F(i) <= F(i + 1) /\ F(i + 1) <= PartitionCount
             /\ ps[ms[i]] \in Seq(Partition)
             /\ Len(ps[ms[i]]) = F(i + 1) - F(i)
             /\ \A j \in 1..Len(ps[ms[i]]) : ps[ms[i]][j] = F(i) + j - 1
  <2>1. i \in 1..(k + 1) /\ i + 1 \in 1..(k + 1) /\ k + 1 \in 1..(k + 1) /\ i <= i + 1 /\ i + 1 <= k + 1
    BY <1>2
  <2>2. F(i) \in Nat /\ F(i + 1) \in Nat /\ F(i) <= F(i + 1) /\ F(i + 1) <= PartitionCount
    BY <1>4, <2>1
  <2>3. PICK x, y : x = F(i) /\ y = F(i + 1)
    OBVIOUS
  <2>4. /\ Interval(x, y) \in Seq(Partition) /\ Len(Interval(x, y)) = y - x
        /\ \A j \in 1..(y - x) : Interval(x, y)[j] = x + j - 1
    BY <2>2, <2>3, IntervalFacts
  <2>5. ps[ms[i]] = Interval(x, y)
    BY <1>7, <2>3
  <2> QED
    BY <2>2, <2>3, <2>4, <2>5
<1>9. ps \in [Members -> Seq(Partition)]
  <2>1. ASSUME NEW m \in Members PROVE ps[m] \in Seq(Partition)
    <3>1. CASE m \in M
      <4>1. PICK i \in 1..k : ms[i] = m
        BY <1>3, <3>1
      <4> QED
        BY <1>8, <4>1
    <3>2. CASE m \notin M
      <4>1. ps[m] = <<>>
        BY <1>6, <3>2
      <4>2. <<>> \in Seq(Partition)
        OBVIOUS
      <4> QED
        BY <4>1, <4>2
    <3> QED
      BY <3>1, <3>2
  <2>2. ps = [m \in Members |-> ps[m]]
    BY <1>6 DEF ps, rebalanceRange
  <2> QED
    BY <2>1, <2>2
<1>10. ASSUME NEW m \in Members, NEW i \in 1..Len(ps[m])
       PROVE  ps[m][i] \in Partition /\ m \in M
  <2>1. m \in M
    BY <1>6, <1>10
  <2>2. ps[m] \in Seq(Partition)
    BY <1>9
  <2> QED
    BY <2>1, <2>2
<1>11. ASSUME NEW p \in Partition
       PROVE  \E m \in Members : \E i \in 1..Len(ps[m]) : ps[m][i] = p
  <2> DEFINE T == {i \in 1..k : p < F(i + 1)}
  <2>1. T \in SUBSET Nat /\ T # {}
    <3>1. k \in T
      BY <1>1, <1>2, <1>4 DEF Partition
    <3>2. T \in SUBSET (1..k) /\ 1..k \in SUBSET Nat
      BY <1>2
    <3> HIDE DEF T
    <3> QED
      BY <3>1, <3>2
  <2>2. PICK i \in T : \A j \in T : i <= j
    <3> HIDE DEF T
    <3> QED
      BY <2>1, LeastNat
  <2>3. i \in 1..k /\ p < F(i + 1) /\ p \in Nat
    BY <2>2 DEF Partition
  <2>4. F(i) <= p
    <3>1. CASE i = 1
      BY <1>4, <2>3, <3>1
    <3>2. CASE i # 1
      <4>1. i - 1 \in 1..k /\ (i - 1) + 1 = i /\ i - 1 < i
        BY <1>2, <2>3, <3>2
      <4>2. i - 1 \notin T
        BY <2>2, <4>1
      <4>3. F(i) \in Nat
        BY <1>8, <2>3
      <4>4. ~(p < F((i - 1) + 1))
        BY <4>1, <4>2
      <4> QED
        BY <2>3, <4>1, <4>3, <4>4
    <3> QED
      BY <3>1, <3>2
  <2>5. p - F(i) + 1 \in 1..Len(ps[ms[i]]) /\ F(i) + (p - F(i) + 1) - 1 = p
    BY <1>8, <2>3, <2>4
  <2>6. ps[ms[i]][p - F(i) + 1] = p /\ ms[i] \in Members
    BY <1>2, <1>8, <2>3, <2>5
  <2> QED
    BY <2>5, <2>6
<1>12. ASSUME NEW i \in 1..k, NEW j \in 1..k, i < j,
              NEW x \in 1..Len(ps[ms[i]]), NEW y \in 1..Len(ps[ms[j]])
       PROVE  ps[ms[i]][x] # ps[ms[j]][y]
  <2>1. i + 1 \in 1..(k + 1) /\ j \in 1..(k + 1) /\ i + 1 <= j
    BY <1>2, <1>12
  <2>2. F(i + 1) <= F(j)
    BY <1>4, <2>1
  <2>3. ps[ms[i]][x] = F(i) + x - 1 /\ ps[ms[j]][y] = F(j) + y - 1
    BY <1>8
  <2>4. /\ F(i) \in Nat /\ F(i + 1) \in Nat /\ F(j) \in Nat
        /\ x \in Nat /\ x <= F(i + 1) - F(i) /\ y \in Nat /\ 1 <= y
    <3>1. /\ Len(ps[ms[i]]) = F(i + 1) - F(i) /\ F(i) \in Nat /\ F(i + 1) \in Nat
          /\ Len(ps[ms[j]]) = F(j + 1) - F(j) /\ F(j) \in Nat /\ F(j + 1) \in Nat
      BY <1>8
    <3> QED
      BY <3>1
  <2>5. F(i) + x - 1 # F(j) + y - 1
    BY <2>2, <2>4
  <2> QED
    BY <2>3, <2>5
<1>13. ASSUME NEW m \in Members, NEW l \in Members,
              NEW x \in 1..Len(ps[m]), NEW y \in 1..Len(ps[l]), ps[m][x] = ps[l][y]
       PROVE  m = l /\ x = y
  <2>1. m \in M /\ l \in M
    BY <1>10
  <2>2. PICK i \in 1..k : ms[i] = m
    BY <1>3, <2>1
  <2>3. PICK j \in 1..k : ms[j] = l
    BY <1>3, <2>1
  <2>4. ~(i < j) /\ ~(j < i)
    BY <1>12, <1>13, <2>2, <2>3
  <2>5. i = j
    BY <1>2, <2>4
  <2>6. F(i) + x - 1 = F(i) + y - 1 /\ F(i) \in Nat /\ x \in Nat /\ y \in Nat
    <3>1. x \in 1..Len(ps[ms[i]]) /\ y \in 1..Len(ps[ms[i]]) /\ ps[ms[i]][x] = ps[ms[i]][y]
      BY <1>13, <2>2, <2>3, <2>5
    <3>2. ps[ms[i]][x] = F(i) + x - 1 /\ ps[ms[i]][y] = F(i) + y - 1
      BY <1>8, <3>1
    <3>3. PICK n, f : n = Len(ps[ms[i]]) /\ f = F(i)
      OBVIOUS
    <3>4. n \in Nat /\ f \in Nat
      <4>1. n = F(i + 1) - F(i) /\ F(i) <= F(i + 1) /\ F(i) \in Nat /\ F(i + 1) \in Nat
        BY <1>8, <3>3
      <4> QED
        BY <3>3, <4>1
    <3>5. x \in Nat /\ y \in Nat
      BY <3>1, <3>3, <3>4
    <3> QED
      BY <3>1, <3>2, <3>3, <3>4, <3>5
  <2> QED
    BY <2>2, <2>3, <2>5, <2>6
<1>14. Holds(ps, M, Partition)
  BY <1>6, <1>9, <1>10, <1>11, <1>13 DEF Holds
<1>15. ASSUME NEW i \in 1..k PROVE Len(ps[ms[i]]) = Share(PartitionCount, k, i)
  <2>1. F(i + 1) = F(i) + Share(PartitionCount, k, i) /\ Share(PartitionCount, k, i) \in Nat
    <3>1. PartitionCount \div k \in Nat
      BY <1>1, <1>2, DivMod
    <3> QED
      BY <1>4, <3>1 DEF Share
  <2> QED
    BY <1>8, <2>1
<1> QED
  BY <1>14, <1>15 DEF ps, k

\* Min is the least of a set of numbers.
LEMMA MinIn ==
  ASSUME NEW S \in SUBSET Nat, S # {}
  PROVE  Min(S) \in S
<1>1. \E x \in S : \A y \in S : x <= y
  BY LeastNat
<1> QED
  BY <1>1 DEF Min

\* The element of a singleton.
LEMMA TheOne == ASSUME NEW x PROVE The({x}) = x
BY DEF The

\* Some member of a list has the fewest partitions, some the most.
LEMMA LeastAt ==
  ASSUME NEW k \in Nat, NEW f \in [1..k -> Nat], NEW I \in SUBSET (1..k), I # {}
  PROVE  \E i \in I : \A j \in I : f[i] <= f[j]
<1> DEFINE T == {f[i] : i \in I}
<1>1. T \in SUBSET Nat /\ T # {}
  OBVIOUS
<1>2. PICK t \in T : \A u \in T : t <= u
  <2> HIDE DEF T
  <2> QED
    BY <1>1, LeastNat
<1>3. PICK i \in I : t = f[i]
  BY <1>2
<1>4. \A j \in I : f[j] \in T
  OBVIOUS
<1> QED
  BY <1>2, <1>3, <1>4

LEMMA GreatestAt ==
  ASSUME NEW k \in Nat, NEW f \in [1..k -> Nat], NEW I \in SUBSET (1..k), I # {}
  PROVE  \E i \in I : \A j \in I : f[j] <= f[i]
<1> DEFINE G == {n \in 0..k : \/ \A i \in I : i > n
                              \/ \E i \in I : i <= n /\ \A j \in I : j <= n => f[j] <= f[i]}
<1>1. 0 \in G
  OBVIOUS
<1>2. ASSUME NEW n \in 0..(k - 1), n \in G PROVE n + 1 \in G
  <2>1. CASE n + 1 \notin I
    <3>1. \A j \in I : j <= n + 1 => j <= n
      BY <2>1
    <3>2. CASE \A i \in I : i > n
      <4>1. \A i \in I : i > n + 1
        BY <2>1, <3>2
      <4> QED
        BY <4>1
    <3>3. CASE \E i \in I : i <= n /\ \A j \in I : j <= n => f[j] <= f[i]
      <4>1. PICK i \in I : i <= n /\ \A j \in I : j <= n => f[j] <= f[i]
        BY <3>3
      <4>2. i <= n + 1 /\ \A j \in I : j <= n + 1 => f[j] <= f[i]
        BY <3>1, <4>1
      <4>3. n + 1 \in 0..k
        OBVIOUS
      <4> QED
        BY <4>2, <4>3
    <3> QED
      BY <1>2, <3>2, <3>3
  <2>2. CASE n + 1 \in I
    <3>1. \A j \in I : j <= n + 1 => j <= n \/ j = n + 1
      OBVIOUS
    <3>2. n + 1 \in 0..k /\ f[n + 1] \in Nat /\ n + 1 <= n + 1
      BY <2>2
    <3>3. CASE \A j \in I : j <= n => f[j] <= f[n + 1]
      <4>1. \A j \in I : j <= n + 1 => f[j] <= f[n + 1]
        BY <3>1, <3>2, <3>3
      <4> QED
        BY <2>2, <3>2, <4>1
    <3>4. CASE ~ \A j \in I : j <= n => f[j] <= f[n + 1]
      <4>1. PICK l \in I : l <= n /\ ~(f[l] <= f[n + 1])
        BY <3>4
      <4>2. PICK i \in I : i <= n /\ \A j \in I : j <= n => f[j] <= f[i]
        BY <1>2, <4>1
      <4>3. f[n + 1] <= f[i]
        <5>1. f[l] <= f[i] /\ f[l] \in Nat /\ f[i] \in Nat
          BY <4>1, <4>2
        <5> QED
          BY <3>2, <4>1, <5>1
      <4>4. i <= n + 1 /\ \A j \in I : j <= n + 1 => f[j] <= f[i]
        BY <3>1, <4>2, <4>3
      <4> QED
        BY <3>2, <4>4
    <3> QED
      BY <3>3, <3>4
  <2> QED
    BY <2>1, <2>2
<1>3. k \in G
  <2>1. \A n \in 0..k : n \in G
    <3> HIDE DEF G
    <3> QED
      BY <1>1, <1>2, UpTo
  <2> HIDE DEF G
  <2> QED
    BY <2>1
<1>4. ~ \A i \in I : i > k
  <2>1. PICK i \in I : TRUE
    OBVIOUS
  <2>2. i \in 1..k
    OBVIOUS
  <2> QED
    BY <2>2
<1>5. PICK i \in I : i <= k /\ \A j \in I : j <= k => f[j] <= f[i]
  BY <1>3, <1>4
<1> QED
  BY <1>5

\* How many partitions each member of a list has.
LEMMA Counts ==
  ASSUME NEW M \in SUBSET Members, NEW ms, Listed(ms, M), NEW ps \in Lists
  PROVE  \E f \in [1..Len(ms) -> Nat] : \A i \in 1..Len(ms) : f[i] = Len(ps[ms[i]])
<1> DEFINE f == [i \in 1..Len(ms) |-> Len(ps[ms[i]])]
<1>1. ASSUME NEW i \in 1..Len(ms) PROVE Len(ps[ms[i]]) \in Nat
  <2>1. ps[ms[i]] \in Seq(Partition)
    BY ListedFacts DEF Lists
  <2> QED
    BY <2>1
<1>2. f \in [1..Len(ms) -> Nat] /\ \A i \in 1..Len(ms) : f[i] = Len(ps[ms[i]])
  BY <1>1
<1> HIDE DEF f
<1> QED
  BY <1>2

LEMMA FewestIsMember ==
  ASSUME NEW M \in SUBSET Members, NEW ms, Listed(ms, M), NEW ps \in Lists
  PROVE  memberWithFewest(ms, ps) \in M
<1> DEFINE k == Len(ms)
           T == {i \in DOMAIN ms : \A j \in DOMAIN ms : Len(ps[ms[i]]) <= Len(ps[ms[j]])}
<1>1. k \in Nat \ {0} /\ DOMAIN ms = 1..k /\ \A i \in 1..k : ms[i] \in M
  BY ListedFacts
<1>2. PICK f \in [1..k -> Nat] : \A i \in 1..k : f[i] = Len(ps[ms[i]])
  BY Counts
<1> HIDE DEF k
<1>3. PICK i \in 1..k : \A j \in 1..k : f[i] <= f[j]
  <2>1. 1 \in 1..k
    BY <1>1
  <2> QED
    BY <1>1, <2>1, LeastAt
<1>4. T \in SUBSET Nat /\ i \in T /\ T \in SUBSET (1..k)
  BY <1>1, <1>2, <1>3
<1>5. Min(T) \in T
  <2> HIDE DEF T
  <2> QED
    BY <1>4, MinIn
<1>6. memberWithFewest(ms, ps) = ms[Min(T)]
  BY DEF memberWithFewest
<1> HIDE DEF T
<1> QED
  BY <1>1, <1>4, <1>5, <1>6

\* One step of Distributed.
DistributeStep(ms, prev, n, ps) ==
  IF prev[n - 1] \in ToSet(ms) THEN ps ELSE Give(ps, memberWithFewest(ms, ps), n - 1)

\* The partitions of members that stay are kept.
LEMMA KeptHolds ==
  ASSUME NEW M \in SUBSET Members, NEW ms, Listed(ms, M),
         NEW prev \in [Partition -> Members \cup {None}]
  PROVE  Holds(Kept(ms, prev), M, {p \in Partition : prev[p] \in M})
<1> DEFINE to == [p \in Partition |-> IF prev[p] \in M THEN prev[p] ELSE None]
<1>1. PartitionCount \in Nat /\ None \notin Members
  BY ConsumerGroupAssumption
<1>2. Kept(ms, prev) = Dealt(to)[PartitionCount]
  BY ListedFacts DEF Kept
<1>3. to \in [Partition -> M \cup {None}] /\ \A p \in Partition : to[p] # None <=> prev[p] \in M
  BY <1>1
<1>4. {p \in Partition : p < PartitionCount /\ to[p] # None} = {p \in Partition : prev[p] \in M}
  BY <1>1, <1>3 DEF Partition
<1> HIDE DEF to
<1>5. PartitionCount \in 0..PartitionCount
  BY <1>1
<1>6. Holds(Dealt(to)[PartitionCount], M,
            {p \in Partition : p < PartitionCount /\ to[p] # None})
  BY <1>3, <1>5, DealtHolds
<1> QED
  BY <1>2, <1>4, <1>6

\* Distributed gives away one partition after the other.
LEMMA DistributedDef ==
  ASSUME NEW M \in SUBSET Members, NEW ms, Listed(ms, M),
         NEW prev \in [Partition -> Members \cup {None}]
  PROVE  /\ Distributed(ms, prev)[0] = Kept(ms, prev)
         /\ \A n \in 1..PartitionCount :
              Distributed(ms, prev)[n] = DistributeStep(ms, prev, n, Distributed(ms, prev)[n - 1])
<1> DEFINE b == PartitionCount
           Rec(f) == f = [n \in 0..PartitionCount |->
              IF n = 0 THEN Kept(ms, prev)
              ELSE IF prev[n - 1] \in ToSet(ms) THEN f[n - 1]
              ELSE The({Give(ps, memberWithFewest(ms, ps), n - 1) : ps \in {f[n - 1]}})]
           X == Lists
           z == Kept(ms, prev)
           E == [w \in (1..b) \X X |-> DistributeStep(ms, prev, w[1], w[2])]
<1>1. b \in Nat
  BY ConsumerGroupAssumption
<1>2. Distributed(ms, prev) = CHOOSE f : Rec(f)
  BY DEF Distributed
<1>3. ASSUME NEW n \in 1..b, NEW ps \in X PROVE DistributeStep(ms, prev, n, ps) \in X
  <2>1. n - 1 \in Partition
    BY <1>1 DEF Partition
  <2>2. memberWithFewest(ms, ps) \in Members
    BY FewestIsMember
  <2>3. Give(ps, memberWithFewest(ms, ps), n - 1) \in Lists
    BY <2>1, <2>2, GiveFacts DEF Lists
  <2> QED
    BY <2>3 DEF DistributeStep
<1>4. Recurrence(b, X, z, E)
  <2>1. z \in X
    BY KeptHolds DEF Holds, Lists
  <2>2. ASSUME NEW n \in 1..b, NEW ps \in X PROVE E[<<n, ps>>] \in X
    <3>1. DistributeStep(ms, prev, n, ps) \in X
      BY <1>3
    <3> HIDE DEF X
    <3> QED
      BY <3>1
  <2> HIDE DEF E, z, X
  <2> QED
    BY <2>1, <2>2 DEF Recurrence
<1>5. PICK f : Follows(f, b, X, z, E)
  <2> HIDE DEF E, z, X, b
  <2> QED
    BY <1>1, <1>4, Recursion
<1>6. f \in [0..b -> X] /\ f[0] = Kept(ms, prev)
  BY <1>5 DEF Follows
<1>7. ASSUME NEW n \in 1..b PROVE f[n] = DistributeStep(ms, prev, n, f[n - 1])
  <2>1. n - 1 \in 0..b
    BY <1>1
  <2>2. f[n - 1] \in X
    BY <1>6, <2>1
  <2>3. f[n] = E[<<n, f[n - 1]>>]
    BY <1>5 DEF Follows
  <2> HIDE DEF X
  <2> QED
    BY <2>2, <2>3
<1>8. ASSUME NEW n, NEW x
      PROVE  (IF prev[n - 1] \in ToSet(ms) THEN x
              ELSE The({Give(ps, memberWithFewest(ms, ps), n - 1) : ps \in {x}}))
               = DistributeStep(ms, prev, n, x)
  <2>1. {Give(ps, memberWithFewest(ms, ps), n - 1) : ps \in {x}}
          = {Give(x, memberWithFewest(ms, x), n - 1)}
    OBVIOUS
  <2>2. The({Give(ps, memberWithFewest(ms, ps), n - 1) : ps \in {x}})
          = Give(x, memberWithFewest(ms, x), n - 1)
    BY <2>1, TheOne
  <2> QED
    BY <2>2 DEF DistributeStep
<1>9. \A g : Rec(g) <=> g = [n \in 0..b |-> IF n = 0 THEN Kept(ms, prev)
                                            ELSE DistributeStep(ms, prev, n, g[n - 1])]
  BY <1>8
<1>10. Rec(f)
  <2>1. ASSUME NEW n \in 0..b
        PROVE  f[n] = IF n = 0 THEN Kept(ms, prev) ELSE DistributeStep(ms, prev, n, f[n - 1])
    <3>1. CASE n = 0
      BY <1>6, <3>1
    <3>2. CASE n # 0
      <4>1. n \in 1..b
        BY <3>2
      <4> QED
        BY <1>7, <3>2, <4>1
    <3> QED
      BY <3>1, <3>2
  <2>2. f = [n \in 0..b |-> f[n]]
    BY <1>6
  <2>3. f = [n \in 0..b |-> IF n = 0 THEN Kept(ms, prev) ELSE DistributeStep(ms, prev, n, f[n - 1])]
    <3> HIDE DEF b
    <3> QED
      BY <2>1, <2>2
  <2> HIDE DEF Rec
  <2> QED
    BY <1>9, <2>3
<1>11. Rec(Distributed(ms, prev))
  <2> HIDE DEF Rec
  <2> QED
    BY <1>2, <1>10
<1> DEFINE d == Distributed(ms, prev)
           st(n) == IF n = 0 THEN Kept(ms, prev) ELSE DistributeStep(ms, prev, n, d[n - 1])
<1>12. d = [n \in 0..b |-> st(n)]
  <2> HIDE DEF Rec
  <2> QED
    BY <1>9, <1>11
<1> HIDE DEF d
<1>13. \A n \in 0..b : d[n] = st(n)
  <2> HIDE DEF st, b
  <2> QED
    BY <1>12
<1>14. 0 \in 0..b /\ \A n \in 1..b : n \in 0..b /\ n # 0
  BY <1>1
<1>15. d[0] = Kept(ms, prev) /\ \A n \in 1..b : d[n] = DistributeStep(ms, prev, n, d[n - 1])
  <2> HIDE DEF b
  <2> QED
    BY <1>13, <1>14
<1> QED
  BY <1>15 DEF d

\* In the end every partition is held.
LEMMA DistributedHolds ==
  ASSUME NEW M \in SUBSET Members, NEW ms, Listed(ms, M),
         NEW prev \in [Partition -> Members \cup {None}]
  PROVE  Holds(Distributed(ms, prev)[PartitionCount], M, Partition)
<1> DEFINE b == PartitionCount
           d == Distributed(ms, prev)
           S(n) == {p \in Partition : prev[p] \in M \/ p < n}
           G == {n \in 0..b : Holds(d[n], M, S(n))}
<1>1. b \in Nat /\ ToSet(ms) = M
  BY ConsumerGroupAssumption, ListedFacts
<1>2. d[0] = Kept(ms, prev) /\ \A n \in 1..b : d[n] = DistributeStep(ms, prev, n, d[n - 1])
  BY DistributedDef
<1> HIDE DEF d
<1>3. 0 \in G
  <2>1. S(0) = {p \in Partition : prev[p] \in M}
    BY DEF Partition
  <2>2. Holds(d[0], M, S(0))
    BY <1>2, <2>1, KeptHolds
  <2> HIDE DEF S
  <2> QED
    BY <1>1, <2>2
<1>4. ASSUME NEW n \in 0..(b - 1), n \in G PROVE n + 1 \in G
  <2>1. n + 1 \in 1..b /\ n + 1 \in 0..b /\ (n + 1) - 1 = n /\ n \in Partition
    BY <1>1 DEF Partition
  <2>2. d[n + 1] = DistributeStep(ms, prev, n + 1, d[n])
    BY <1>2, <2>1
  <2>3. CASE prev[n] \in M
    <3>1. S(n + 1) = S(n)
      BY <2>3 DEF Partition
    <3>2. d[n + 1] = d[n]
      BY <1>1, <2>1, <2>2, <2>3 DEF DistributeStep
    <3> HIDE DEF S
    <3> QED
      BY <1>4, <2>1, <3>1, <3>2
  <2>4. CASE prev[n] \notin M
    <3>1. S(n + 1) = S(n) \cup {n} /\ n \notin S(n) /\ S(n) \in SUBSET Partition
      BY <2>1, <2>4 DEF Partition
    <3>2. d[n + 1] = Give(d[n], memberWithFewest(ms, d[n]), n)
      BY <1>1, <2>1, <2>2, <2>4 DEF DistributeStep
    <3> HIDE DEF S
    <3>3. Holds(d[n], M, S(n))
      BY <1>4
    <3>4. memberWithFewest(ms, d[n]) \in M
      <4>1. d[n] \in Lists
        BY <3>3 DEF Holds, Lists
      <4> QED
        BY <4>1, FewestIsMember
    <3> QED
      BY <2>1, <3>1, <3>2, <3>3, <3>4, GiveHolds
  <2> QED
    BY <2>3, <2>4
<1>5. \A n \in 0..b : n \in G
  <2> HIDE DEF G, b
  <2> QED
    BY <1>1, <1>3, <1>4, UpTo
<1>6. S(b) = Partition /\ b \in 0..b
  BY <1>1 DEF Partition
<1> QED
  BY <1>5, <1>6 DEF d

\* A step of phase 4 moves a partition.
LEMMA StealHolds ==
  ASSUME NEW M \in SUBSET Members, NEW ms, Listed(ms, M), NEW ps, Holds(ps, M, Partition)
  PROVE  Holds(Steal(ms, ps), M, Partition)
<1> DEFINE k == Len(ms)
           target == PartitionCount \div k
           over   == {i \in DOMAIN ms : Len(ps[ms[i]]) > target + 1}
           under  == {i \in DOMAIN ms : Len(ps[ms[i]]) < target}
           most   == {i \in over : \A j \in over : Len(ps[ms[i]]) >= Len(ps[ms[j]])}
           least  == {i \in under : \A j \in under : Len(ps[ms[i]]) <= Len(ps[ms[j]])}
           a == ms[Min(most)]
           c == ms[Min(least)]
<1>1. k \in Nat \ {0} /\ DOMAIN ms = 1..k /\ \A i \in 1..k : ms[i] \in M
  BY ListedFacts
<1>2. target \in Nat
  <2>1. PartitionCount \in Nat
    BY ConsumerGroupAssumption
  <2> QED
    BY <1>1, <2>1, DivMod
<1>3. PICK f \in [1..k -> Nat] : \A i \in 1..k : f[i] = Len(ps[ms[i]])
  <2>1. ps \in Lists
    BY DEF Holds, Lists
  <2> QED
    BY <2>1, Counts
<1>4. Steal(ms, ps) = IF over = {} \/ under = {} THEN ps
                      ELSE Give([ps EXCEPT ![a] = Front(@)], c, Last(ps[a]))
  BY DEF Steal
<1>5. CASE over = {} \/ under = {}
  <2> HIDE DEF over, under, a, c
  <2> QED
    BY <1>4, <1>5
<1>6. CASE over # {} /\ under # {}
  <2>1. over \in SUBSET (1..k) /\ under \in SUBSET (1..k)
    BY <1>1
  <2>2. PICK i \in over : \A j \in over : f[j] <= f[i]
    <3> HIDE DEF over, k
    <3> QED
      BY <1>1, <1>6, <2>1, GreatestAt
  <2>3. PICK j \in under : \A l \in under : f[j] <= f[l]
    <3> HIDE DEF under, k
    <3> QED
      BY <1>1, <1>6, <2>1, LeastAt
  <2>4. most \in SUBSET (1..k) /\ most # {} /\ least \in SUBSET (1..k) /\ least # {}
    <3>1. \A l \in 1..k : f[l] \in Nat
      OBVIOUS
    <3>2. i \in most
      BY <1>3, <2>1, <2>2, <3>1
    <3>3. j \in least
      BY <1>3, <2>1, <2>3, <3>1
    <3> QED
      BY <2>1, <3>2, <3>3
  <2>5. Min(most) \in most /\ Min(least) \in least
    <3>1. 1..k \in SUBSET Nat
      BY <1>1
    <3> HIDE DEF most, least
    <3> QED
      BY <2>4, <3>1, MinIn
  <2>6. a \in M /\ c \in M
    <3> HIDE DEF most, least
    <3> QED
      BY <1>1, <2>4, <2>5
  <2>7. Len(ps[a]) > 0
    <3>1. Min(most) \in 1..k /\ f[Min(most)] > target + 1
      <4>1. Min(most) \in over
        BY <2>5
      <4> QED
        BY <1>3, <2>1, <4>1
    <3> HIDE DEF most
    <3> QED
      BY <1>2, <1>3, <3>1
  <2> HIDE DEF a, c, over, under
  <2>8. PICK gs, p : gs = [ps EXCEPT ![a] = Front(@)] /\ p = Last(ps[a])
    OBVIOUS
  <2>9. p \in Partition /\ Holds(gs, M, Partition \ {p})
    BY <2>6, <2>7, <2>8, TakeHolds
  <2>10. Holds(Give(gs, c, p), M, (Partition \ {p}) \cup {p})
    BY <2>6, <2>9, GiveHolds
  <2>11. (Partition \ {p}) \cup {p} = Partition
    BY <2>9
  <2>12. Steal(ms, ps) = Give(gs, c, p)
    BY <1>4, <1>6, <2>8
  <2> QED
    BY <2>10, <2>11, <2>12
<1> QED
  BY <1>5, <1>6

\* Sticky ends with every partition held.
LEMMA StickyDeals ==
  ASSUME NEW M \in SUBSET Members, NEW ms, Listed(ms, M),
         NEW prev \in [Partition -> Members \cup {None}]
  PROVE  Holds(rebalanceSticky(ms, prev), M, Partition)
<1> DEFINE b == PartitionCount
           z == Distributed(ms, prev)[PartitionCount]
           Rec(f) == f = [n \in 0..PartitionCount |->
              IF n = 0 THEN Distributed(ms, prev)[PartitionCount]
              ELSE The({Steal(ms, ps) : ps \in {f[n - 1]}})]
           X == {ps \in Lists : Holds(ps, M, Partition)}
           E == [w \in (1..b) \X X |-> Steal(ms, w[2])]
<1>1. b \in Nat
  BY ConsumerGroupAssumption
<1>2. Stolen(ms, prev) = CHOOSE f : Rec(f)
  BY DEF Stolen
<1>3. \A ps : ps \in X <=> Holds(ps, M, Partition)
  BY DEF Holds, Lists
<1>4. Recurrence(b, X, z, E)
  <2>1. z \in X
    BY <1>3, DistributedHolds
  <2>2. ASSUME NEW n \in 1..b, NEW ps \in X PROVE E[<<n, ps>>] \in X
    <3>1. Steal(ms, ps) \in X
      BY <1>3, StealHolds
    <3> HIDE DEF X
    <3> QED
      BY <3>1
  <2> HIDE DEF E, z, X
  <2> QED
    BY <2>1, <2>2 DEF Recurrence
<1>5. PICK f : Follows(f, b, X, z, E)
  <2> HIDE DEF E, z, X, b
  <2> QED
    BY <1>1, <1>4, Recursion
<1>6. f \in [0..b -> X] /\ f[0] = z
  BY <1>5 DEF Follows
<1>7. ASSUME NEW n \in 1..b PROVE f[n] = Steal(ms, f[n - 1])
  <2>1. n - 1 \in 0..b
    BY <1>1
  <2>2. f[n - 1] \in X
    BY <1>6, <2>1
  <2>3. f[n] = E[<<n, f[n - 1]>>]
    BY <1>5 DEF Follows
  <2> HIDE DEF X
  <2> QED
    BY <2>2, <2>3
<1>8. ASSUME NEW x PROVE The({Steal(ms, ps) : ps \in {x}}) = Steal(ms, x)
  <2>1. {Steal(ms, ps) : ps \in {x}} = {Steal(ms, x)}
    OBVIOUS
  <2> QED
    BY <2>1, TheOne
<1>9. \A g : Rec(g) <=> g = [n \in 0..b |-> IF n = 0 THEN z ELSE Steal(ms, g[n - 1])]
  BY <1>8
<1> HIDE DEF z
<1>10. Rec(f)
  <2>1. ASSUME NEW n \in 0..b PROVE f[n] = IF n = 0 THEN z ELSE Steal(ms, f[n - 1])
    <3>1. CASE n = 0
      BY <1>6, <3>1
    <3>2. CASE n # 0
      <4>1. n \in 1..b
        BY <3>2
      <4> QED
        BY <1>7, <3>2, <4>1
    <3> QED
      BY <3>1, <3>2
  <2>2. f = [n \in 0..b |-> f[n]]
    <3> HIDE DEF X
    <3> QED
      BY <1>6
  <2>3. f = [n \in 0..b |-> IF n = 0 THEN z ELSE Steal(ms, f[n - 1])]
    <3> HIDE DEF b
    <3> QED
      BY <2>1, <2>2
  <2> HIDE DEF Rec
  <2> QED
    BY <1>9, <2>3
<1>11. Rec(Stolen(ms, prev))
  <2> HIDE DEF Rec
  <2> QED
    BY <1>2, <1>10
<1> DEFINE d == Stolen(ms, prev)
           st(n) == IF n = 0 THEN z ELSE Steal(ms, d[n - 1])
           G == {n \in 0..b : d[n] \in X}
<1>12. d = [n \in 0..b |-> st(n)]
  <2> HIDE DEF Rec
  <2> QED
    BY <1>9, <1>11
<1> HIDE DEF d
<1>13. \A n \in 0..b : d[n] = st(n)
  <2> HIDE DEF st, b
  <2> QED
    BY <1>12
<1>14. 0 \in G
  <2>1. 0 \in 0..b /\ z \in X
    BY <1>1, <1>4 DEF Recurrence
  <2>2. d[0] = z
    BY <1>13, <2>1
  <2> HIDE DEF X
  <2> QED
    BY <2>1, <2>2
<1>15. ASSUME NEW n \in 0..(b - 1), n \in G PROVE n + 1 \in G
  <2>1. n + 1 \in 0..b /\ n + 1 # 0 /\ (n + 1) - 1 = n
    BY <1>1
  <2>2. d[n + 1] = Steal(ms, d[n])
    BY <1>13, <2>1
  <2>3. Steal(ms, d[n]) \in X
    BY <1>3, <1>15, StealHolds
  <2> HIDE DEF X
  <2> QED
    BY <2>1, <2>2, <2>3
<1>16. \A n \in 0..b : n \in G
  <2> HIDE DEF G, b
  <2> QED
    BY <1>1, <1>14, <1>15, UpTo
<1>17. b \in 0..b
  BY <1>1
<1> QED
  BY <1>3, <1>16, <1>17 DEF d, rebalanceSticky

-----------------------------------------------------------------------------
\* A group at rest.

\* SortedMembers lists the members: their ranks are the numbers from 1 to their count.
LEMMA SortedLists ==
  ASSUME members \subseteq Members, members # {}
  PROVE  Listed(SortedMembers, members)
<1> DEFINE n == Cardinality(members)
           Below(m) == {k \in members : k <= m}
           rank == [m \in members |-> Cardinality(Below(m))]
<1>1. IsFiniteSet(members) /\ members \subseteq Int
  BY ConsumerGroupAssumption, FS_Subset
<1>2. n \in Nat /\ n # 0
  BY <1>1, FS_CardinalityType, FS_EmptySet
<1>3. ASSUME NEW m \in members
      PROVE  /\ IsFiniteSet(Below(m)) /\ Cardinality(Below(m)) \in 1..n
  <2>1. Below(m) \in SUBSET members /\ m \in Below(m)
    BY <1>1
  <2>2. IsFiniteSet(Below(m)) /\ Cardinality(Below(m)) <= n
    BY <1>1, <2>1, FS_Subset
  <2>3. Cardinality(Below(m)) \in Nat /\ Cardinality(Below(m)) # 0
    BY <2>1, <2>2, FS_CardinalityType, FS_EmptySet
  <2> QED
    BY <1>2, <2>2, <2>3
<1>4. ASSUME NEW k \in members, NEW m \in members, k < m
      PROVE  Cardinality(Below(k)) # Cardinality(Below(m))
  <2>1. Below(k) \in SUBSET Below(m) /\ m \in Below(m) /\ m \notin Below(k)
    <3>1. k \in Int /\ m \in Int /\ m <= m /\ ~(m <= k)
      BY <1>1, <1>4
    <3>2. \A x \in members : x <= k => x <= m
      BY <1>1, <1>4
    <3> QED
      BY <3>1, <3>2
  <2>2. PICK S, T : S = Below(m) /\ T = Below(k)
    OBVIOUS
  <2>3. IsFiniteSet(S)
    BY <1>3, <2>2
  <2>4. T \in SUBSET S /\ T # S
    BY <2>1, <2>2
  <2>5. Cardinality(S) # Cardinality(T)
    BY <2>3, <2>4, FS_Subset
  <2> QED
    BY <2>2, <2>5
<1>5. rank \in [members -> 1..n] /\ \A m \in members : rank[m] = Cardinality(Below(m))
  <2> HIDE DEF Below
  <2> QED
    BY <1>3
<1>6. \A k, m \in members : rank[k] = rank[m] => k = m
  <2>1. ASSUME NEW k \in members, NEW m \in members, k # m PROVE rank[k] # rank[m]
    <3>1. k < m \/ m < k
      BY <1>1, <2>1
    <3> HIDE DEF rank, Below
    <3> QED
      BY <1>4, <1>5, <3>1
  <2> HIDE DEF rank
  <2> QED
    BY <2>1
<1> HIDE DEF rank, Below, n
<1>7. \A i \in 1..n : \E m \in members : rank[m] = i
  <2>1. rank \in Injection(members, 1..n)
    BY <1>5, <1>6 DEF Injection, IsInjective
  <2>2. IsFiniteSet(1..n) /\ Cardinality(1..n) = n
    BY <1>2, FS_Interval
  <2>3. rank \in Surjection(members, 1..n)
    BY <2>1, <2>2, FS_Injection DEF n
  <2> QED
    BY <2>3 DEF Surjection
<1>8. SortedMembers = [i \in 1..n |-> CHOOSE m \in members : rank[m] = i]
  <2>1. \A i \in 1..n : (CHOOSE m \in members : rank[m] = i)
                          = CHOOSE m \in members : Cardinality({k \in members : k <= m}) = i
    BY <1>5 DEF Below
  <2> QED
    BY <2>1 DEF SortedMembers, n
<1> DEFINE ms == SortedMembers
<1>9. \A i \in 1..n : ms[i] \in members /\ rank[ms[i]] = i
  BY <1>7, <1>8
<1>10. ms \in Seq(members) /\ Len(ms) = n
  BY <1>2, <1>8, <1>9
<1> HIDE DEF ms
<1>11. ASSUME NEW m \in members PROVE \E i \in 1..Len(ms) : ms[i] = m
  <2>1. rank[m] \in 1..n
    BY <1>5
  <2>2. ms[rank[m]] \in members /\ rank[ms[rank[m]]] = rank[m]
    BY <1>9, <2>1
  <2> QED
    BY <1>6, <1>10, <2>1, <2>2
<1>12. \A i, j \in 1..Len(ms) : ms[i] = ms[j] => i = j
  BY <1>9, <1>10
<1> QED
  BY <1>2, <1>10, <1>11, <1>12 DEF Listed, ms

\* The members' lists hold every partition once, the assignment says where, and
\* range and round robin are even.
AtRest ==
  /\ Holds(parts, members, Partition)
  /\ \A p \in Partition :
       /\ assignments[p] \in members
       /\ \E i \in 1..Len(parts[assignments[p]]) : parts[assignments[p]][i] = p
  /\ strategy # "sticky" => \A a, b \in members : Len(parts[a]) <= Len(parts[b]) + 1

\* Whenever no rebalance is owed, the members have what the last one gave them.
GroupInv ==
  /\ TypeOK
  /\ members # {} => strategy \in Strategies
  /\ Settled => AtRest

\* What Balance gives the members.
LEMMA BalanceDeals ==
  ASSUME TypeOK, members # {}, strategy \in Strategies
  PROVE  /\ Holds(Balance(SortedMembers, assignments), members, Partition)
         /\ strategy # "sticky" =>
              \A a, b \in members : Len(Balance(SortedMembers, assignments)[a])
                                      <= Len(Balance(SortedMembers, assignments)[b]) + 1
<1>1. PICK ms : ms = SortedMembers
  OBVIOUS
<1>2. PICK M : M = members
  OBVIOUS
<1>3. M \in SUBSET Members /\ Listed(ms, M) /\ assignments \in [Partition -> Members \cup {None}]
  BY <1>1, <1>2, SortedLists DEF TypeOK
<1>4. strategy \in {"range", "roundrobin", "sticky"}
  BY ConsumerGroupAssumption
<1>5. PICK k : k = Len(ms)
  OBVIOUS
<1>6. \A i, j \in 1..k : Share(PartitionCount, k, i) <= Share(PartitionCount, k, j) + 1
  <2>1. k \in Nat \ {0} /\ PartitionCount \in Nat
    BY <1>3, <1>5, ListedFacts, ConsumerGroupAssumption
  <2>2. PartitionCount \div k \in Nat
    BY <2>1, DivMod
  <2> QED
    BY <2>2 DEF Share
<1>7. ASSUME NEW ps, \A i \in 1..k : Len(ps[ms[i]]) = Share(PartitionCount, k, i)
      PROVE  \A a, b \in M : Len(ps[a]) <= Len(ps[b]) + 1
  <2> SUFFICES ASSUME NEW a \in M, NEW b \in M PROVE Len(ps[a]) <= Len(ps[b]) + 1
    OBVIOUS
  <2>1. PICK i \in 1..k : ms[i] = a
    BY <1>3, <1>5 DEF Listed
  <2>2. PICK j \in 1..k : ms[j] = b
    BY <1>3, <1>5 DEF Listed
  <2> QED
    BY <1>6, <1>7, <2>1, <2>2
<1>8. CASE strategy = "range"
  <2>1. Balance(ms, assignments) = rebalanceRange(ms)
    BY <1>8 DEF Balance
  <2>2. Holds(rebalanceRange(ms), M, Partition)
    BY <1>3, RangeDeals
  <2>3. \A i \in 1..k : Len(rebalanceRange(ms)[ms[i]]) = Share(PartitionCount, k, i)
    BY <1>3, <1>5, RangeDeals
  <2>4. \A a, b \in M : Len(rebalanceRange(ms)[a]) <= Len(rebalanceRange(ms)[b]) + 1
    BY <1>7, <2>3
  <2> QED
    BY <1>1, <1>2, <2>1, <2>2, <2>4
<1>9. CASE strategy = "roundrobin"
  <2>1. Balance(ms, assignments) = rebalanceRoundRobin(ms)
    BY <1>9 DEF Balance
  <2>2. Holds(rebalanceRoundRobin(ms), M, Partition)
    BY <1>3, RoundRobinDeals
  <2>3. \A i \in 1..k : Len(rebalanceRoundRobin(ms)[ms[i]]) = Share(PartitionCount, k, i)
    BY <1>3, <1>5, RoundRobinDeals
  <2>4. \A a, b \in M : Len(rebalanceRoundRobin(ms)[a]) <= Len(rebalanceRoundRobin(ms)[b]) + 1
    BY <1>7, <2>3
  <2> QED
    BY <1>1, <1>2, <2>1, <2>2, <2>4
<1>10. CASE strategy = "sticky"
  <2>1. Balance(ms, assignments) = rebalanceSticky(ms, assignments)
    BY <1>10 DEF Balance
  <2>2. Holds(rebalanceSticky(ms, assignments), M, Partition)
    BY <1>3, StickyDeals
  <2> QED
    BY <1>1, <1>2, <1>10, <2>1, <2>2
<1> QED
  BY <1>4, <1>8, <1>9, <1>10

\* A rebalance gives every partition to a present member.
LEMMA RebalanceRests ==
  ASSUME GroupInv, NEW by \in Rebalancers, rebalance(by)
  PROVE  GroupInv'
<1>1. /\ strategy' = strategy /\ members' = members /\ fresh' = fresh /\ starts' = starts
      /\ scope' = scope
      /\ UNCHANGED <<committed, store, file, saving, mixed, unwritten, dropped>>
  BY DEF rebalance, offsets
<1>2. /\ joining' \in BOOLEAN /\ leaving' \in 0..MaxLeaving /\ loop' \in {"tick", "rebalance"}
  <2>1. joining \in BOOLEAN /\ leaving \in 0..MaxLeaving /\ loop \in {"tick", "rebalance"}
    BY DEF GroupInv, TypeOK
  <2>2. \/ joining' = FALSE /\ leaving' = leaving /\ loop' = loop
        \/ leaving > 0 /\ leaving' = leaving - 1 /\ joining' = joining /\ loop' = loop
        \/ loop' = "tick" /\ leaving' = leaving /\ joining' = joining
    BY DEF rebalance
  <2>3. MaxLeaving \in Nat
    BY ConsumerGroupAssumption
  <2>4. leaving' \in 0..MaxLeaving
    BY <2>1, <2>2, <2>3
  <2> QED
    BY <2>1, <2>2, <2>4
<1>3. \A p \in Partition :
        LET owners == {m \in Members : p \in ToSet(parts'[m])}
        IN  /\ owners = {} => assignments'[p] = None
            /\ owners # {} => assignments'[p] \in owners
  BY DEF rebalance
<1>4. assignments' \in [Partition -> Members \cup {None}]
  <2>1. \A p \in Partition : assignments'[p] \in Members \cup {None}
    BY <1>3
  <2>2. assignments' = [p \in Partition |-> assignments'[p]]
    BY DEF rebalance
  <2> QED
    BY <2>1, <2>2
<1>5. CASE members = {}
  <2>1. parts' = NoParts
    BY <1>5 DEF rebalance
  <2>2. parts' \in [Members -> Seq(Partition)]
    BY <2>1 DEF NoParts
  <2>3. TypeOK'
    BY <1>1, <1>2, <1>4, <2>2 DEF GroupInv, TypeOK
  <2> QED
    BY <1>1, <1>5, <2>3 DEF GroupInv, Settled
<1>6. CASE members # {}
  <2>1. parts' = Balance(SortedMembers, assignments)
    <3>1. parts' = The({Balance(ms, assignments) : ms \in {SortedMembers}})
      BY <1>6 DEF rebalance
    <3>2. {Balance(ms, assignments) : ms \in {SortedMembers}} = {Balance(SortedMembers, assignments)}
      OBVIOUS
    <3> QED
      BY <3>1, <3>2, TheOne
  <2>2. /\ Holds(parts', members, Partition)
        /\ strategy # "sticky" => \A a, b \in members : Len(parts'[a]) <= Len(parts'[b]) + 1
    BY <1>6, <2>1, BalanceDeals DEF GroupInv
  <2>3. parts' \in [Members -> Seq(Partition)]
    BY <2>2 DEF Holds
  <2>4. ASSUME NEW p \in Partition
        PROVE  /\ assignments'[p] \in members
               /\ \E i \in 1..Len(parts'[assignments'[p]]) : parts'[assignments'[p]][i] = p
    <3>1. \A m \in Members : DOMAIN parts'[m] = 1..Len(parts'[m])
      BY <2>3
    <3>2. PICK m \in Members : \E i \in 1..Len(parts'[m]) : parts'[m][i] = p
      BY <2>2 DEF Holds
    <3>3. p \in ToSet(parts'[m])
      BY <3>1, <3>2 DEF ToSet
    <3>4. assignments'[p] \in Members /\ p \in ToSet(parts'[assignments'[p]])
      BY <1>3, <3>3
    <3>5. PICK i \in 1..Len(parts'[assignments'[p]]) : parts'[assignments'[p]][i] = p
      BY <3>1, <3>4 DEF ToSet
    <3>6. parts'[assignments'[p]] # <<>>
      BY <3>5
    <3>7. assignments'[p] \in members
      BY <2>2, <3>4, <3>6 DEF Holds
    <3> QED
      BY <3>5, <3>7
  <2>5. TypeOK'
    BY <1>1, <1>2, <1>4, <2>3 DEF GroupInv, TypeOK
  <2>6. AtRest'
    BY <1>1, <2>2, <2>4 DEF AtRest, Holds
  <2> QED
    BY <1>1, <2>5, <2>6 DEF GroupInv
<1> QED
  BY <1>5, <1>6

\* Who is a member, what they have and what is owed stay as they are.
LEMMA RestUntouched ==
  ASSUME GroupInv, TypeOK',
         strategy' = strategy \/ members' = {}, members' = members \/ members' = {},
         (parts' = parts /\ assignments' = assignments) \/ members' = {},
         Settled' => Settled
  PROVE  GroupInv'
<1>1. CASE members' = {}
  BY <1>1 DEF GroupInv, Settled
<1>2. CASE members' # {}
  <2>1. strategy' = strategy /\ members' = members /\ parts' = parts /\ assignments' = assignments
    BY <1>2
  <2>2. AtRest => AtRest'
    BY <2>1 DEF AtRest, Holds
  <2> QED
    BY <2>1, <2>2 DEF GroupInv
<1> QED
  BY <1>1, <1>2

\* The members change and a rebalance is owed.
LEMMA ChangeKeeps ==
  ASSUME GroupInv, NEW m \in Members,
         Leave(m) \/ \E s \in Strategies : Join(m, s)
  PROVE  GroupInv'
<1>1. parts' \in [Members -> Seq(Partition)]
  <2>1. parts \in [Members -> Seq(Partition)] /\ <<>> \in Seq(Partition)
    BY DEF GroupInv, TypeOK
  <2>2. parts' = [parts EXCEPT ![m] = <<>>]
    BY DEF Leave, Join
  <2> QED
    BY <2>1, <2>2
<1>2. CASE Leave(m)
  <2>1. leaving' = leaving + 1 /\ leaving' \in 0..MaxLeaving /\ leaving' > 0
    BY <1>2, ConsumerGroupAssumption DEF GroupInv, TypeOK, Leave
  <2>2. TypeOK'
    BY <1>1, <1>2, <2>1 DEF GroupInv, TypeOK, Leave, offsets
  <2>3. ~Settled'
    BY <2>1 DEF Settled
  <2>4. members' # {} => strategy' \in Strategies
    BY <1>2 DEF GroupInv, Leave
  <2> QED
    BY <2>2, <2>3, <2>4 DEF GroupInv
<1>3. ASSUME NEW s \in Strategies, Join(m, s) PROVE GroupInv'
  <2>1. TypeOK'
    BY <1>1, <1>3 DEF GroupInv, TypeOK, Join
  <2>2. ~Settled'
    BY <1>3 DEF Settled, Join
  <2>3. members' # {} => strategy' \in Strategies
    BY <1>3 DEF GroupInv, TypeOK, Join
  <2> QED
    BY <2>1, <2>2, <2>3 DEF GroupInv
<1> QED
  BY <1>2, <1>3

\* Expiry drops members, and owes a rebalance.
LEMMA ExpireKeeps ==
  ASSUME GroupInv, Expire
  PROVE  GroupInv'
<1>1. parts' \in [Members -> Seq(Partition)]
  <2>1. \A m \in Members : parts[m] \in Seq(Partition) /\ <<>> \in Seq(Partition)
    BY DEF GroupInv, TypeOK
  <2>2. parts' = [m \in Members |-> IF m \in fresh THEN parts[m] ELSE <<>>]
    BY DEF Expire
  <2> QED
    BY <2>1, <2>2
<1>2. TypeOK'
  BY <1>1 DEF GroupInv, TypeOK, Expire, offsets
<1>3. ~Settled'
  BY DEF Settled, Expire
<1>4. members' # {} => strategy' \in Strategies
  BY DEF GroupInv, TypeOK, Expire
<1> QED
  BY <1>2, <1>3, <1>4 DEF GroupInv

\* Heartbeats and their absence, and the offsets.
LEMMA OtherKeeps ==
  ASSUME GroupInv,
         \/ \E m \in Members : Heartbeat(m) \/ TimesOut(m)
         \/ \E p \in Partition : CommitDropped(p)
         \/ \E p \in Partition, c \in Committers, o \in 1..MaxOffset : Commit(c, p, o)
         \/ \E c \in Committers : Save(c)
         \/ UNCHANGED vars
  PROVE  GroupInv'
<1>1. group' = group => Settled' = Settled
  BY DEF group, Settled
<1>2. ASSUME NEW m \in Members, Heartbeat(m) \/ TimesOut(m) PROVE GroupInv'
  <2>1. /\ members' = members /\ parts' = parts /\ assignments' = assignments
        /\ strategy' = strategy /\ Settled' = Settled
    BY <1>2 DEF Heartbeat, TimesOut, Settled
  <2>2. TypeOK'
    BY <1>2 DEF GroupInv, TypeOK, Heartbeat, TimesOut, offsets
  <2> QED
    BY <2>1, <2>2, RestUntouched
<1>3. ASSUME group' = group, TypeOK' PROVE GroupInv'
  BY <1>1, <1>3, RestUntouched DEF group
<1>4. ASSUME NEW p \in Partition, CommitDropped(p) PROVE GroupInv'
  <2>1. TypeOK'
    BY <1>4 DEF GroupInv, TypeOK, CommitDropped, group
  <2> QED
    BY <1>3, <1>4, <2>1 DEF CommitDropped
<1>5. ASSUME NEW p \in Partition, NEW o \in 1..MaxOffset, NEW c \in Committers, Commit(c, p, o)
      PROVE  GroupInv'
  <2>1. TypeOK'
    BY <1>5 DEF GroupInv, TypeOK, Commit, group
  <2> QED
    BY <1>3, <1>5, <2>1 DEF Commit
<1>6. ASSUME NEW c \in Committers, Save(c) PROVE GroupInv'
  <2>1. saving[c][1] \in Partition /\ saving[c][2] \in 0..MaxOffset
    BY <1>6 DEF GroupInv, TypeOK, Save
  <2>2. /\ store' \in [Partition -> 0..MaxOffset] /\ file' \in [Partition -> 0..MaxOffset]
        /\ dropped' \subseteq Partition /\ unwritten' \in BOOLEAN
    BY <1>6, <2>1 DEF GroupInv, TypeOK, Save
  <2>3. saving' \in [Committers -> (Partition \X (1..MaxOffset)) \cup {None}]
    BY <1>6 DEF GroupInv, TypeOK, Save
  <2>4. TypeOK'
    BY <1>6, <2>2, <2>3 DEF GroupInv, TypeOK, Save, group
  <2> QED
    BY <1>3, <1>6, <2>4 DEF Save
<1>7. CASE UNCHANGED vars
  <2>1. TypeOK'
    BY <1>7 DEF GroupInv, TypeOK, vars, group, offsets
  <2> QED
    BY <1>3, <1>7, <2>1 DEF vars
<1> QED
  BY <1>2, <1>4, <1>5, <1>6, <1>7

\* Initially, and after a restart, there are no members.
LEMMA GroupInit == Init => GroupInv
<1> SUFFICES ASSUME Init PROVE GroupInv
  OBVIOUS
<1>1. parts \in [Members -> Seq(Partition)]
  BY DEF Init, NoParts
<1>2. assignments \in [Partition -> Members \cup {None}]
  BY DEF Init, Unassigned
<1>3. 0 \in 0..MaxOffset /\ 0 \in 0..MaxLeaving
  BY ConsumerGroupAssumption
<1>4. /\ committed \in [Partition -> 0..MaxOffset] /\ store \in [Partition -> 0..MaxOffset]
      /\ file \in [Partition -> 0..MaxOffset]
      /\ saving \in [Committers -> (Partition \X (1..MaxOffset)) \cup {None}]
  BY <1>3 DEF Init
<1>5. TypeOK
  BY <1>1, <1>2, <1>3, <1>4 DEF Init, TypeOK
<1> QED
  BY <1>5 DEF Init, GroupInv, Settled

LEMMA RestartKeeps ==
  ASSUME GroupInv, Restart
  PROVE  GroupInv'
<1>1. parts' \in [Members -> Seq(Partition)]
  BY DEF Restart, NoParts
<1>2. starts' \in Nat
  BY DEF GroupInv, TypeOK, Restart
<1>3. assignments' \in [Partition -> Members \cup {None}]
  BY DEF Restart, Unassigned
<1>4. 0 \in 0..MaxOffset /\ 0 \in 0..MaxLeaving
  BY ConsumerGroupAssumption
<1>5. /\ committed' \in [Partition -> 0..MaxOffset]
      /\ saving' \in [Committers -> (Partition \X (1..MaxOffset)) \cup {None}]
  BY <1>4 DEF Restart
<1>6. TypeOK'
  BY <1>1, <1>2, <1>3, <1>4, <1>5 DEF GroupInv, TypeOK, Restart
<1> QED
  BY <1>6 DEF Restart, GroupInv, Settled

THEOREM GroupSafe == Spec => []GroupInv
<1>1. GroupInv /\ [Next]_vars => GroupInv'
  <2> SUFFICES ASSUME GroupInv, [Next]_vars PROVE GroupInv'
    OBVIOUS
  <2>1. /\ scope.members \subseteq Members /\ scope.strategies \subseteq Strategies
        /\ scope.commits \subseteq Partition /\ scope.by \subseteq Committers
    BY ConsumerGroupAssumption DEF GroupInv, TypeOK, Scope
  <2>2. CASE Expire
    BY <2>2, ExpireKeeps
  <2>3. CASE Restart
    BY <2>3, RestartKeeps
  <2>4. ASSUME NEW by \in Rebalancers, rebalance(by) PROVE GroupInv'
    BY <2>4, RebalanceRests
  <2>5. ASSUME NEW m \in scope.members,
               Leave(m) \/ Heartbeat(m) \/ TimesOut(m) \/ \E s \in scope.strategies : Join(m, s)
        PROVE  GroupInv'
    BY <2>1, <2>5, ChangeKeeps, OtherKeeps
  <2>6. ASSUME NEW p \in scope.commits,
               CommitDropped(p) \/ \E c \in scope.by, o \in 1..MaxOffset : Commit(c, p, o)
        PROVE  GroupInv'
    BY <2>1, <2>6, OtherKeeps
  <2>7. ASSUME NEW c \in Committers, Save(c) PROVE GroupInv'
    BY <2>7, OtherKeeps
  <2>8. CASE UNCHANGED vars
    BY <2>8, OtherKeeps
  <2> QED
    BY <2>2, <2>3, <2>4, <2>5, <2>6, <2>7, <2>8 DEF Next
<1> QED
  BY <1>1, GroupInit, PTL DEF Spec

\* The variables of a group have their types.
THEOREM TypeCorrect == Spec => []TypeOK
<1>1. GroupInv => TypeOK
  BY DEF GroupInv
<1> QED
  BY <1>1, GroupSafe, PTL

\* Once the rebalances have run every partition is in the list of the member it is
\* assigned to, once, and in no other, under each strategy.
THEOREM PartitionsOwned == Spec => []EveryPartitionOwned
<1>1. GroupInv => EveryPartitionOwned
  <2> SUFFICES ASSUME GroupInv, Settled
               PROVE  /\ \A p \in Partition : assignments[p] \in members
                      /\ \A m \in Members : \A p \in Partition :
                           Cardinality({i \in DOMAIN parts[m] : parts[m][i] = p})
                             = IF assignments[p] = m THEN 1 ELSE 0
    BY DEF EveryPartitionOwned
  <2>1. Holds(parts, members, Partition) /\ AtRest /\ TypeOK
    BY DEF GroupInv, AtRest
  <2>2. \A m \in Members : DOMAIN parts[m] = 1..Len(parts[m])
    BY <2>1 DEF TypeOK
  <2>3. ASSUME NEW p \in Partition
        PROVE  /\ assignments[p] \in members
               /\ \E i \in 1..Len(parts[assignments[p]]) : parts[assignments[p]][i] = p
    BY <2>1 DEF AtRest
  <2>4. ASSUME NEW m \in Members, NEW p \in Partition
        PROVE  Cardinality({i \in DOMAIN parts[m] : parts[m][i] = p})
                 = IF assignments[p] = m THEN 1 ELSE 0
    <3>1. \A l, k \in Members : \A i \in 1..Len(parts[l]), j \in 1..Len(parts[k]) :
            parts[l][i] = parts[k][j] => l = k /\ i = j
      BY <2>1 DEF Holds
    <3>2. assignments[p] \in Members
      BY <2>1, <2>3 DEF TypeOK
    <3>3. PICK i \in 1..Len(parts[assignments[p]]) : parts[assignments[p]][i] = p
      BY <2>3
    <3>4. CASE assignments[p] = m
      <4>1. {j \in DOMAIN parts[m] : parts[m][j] = p} = {i}
        BY <2>2, <3>1, <3>2, <3>3, <3>4
      <4> QED
        BY <3>4, <4>1, FS_Singleton
    <3>5. CASE assignments[p] # m
      <4>1. {j \in DOMAIN parts[m] : parts[m][j] = p} = {}
        BY <2>2, <3>1, <3>2, <3>3, <3>5
      <4> QED
        BY <3>5, <4>1, FS_EmptySet
    <3> QED
      BY <3>4, <3>5
  <2> QED
    BY <2>3, <2>4
<1> QED
  BY <1>1, GroupSafe, PTL

\* Under range and round robin the members' numbers of partitions differ by one at most.
THEOREM GroupBalanced == Spec => []Balanced
<1>1. GroupInv => Balanced
  BY DEF GroupInv, AtRest, Balanced
<1> QED
  BY <1>1, GroupSafe, PTL
=============================================================================
