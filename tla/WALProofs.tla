------------------------------ MODULE WALProofs ------------------------------
(***************************************************************************)
(* What the write-ahead log recovers, for every segment size and every     *)
(* number of entries.                                                      *)
(*                                                                         *)
(* Contents is a recursive function of the segment files.  Facts about it  *)
(* are proved by looking at the least number of files for which they would *)
(* fail.                                                                   *)
(***************************************************************************)
EXTENDS WAL, SequenceTheorems, WellFoundedInduction, TLAPS

Entry == 1..MaxEntries

\* All segment files.
Final == MaxEntries + 1

FileSets == [SegmentSeqs -> Seq(Entry) \cup {NoFile}]

-----------------------------------------------------------------------------
\* A set of natural numbers that is not empty has a least one.
LEMMA LeastNat ==
  ASSUME NEW T \in SUBSET Nat, T # {}
  PROVE  \E n \in T : \A m \in T : n <= m
<1> DEFINE R == OpToRel(<, Nat)
<1>1. IsWellFoundedOn(R, Nat)
  BY NatLessThanWellFounded
<1>2. \A x, y \in Nat : y < x => <<y, x>> \in R
  BY DEF OpToRel
<1> HIDE DEF R
<1>3. PICK x \in T : \A y \in T : ~(<<y, x>> \in R)
  BY <1>1, WFMin
<1>4. \A y \in T : ~(y < x)
  BY <1>2, <1>3
<1> QED
  BY <1>3, <1>4

\* A set that has 0, and n + 1 whenever it has n, has all numbers up to a bound.
LEMMA UpTo ==
  ASSUME NEW b \in Nat, NEW G, 0 \in G, \A n \in 0..(b - 1) : n \in G => n + 1 \in G
  PROVE  \A n \in 0..b : n \in G
<1> DEFINE T == {n \in 0..b : n \notin G}
<1> SUFFICES ASSUME T # {} PROVE FALSE
  OBVIOUS
<1>1. PICK n \in T : \A m \in T : n <= m
  <2>1. T \in SUBSET Nat
    OBVIOUS
  <2> HIDE DEF T
  <2> QED
    BY <2>1, LeastNat
<1>2. n \in 0..b /\ n \notin G /\ n # 0
  BY <1>1
<1>3. n - 1 \in 0..(b - 1) /\ n - 1 \notin T
  BY <1>1, <1>2
<1>4. n - 1 \in G
  BY <1>2, <1>3
<1>5. (n - 1) + 1 = n
  BY <1>2
<1> QED
  BY <1>2, <1>3, <1>4, <1>5

-----------------------------------------------------------------------------
\* Contents.

\* The equation that defines Contents has a solution.
LEMMA ContentsExists ==
  ASSUME NEW fs
  PROVE  \E f : f = [n \in 0..Final |-> IF n = 0 THEN <<>> ELSE f[n - 1] \o Part(fs, n)]
<1> DEFINE Solves(f, b) ==
             f = [n \in 0..b |-> IF n = 0 THEN <<>> ELSE f[n - 1] \o Part(fs, n)]
           G == {b \in 0..Final : \E f : Solves(f, b)}
<1>1. Final \in Nat
  BY WALAssumption DEF Final
<1>2. 0 \in G
  <2>1. Solves([n \in 0..0 |-> <<>>], 0)
    OBVIOUS
  <2>2. 0 \in 0..Final
    BY <1>1
  <2> HIDE DEF Solves
  <2> QED
    BY <2>1, <2>2
<1>3. ASSUME NEW b \in 0..(Final - 1), b \in G PROVE b + 1 \in G
  <2>1. PICK f : Solves(f, b)
    BY <1>3
  <2> DEFINE g == [n \in 0..(b + 1) |-> IF n = 0 THEN <<>> ELSE f[n - 1] \o Part(fs, n)]
  <2>2. \A n \in 0..b : f[n] = IF n = 0 THEN <<>> ELSE f[n - 1] \o Part(fs, n)
    BY <2>1
  <2>3. \A n \in 0..b : g[n] = f[n]
    BY <2>2, <1>1
  <2>4. \A n \in 1..(b + 1) : n - 1 \in 0..b
    BY <1>1
  <2>5. Solves(g, b + 1)
    <3>1. ASSUME NEW n \in 0..(b + 1)
          PROVE  (IF n = 0 THEN <<>> ELSE f[n - 1] \o Part(fs, n))
                   = IF n = 0 THEN <<>> ELSE g[n - 1] \o Part(fs, n)
      <4>1. CASE n = 0
        BY <4>1
      <4>2. CASE n # 0
        <5>1. n - 1 \in 0..b
          BY <1>1, <4>2
        <5>2. g[n - 1] = f[n - 1]
          BY <2>3, <5>1
        <5> HIDE DEF g
        <5> QED
          BY <4>2, <5>2
      <4> QED
        BY <4>1, <4>2
    <3>2. g = [n \in 0..(b + 1) |-> IF n = 0 THEN <<>> ELSE f[n - 1] \o Part(fs, n)]
      OBVIOUS
    <3> HIDE DEF g
    <3> QED
      BY <3>1, <3>2
  <2>6. b + 1 \in 0..Final
    BY <1>1
  <2> HIDE DEF Solves, g
  <2> QED
    BY <2>5, <2>6
<1>4. Final \in G
  <2> HIDE DEF G
  <2> QED
    BY <1>1, <1>2, <1>3, UpTo
<1> QED
  BY <1>4

\* Contents starts empty and adds one file at a time.
LEMMA ContentsDef ==
  ASSUME NEW fs
  PROVE  /\ Contents(fs)[0] = <<>>
         /\ \A n \in 1..Final : Contents(fs)[n] = Contents(fs)[n - 1] \o Part(fs, n)
<1> DEFINE Rec(f) == f = [n \in 0..(MaxEntries + 1) |->
                            IF n = 0 THEN <<>> ELSE f[n - 1] \o Part(fs, n)]
<1>1. \E f : Rec(f)
  BY ContentsExists DEF Final
<1>2. Contents(fs) = CHOOSE f : Rec(f)
  BY DEF Contents
<1>3. Rec(Contents(fs))
  BY <1>1, <1>2
<1>4. Final = MaxEntries + 1 /\ Final \in Nat
  BY WALAssumption DEF Final
<1> DEFINE c == Contents(fs)
<1>5. c = [n \in 0..Final |-> IF n = 0 THEN <<>> ELSE c[n - 1] \o Part(fs, n)]
  BY <1>3, <1>4
<1> HIDE DEF c
<1>6. \A n \in 0..Final : c[n] = IF n = 0 THEN <<>> ELSE c[n - 1] \o Part(fs, n)
  BY <1>5
<1>7. 0 \in 0..Final /\ \A n \in 1..Final : n \in 0..Final /\ n # 0
  BY <1>4
<1>8. c[0] = <<>> /\ \A n \in 1..Final : c[n] = c[n - 1] \o Part(fs, n)
  BY <1>6, <1>7
<1> QED
  BY <1>8 DEF c

\* What a file holds is a sequence of entries.
LEMMA PartType ==
  ASSUME NEW fs \in FileSets, NEW n \in SegmentSeqs
  PROVE  Part(fs, n) \in Seq(Entry)
  BY DEF Part, FileSets

LEMMA ContentsType ==
  ASSUME NEW fs \in FileSets
  PROVE  \A n \in 0..Final : Contents(fs)[n] \in Seq(Entry)
<1> DEFINE G == {n \in 0..Final : Contents(fs)[n] \in Seq(Entry)}
<1>1. Final \in Nat /\ SegmentSeqs = 1..Final
  BY WALAssumption DEF Final, SegmentSeqs
<1>2. 0 \in G
  <2>1. Contents(fs)[0] = <<>> /\ <<>> \in Seq(Entry) /\ 0 \in 0..Final
    BY <1>1, ContentsDef
  <2> QED
    BY <2>1
<1>3. ASSUME NEW n \in 0..(Final - 1), n \in G PROVE n + 1 \in G
  <2>1. n + 1 \in 1..Final /\ (n + 1) - 1 = n
    BY <1>1
  <2>2. Contents(fs)[n + 1] = Contents(fs)[n] \o Part(fs, n + 1)
    BY <2>1, ContentsDef
  <2>3. Part(fs, n + 1) \in Seq(Entry)
    BY <1>1, <2>1, PartType
  <2>4. Contents(fs)[n + 1] \in Seq(Entry)
    BY <1>3, <2>2, <2>3, ConcatProperties
  <2> QED
    BY <1>1, <2>1, <2>4
<1>4. \A n \in 0..Final : n \in G
  <2> HIDE DEF G
  <2> QED
    BY <1>1, <1>2, <1>3, UpTo
<1> QED
  BY <1>4

\* Two directories that agree on the first k files agree on their contents.
LEMMA ContentsSame ==
  ASSUME NEW fs, NEW gs, NEW k \in 0..Final, \A n \in 1..k : fs[n] = gs[n]
  PROVE  Contents(fs)[k] = Contents(gs)[k]
<1> DEFINE G == {n \in 0..k : Contents(fs)[n] = Contents(gs)[n]}
<1>1. Final \in Nat /\ k \in Nat
  BY WALAssumption DEF Final
<1>2. 0 \in G
  BY <1>1, ContentsDef
<1>3. ASSUME NEW n \in 0..(k - 1), n \in G PROVE n + 1 \in G
  <2>1. n + 1 \in 1..Final /\ n + 1 \in 1..k /\ (n + 1) - 1 = n
    BY <1>1
  <2>2. /\ Contents(fs)[n + 1] = Contents(fs)[n] \o Part(fs, n + 1)
        /\ Contents(gs)[n + 1] = Contents(gs)[n] \o Part(gs, n + 1)
    BY <2>1, ContentsDef
  <2>3. Part(fs, n + 1) = Part(gs, n + 1)
    BY <2>1 DEF Part
  <2>4. Contents(fs)[n + 1] = Contents(gs)[n + 1]
    BY <1>3, <2>2, <2>3
  <2> QED
    BY <1>1, <2>1, <2>4
<1>4. \A n \in 0..k : n \in G
  <2> HIDE DEF G
  <2> QED
    BY <1>1, <1>2, <1>3, UpTo
<1> QED
  BY <1>4

\* Files that are not there add nothing.
LEMMA ContentsRest ==
  ASSUME NEW fs \in FileSets, NEW k \in 0..Final, \A n \in (k + 1)..Final : fs[n] = NoFile
  PROVE  Contents(fs)[Final] = Contents(fs)[k]
<1> DEFINE G == {n \in 0..(Final - k) : Contents(fs)[k + n] = Contents(fs)[k]}
<1>1. Final \in Nat /\ k \in Nat /\ Final - k \in Nat
  BY WALAssumption DEF Final
<1>2. 0 \in G
  BY <1>1
<1>3. ASSUME NEW n \in 0..((Final - k) - 1), n \in G PROVE n + 1 \in G
  <2>1. /\ k + (n + 1) \in 1..Final /\ k + (n + 1) \in (k + 1)..Final
        /\ (k + (n + 1)) - 1 = k + n /\ k + n \in 0..Final
    BY <1>1
  <2>2. Contents(fs)[k + (n + 1)] = Contents(fs)[k + n] \o Part(fs, k + (n + 1))
    BY <2>1, ContentsDef
  <2>3. Part(fs, k + (n + 1)) = <<>>
    BY <2>1 DEF Part
  <2>4. Contents(fs)[k + n] \in Seq(Entry)
    BY <2>1, ContentsType
  <2>5. Contents(fs)[k + (n + 1)] = Contents(fs)[k]
    BY <1>3, <2>2, <2>3, <2>4, ConcatEmptySeq
  <2> QED
    BY <1>1, <2>5
<1>4. \A n \in 0..(Final - k) : n \in G
  <2> HIDE DEF G
  <2> QED
    BY <1>1, <1>2, <1>3, UpTo
<1>5. Final - k \in G /\ k + (Final - k) = Final
  BY <1>1, <1>4
<1> QED
  BY <1>5

\* With s the last file, the contents are those before s and then s.
LEMMA ContentsLast ==
  ASSUME NEW fs \in FileSets, NEW s \in SegmentSeqs, fs[s] # NoFile,
         \A n \in (s + 1)..Final : fs[n] = NoFile
  PROVE  Contents(fs)[Final] = Contents(fs)[s - 1] \o fs[s]
<1>1. Final \in Nat /\ s \in 1..Final /\ s \in 0..Final
  BY WALAssumption DEF Final, SegmentSeqs
<1>2. Contents(fs)[Final] = Contents(fs)[s]
  BY <1>1, ContentsRest
<1>3. Contents(fs)[s] = Contents(fs)[s - 1] \o Part(fs, s)
  BY <1>1, ContentsDef
<1> QED
  BY <1>2, <1>3 DEF Part

-----------------------------------------------------------------------------
\* Writing.

\* Writing at the end of a file appends to it.
LEMMA WriteAtEnd ==
  ASSUME NEW f \in Seq(Entry), NEW s \in Seq(Entry)
  PROVE  WriteAt(f, Len(f), s) = f \o s
<1> DEFINE w == WriteAt(f, Len(f), s)
<1>1. Len(f) \in Nat /\ Len(s) \in Nat
  OBVIOUS
<1>2. w = [i \in 1..(Len(f) + Len(s)) |->
             IF i > Len(f) /\ i <= Len(f) + Len(s) THEN s[i - Len(f)] ELSE f[i]]
  <2>1. (IF Len(f) + Len(s) > Len(f) THEN Len(f) + Len(s) ELSE Len(f)) = Len(f) + Len(s)
    BY <1>1
  <2> QED
    BY <2>1 DEF WriteAt
<1> HIDE DEF w
<1>3. \A i \in 1..(Len(f) + Len(s)) : w[i] = IF i <= Len(f) THEN f[i] ELSE s[i - Len(f)]
  BY <1>1, <1>2
<1>4. ASSUME NEW i \in 1..(Len(f) + Len(s)) PROVE w[i] \in Entry
  <2>1. CASE i <= Len(f)
    <3>1. i \in 1..Len(f) /\ w[i] = f[i]
      BY <1>1, <1>3, <2>1
    <3> QED
      BY <3>1, ElementOfSeq
  <2>2. CASE ~(i <= Len(f))
    <3>1. i - Len(f) \in 1..Len(s) /\ w[i] = s[i - Len(f)]
      BY <1>1, <1>3, <2>2
    <3> QED
      BY <3>1, ElementOfSeq
  <2> QED
    BY <2>1, <2>2
<1>5. w \in Seq(Entry) /\ Len(w) = Len(f) + Len(s)
  BY <1>1, <1>2, <1>4
<1>6. /\ f \o s \in Seq(Entry) /\ Len(f \o s) = Len(f) + Len(s)
      /\ \A i \in 1..(Len(f) + Len(s)) : (f \o s)[i] = IF i <= Len(f) THEN f[i] ELSE s[i - Len(f)]
  BY ConcatProperties
<1>7. w = f \o s
  BY <1>3, <1>5, <1>6, SeqEqual
<1> QED
  BY <1>7 DEF w

\* A buffer is what is written out first and what stays.
LEMMA SplitBuffer ==
  ASSUME NEW b \in Seq(Entry), NEW n \in 0..Len(b)
  PROVE  /\ SubSeq(b, 1, n) \in Seq(Entry) /\ Len(SubSeq(b, 1, n)) = n
         /\ SubSeq(b, n + 1, Len(b)) \in Seq(Entry)
         /\ Len(SubSeq(b, n + 1, Len(b))) = Len(b) - n
         /\ SubSeq(b, 1, n) \o SubSeq(b, n + 1, Len(b)) = b
<1>1. Len(b) \in Nat /\ n \in Nat /\ \A i \in 1..Len(b) : b[i] \in Entry
  OBVIOUS
<1>2. SubSeq(b, 1, n) \in Seq(Entry) /\ Len(SubSeq(b, 1, n)) = n
  <2>1. \A i \in 1..n : b[i] \in Entry
    BY <1>1
  <2> QED
    BY <1>1, <2>1, SubSeqProperties
<1>3. SubSeq(b, n + 1, Len(b)) \in Seq(Entry) /\ Len(SubSeq(b, n + 1, Len(b))) = Len(b) - n
  <2>1. \A i \in (n + 1)..Len(b) : b[i] \in Entry
    BY <1>1
  <2>2. n + 1 \in Int /\ Len(b) \in Int
    BY <1>1
  <2>3. Len(SubSeq(b, n + 1, Len(b))) = IF n + 1 <= Len(b) THEN Len(b) - (n + 1) + 1 ELSE 0
    BY <2>1, <2>2, SubSeqProperties
  <2> QED
    BY <1>1, <2>1, <2>2, <2>3, SubSeqProperties
<1>4. SubSeq(b, 1, n) \o SubSeq(b, n + 1, Len(b)) = SubSeq(b, 1, Len(b))
  <2>1. 1 \in 1..(Len(b) + 1) /\ n \in (1 - 1)..Len(b) /\ Len(b) \in n..Len(b)
    BY <1>1
  <2> QED
    BY <2>1, ConcatAdjacentSubSeq
<1>5. SubSeq(b, 1, Len(b)) = b
  BY SubSeqFull
<1> QED
  BY <1>2, <1>3, <1>4, <1>5

\* A sequence begins with its first part.
LEMMA Beginning ==
  ASSUME NEW s \in Seq(Entry), NEW t \in Seq(Entry)
  PROVE  SubSeq(s \o t, 1, Len(s)) = s
<1>1. CASE s = <<>>
  BY <1>1, SubSeqEmpty
<1>2. CASE s # <<>>
  <2>1. 1 \in 1..Len(s) /\ Len(s) \in 1..Len(s)
    BY <1>2, EmptySeq
  <2> QED
    BY <2>1, SubSeqOfConcat1, SubSeqFull
<1> QED
  BY <1>1, <1>2

-----------------------------------------------------------------------------
\* The invariant.  It speaks of the directory until it is opened a second time:
\* NewWAL then writes over the last file, and nothing of this holds any more.

\* The files that exist are those of the segments up to the active one.
Filed ==
  /\ files \in FileSets
  /\ segmentSeq \in SegmentSeqs
  /\ \A n \in 1..segmentSeq : files[n] # NoFile
  /\ \A n \in (segmentSeq + 1)..Final : files[n] = NoFile
  /\ log \in Seq(Entry)

\* The entries of the finished segments.
Finished == Contents(files)[segmentSeq - 1]

\* While the log is written to: the files and then the buffer are the history; the
\* next write goes to the end of the active file; every finished segment has an entry,
\* so that there are never more segments than entries.
Writing ==
  /\ writeBuf \in Seq(Entry)
  /\ pos = Len(files[segmentSeq])
  /\ activeSize = pos + Len(writeBuf)
  /\ (Finished \o files[segmentSeq]) \o writeBuf = log
  /\ segmentSeq - 1 <= Len(Finished)
  /\ syncMode = "immediate" => writeBuf = <<>>

\* Afterwards: the files hold a beginning of the history.
Left ==
  /\ Recovered = SubSeq(log, 1, Len(Recovered))
  /\ syncMode = "immediate" => Recovered = log

WalInv ==
  /\ opens \in Nat \ {0}
  /\ opens = 1 =>
       /\ Filed
       /\ mode = "up" => checkpoint = NoCheckpoint
       /\ IF Running THEN Writing ELSE Left

\* What follows from Filed about the pieces.
LEMMA Pieces ==
  ASSUME Filed
  PROVE  /\ Finished \in Seq(Entry)
         /\ files[segmentSeq] \in Seq(Entry)
         /\ Recovered = Finished \o files[segmentSeq]
         /\ Recovered \in Seq(Entry)
<1>1. Final = MaxEntries + 1 /\ Final \in Nat /\ segmentSeq \in 1..Final
  BY WALAssumption DEF Filed, Final, SegmentSeqs
<1>2. segmentSeq - 1 \in 0..Final /\ segmentSeq \in 1..segmentSeq
  BY <1>1
<1>3. Finished \in Seq(Entry)
  BY <1>2, ContentsType DEF Filed, Finished
<1>4. files[segmentSeq] \in Seq(Entry) /\ files[segmentSeq] # NoFile
  BY <1>2 DEF Filed, FileSets
<1>5. Recovered = Finished \o files[segmentSeq]
  BY <1>1, <1>4, ContentsLast DEF Filed, Finished, Recovered
<1> QED
  BY <1>3, <1>4, <1>5, ConcatProperties

LEMMA PiecesNext == Filed' => Recovered' = Finished' \o files'[segmentSeq']
<1>1. Filed => Recovered = Finished \o files[segmentSeq]
  BY Pieces
<1>2. (Filed => Recovered = Finished \o files[segmentSeq])'
  BY <1>1, PTL
<1> QED
  BY <1>2

\* What is written to is a beginning of the history, all of it if nothing is buffered.
LEMMA WritingLeft ==
  ASSUME Filed, Writing
  PROVE  Left /\ Recovered \o writeBuf = log
<1>1. /\ Recovered \in Seq(Entry) /\ writeBuf \in Seq(Entry)
      /\ Recovered \o writeBuf = log
  BY Pieces DEF Writing
<1>2. Recovered = SubSeq(log, 1, Len(Recovered))
  BY <1>1, Beginning
<1>3. writeBuf = <<>> => Recovered = log
  BY <1>1, ConcatEmptySeq
<1> QED
  BY <1>1, <1>2, <1>3 DEF Left, Writing

\* A file that is not there is told from every content.
LEMMA NoFileApart == \A s \in Seq(Entry) : s # NoFile
<1> SUFFICES ASSUME NEW s \in Seq(Entry) PROVE s \in Seq(Nat)
  BY WALAssumption
<1>1. Entry \subseteq Nat
  BY DEF Entry
<1> QED
  BY <1>1, SeqMonotonic

LEMMA WalInit == Init => WalInv
<1> SUFFICES ASSUME Init PROVE WalInv
  OBVIOUS
<1>1. Final = MaxEntries + 1 /\ Final \in Nat \ {0} /\ SegmentSeqs = 1..Final
  BY WALAssumption DEF Final, SegmentSeqs
<1>2. NoFile # <<>> /\ <<>> \in Seq(Entry)
  <2>1. <<>> \in Seq(Entry)
    OBVIOUS
  <2> QED
    BY <2>1, NoFileApart
<1>3. files \in FileSets /\ files[1] = <<>> /\ \A n \in 2..Final : files[n] = NoFile
  BY <1>1 DEF Init, FileSets
<1>4. Filed
  BY <1>1, <1>2, <1>3 DEF Init, Filed
<1>5. Finished = <<>>
  <2>1. segmentSeq - 1 = 0
    BY DEF Init
  <2> QED
    BY <2>1, ContentsDef DEF Finished
<1>6. Writing
  <2>1. (Finished \o files[segmentSeq]) \o writeBuf = log
    BY <1>3, <1>5, ConcatEmptySeq DEF Init
  <2> QED
    BY <1>3, <1>5, <2>1 DEF Writing, Init
<1> QED
  BY <1>4, <1>6 DEF WalInv, Running, Init

LEMMA Associative ==
  ASSUME NEW a \in Seq(Entry), NEW b \in Seq(Entry), NEW c \in Seq(Entry)
  PROVE  a \o (b \o c) = (a \o b) \o c
BY ConcatAssociative, SMTT(30)

LEMMA FinishedThen ==
  ASSUME Filed, NEW x \in Seq(Entry)
  PROVE  Finished \o (files[segmentSeq] \o x) = (Finished \o files[segmentSeq]) \o x
  BY Pieces, Associative

\* Entries added to the active file leave the finished segments alone.
LEMMA Grow ==
  ASSUME Filed, NEW x \in Seq(Entry),
         files' = [files EXCEPT ![segmentSeq] = files[segmentSeq] \o x],
         segmentSeq' = segmentSeq, log' \in Seq(Entry)
  PROVE  /\ Filed'
         /\ Finished' = Finished
         /\ files'[segmentSeq'] = files[segmentSeq] \o x
<1>1. Final = MaxEntries + 1 /\ Final \in Nat /\ SegmentSeqs = 1..Final /\ segmentSeq \in 1..Final
  BY WALAssumption DEF Filed, Final, SegmentSeqs
<1>2. files[segmentSeq] \o x \in Seq(Entry)
  BY Pieces, ConcatProperties
<1>3. files[segmentSeq] \o x # NoFile
  BY <1>2, NoFileApart
<1>4. files \in [1..Final -> Seq(Entry) \cup {NoFile}]
  BY <1>1 DEF Filed, FileSets
<1>5. /\ files' \in FileSets /\ files'[segmentSeq] = files[segmentSeq] \o x
      /\ \A n \in 1..Final : n # segmentSeq => files'[n] = files[n]
  BY <1>1, <1>2, <1>4 DEF FileSets
<1>6. Filed'
  BY <1>1, <1>3, <1>5 DEF Filed
<1>7. segmentSeq - 1 \in 0..Final /\ \A n \in 1..(segmentSeq - 1) : files'[n] = files[n]
  BY <1>1, <1>5
<1>8. Contents(files')[segmentSeq - 1] = Contents(files)[segmentSeq - 1]
  <2>1. \A fs, gs : (\A n \in 1..(segmentSeq - 1) : fs[n] = gs[n])
                      => Contents(fs)[segmentSeq - 1] = Contents(gs)[segmentSeq - 1]
    <3> DEFINE k == segmentSeq - 1
    <3>1. k \in 0..Final
      BY <1>7
    <3> HIDE DEF k
    <3>2. \A fs, gs : (\A n \in 1..k : fs[n] = gs[n]) => Contents(fs)[k] = Contents(gs)[k]
      BY <3>1, ContentsSame
    <3> QED
      BY <3>2 DEF k
  <2> QED
    BY <1>7, <2>1
<1> QED
  BY <1>5, <1>6, <1>8 DEF Finished

\* A new segment: the active file, with what was flushed to it, joins the finished ones.
LEMMA Turn ==
  ASSUME Filed, segmentSeq < Final, NEW x \in Seq(Entry), NEW y \in Seq(Entry),
         files' = [files EXCEPT ![segmentSeq] = files[segmentSeq] \o x, ![segmentSeq + 1] = y],
         segmentSeq' = segmentSeq + 1, log' \in Seq(Entry)
  PROVE  /\ Filed'
         /\ Finished' = (Finished \o files[segmentSeq]) \o x
         /\ files'[segmentSeq'] = y
<1>1. Final = MaxEntries + 1 /\ Final \in Nat /\ SegmentSeqs = 1..Final /\ segmentSeq \in 1..Final
  BY WALAssumption DEF Filed, Final, SegmentSeqs
<1>2. /\ Finished \in Seq(Entry) /\ files[segmentSeq] \in Seq(Entry)
      /\ files[segmentSeq] \o x \in Seq(Entry)
  BY Pieces, ConcatProperties
<1>3. files[segmentSeq] \o x # NoFile /\ y # NoFile
  BY <1>2, NoFileApart
<1>4. files \in [1..Final -> Seq(Entry) \cup {NoFile}]
  BY <1>1 DEF Filed, FileSets
<1>5. /\ files' \in FileSets /\ files'[segmentSeq] = files[segmentSeq] \o x
      /\ files'[segmentSeq + 1] = y
      /\ \A n \in 1..Final : n # segmentSeq /\ n # segmentSeq + 1 => files'[n] = files[n]
  <2> DEFINE z == files[segmentSeq] \o x
  <2>1. segmentSeq + 1 \in 1..Final /\ segmentSeq + 1 # segmentSeq
    BY <1>1
  <2>2. files' = [[files EXCEPT ![segmentSeq] = z] EXCEPT ![segmentSeq + 1] = y]
    OBVIOUS
  <2>3. z \in Seq(Entry)
    BY <1>2
  <2> HIDE DEF z
  <2>4. /\ files' \in [1..Final -> Seq(Entry) \cup {NoFile}]
        /\ files'[segmentSeq] = z /\ files'[segmentSeq + 1] = y
        /\ \A n \in 1..Final : n # segmentSeq /\ n # segmentSeq + 1 => files'[n] = files[n]
    BY <1>1, <1>4, <2>1, <2>2, <2>3
  <2> QED
    BY <1>1, <2>4 DEF FileSets, z
<1>6. Filed'
  <2>1. \A n \in 1..(segmentSeq + 1) : files'[n] # NoFile
    <3> SUFFICES ASSUME NEW n \in 1..(segmentSeq + 1), n # segmentSeq, n # segmentSeq + 1
                 PROVE  files'[n] # NoFile
      BY <1>3, <1>5
    <3>1. n \in 1..segmentSeq /\ n \in 1..Final
      BY <1>1
    <3> QED
      BY <1>5, <3>1 DEF Filed
  <2>2. \A n \in ((segmentSeq + 1) + 1)..Final : files'[n] = NoFile
    <3> SUFFICES ASSUME NEW n \in ((segmentSeq + 1) + 1)..Final PROVE files'[n] = NoFile
      OBVIOUS
    <3>1. n \in (segmentSeq + 1)..Final /\ n \in 1..Final /\ n # segmentSeq /\ n # segmentSeq + 1
      BY <1>1
    <3> QED
      BY <1>5, <3>1 DEF Filed
  <2>3. segmentSeq' \in SegmentSeqs
    BY <1>1
  <2> QED
    BY <1>5, <2>1, <2>2, <2>3 DEF Filed
<1>7. segmentSeq - 1 \in 0..Final /\ \A n \in 1..(segmentSeq - 1) : files'[n] = files[n]
  <2>0. segmentSeq - 1 \in 0..Final
    BY <1>1
  <2> SUFFICES ASSUME NEW n \in 1..(segmentSeq - 1) PROVE files'[n] = files[n]
    BY <2>0
  <2>1. n \in 1..Final /\ n # segmentSeq /\ n # segmentSeq + 1
    BY <1>1
  <2> QED
    BY <1>5, <2>1
<1>8. Contents(files')[segmentSeq - 1] = Contents(files)[segmentSeq - 1]
  <2>1. \A fs, gs : (\A n \in 1..(segmentSeq - 1) : fs[n] = gs[n])
                      => Contents(fs)[segmentSeq - 1] = Contents(gs)[segmentSeq - 1]
    <3> DEFINE k == segmentSeq - 1
    <3>1. k \in 0..Final
      BY <1>7
    <3> HIDE DEF k
    <3>2. \A fs, gs : (\A n \in 1..k : fs[n] = gs[n]) => Contents(fs)[k] = Contents(gs)[k]
      BY <3>1, ContentsSame
    <3> QED
      BY <3>2 DEF k
  <2> QED
    BY <1>7, <2>1
<1>9. Contents(files')[segmentSeq] = Contents(files')[segmentSeq - 1] \o Part(files', segmentSeq)
  BY <1>1, ContentsDef
<1>10. Part(files', segmentSeq) = files[segmentSeq] \o x
  BY <1>3, <1>5 DEF Part
<1>11. Finished' = Contents(files')[segmentSeq]
  BY <1>1 DEF Finished
<1>12. Finished' = Finished \o (files[segmentSeq] \o x)
  BY <1>8, <1>9, <1>10, <1>11 DEF Finished
<1>13. Finished \o (files[segmentSeq] \o x) = (Finished \o files[segmentSeq]) \o x
  BY FinishedThen
<1> QED
  BY <1>5, <1>6, <1>12, <1>13

\* The active file after n entries of the buffer were written out.
LEMMA FlushedAppends ==
  ASSUME Filed, Writing, NEW n \in 0..Len(writeBuf)
  PROVE  FlushedFile(n) = files[segmentSeq] \o SubSeq(writeBuf, 1, n)
<1>1. files[segmentSeq] \in Seq(Entry) /\ SubSeq(writeBuf, 1, n) \in Seq(Entry)
  BY Pieces, SplitBuffer DEF Writing
<1> QED
  BY <1>1, WriteAtEnd DEF FlushedFile, Writing

\* The buffer as it is, for Len(writeBuf) entries.
LEMMA FlushedAll ==
  ASSUME Filed, Writing
  PROVE  FlushedFile(Len(writeBuf)) = files[segmentSeq] \o writeBuf
<1>1. writeBuf \in Seq(Entry) /\ Len(writeBuf) \in 0..Len(writeBuf)
  BY DEF Writing
<1> QED
  BY <1>1, FlushedAppends, SubSeqFull

\* There is always a number for the next segment.
LEMMA RoomForSegment ==
  ASSUME Filed, Writing, NeedsRotate, Len(log) < MaxEntries
  PROVE  segmentSeq < Final /\ segmentSeq <= Len(log)
<1>1. Finished \in Seq(Entry) /\ files[segmentSeq] \in Seq(Entry) /\ writeBuf \in Seq(Entry)
  BY Pieces DEF Writing
<1>2. /\ Finished \o files[segmentSeq] \in Seq(Entry)
      /\ Len(Finished \o files[segmentSeq]) = Len(Finished) + Len(files[segmentSeq])
  BY <1>1, ConcatProperties
<1>3. Len(log) = Len(Finished) + Len(files[segmentSeq]) + Len(writeBuf)
  BY <1>1, <1>2, ConcatProperties DEF Writing
<1>4. Len(files[segmentSeq]) + Len(writeBuf) >= 1
  BY <1>1, WALAssumption DEF Writing, NeedsRotate
<1>5. segmentSeq \in Nat /\ MaxEntries \in Nat /\ Final = MaxEntries + 1
  BY WALAssumption DEF Filed, SegmentSeqs, Final
<1>6. Len(Finished) \in Nat /\ Len(files[segmentSeq]) \in Nat /\ Len(writeBuf) \in Nat
  BY <1>1
<1> QED
  BY <1>3, <1>4, <1>5, <1>6 DEF Writing

\* An entry that is appended is an entry.
LEMMA NextEntry ==
  ASSUME log \in Seq(Entry), Len(log) < MaxEntries
  PROVE  /\ Len(log) + 1 \in Entry
         /\ <<Len(log) + 1>> \in Seq(Entry) /\ Len(<<Len(log) + 1>>) = 1
         /\ Append(log, Len(log) + 1) \in Seq(Entry)
         /\ Append(log, Len(log) + 1) = log \o <<Len(log) + 1>>
<1>1. Len(log) + 1 \in Entry
  BY WALAssumption DEF Entry
<1> DEFINE e == Len(log) + 1
<1> HIDE DEF e
<1>2. e \in Entry => /\ <<e>> \in Seq(Entry) /\ Len(<<e>>) = 1
                     /\ Append(log, e) \in Seq(Entry) /\ Append(log, e) = log \o <<e>>
  BY AppendProperties, AppendIsConcat
<1> QED
  BY <1>1, <1>2 DEF e

\* Entries added behind the file, with nothing in the buffer or the whole of it.
LEMMA AddBehind ==
  ASSUME NEW c \in Seq(Entry), NEW f \in Seq(Entry), NEW w \in Seq(Entry), NEW z \in Seq(Entry)
  PROVE  /\ (c \o (f \o z)) \o <<>> = ((c \o f) \o <<>>) \o z
         /\ c \o (f \o w) = (c \o f) \o w
<1>1. /\ c \o f \in Seq(Entry) /\ f \o z \in Seq(Entry)
      /\ c \o (f \o z) \in Seq(Entry)
  BY ConcatProperties
<1>3. (c \o (f \o z)) \o <<>> = c \o (f \o z) /\ (c \o f) \o <<>> = c \o f
  BY <1>1, ConcatEmptySeq
<1>4. c \o (f \o z) = (c \o f) \o z /\ c \o (f \o w) = (c \o f) \o w
  BY Associative, SMTT(20)
<1> QED
  BY <1>3, <1>4

\* The first part of the buffer moved to the file.
Regrouped(c, f, a, b) == (c \o (f \o a)) \o b = (c \o f) \o (a \o b)

LEMMA MovePart ==
  ASSUME NEW c \in Seq(Entry), NEW f \in Seq(Entry), NEW a \in Seq(Entry), NEW b \in Seq(Entry)
  PROVE  Regrouped(c, f, a, b)
<1> DEFINE g == c \o f
<1>1. g \in Seq(Entry)
  BY ConcatProperties
<1>2. c \o (f \o a) = g \o a
  BY Associative, ZenonT(30)
<1> HIDE DEF g
<1>3. (g \o a) \o b = g \o (a \o b)
  BY <1>1, Associative, ZenonT(30)
<1> QED
  BY <1>2, <1>3 DEF g, Regrouped

-----------------------------------------------------------------------------
\* The steps.

\* An entry that stays in the buffer.
LEMMA BufferStep ==
  ASSUME Filed, Writing, AppendBuffered
  PROVE  Filed' /\ Writing'
<1> DEFINE e == Len(log) + 1
<1>1. /\ e \in Entry /\ <<e>> \in Seq(Entry) /\ Len(<<e>>) = 1
      /\ log' \in Seq(Entry) /\ log' = log \o <<e>>
  BY NextEntry DEF AppendBuffered, Filed
<1>2. /\ Finished \in Seq(Entry) /\ files[segmentSeq] \in Seq(Entry) /\ writeBuf \in Seq(Entry)
      /\ (Finished \o files[segmentSeq]) \o writeBuf = log
  BY Pieces DEF Writing
<1>3. syncMode # "immediate" /\ syncMode' = syncMode
  BY DEF AppendBuffered
<1>4. CASE ~NeedsRotate
  <2>1. /\ activeSize' = activeSize + 1 /\ writeBuf' = Append(writeBuf, e)
        /\ UNCHANGED <<files, segmentSeq, pos>>
    BY <1>4 DEF AppendBuffered
  <2> HIDE DEF e
  <2>2. writeBuf' = writeBuf \o <<e>> /\ writeBuf' \in Seq(Entry) /\ Len(writeBuf') = Len(writeBuf) + 1
    BY <1>1, <1>2, <2>1, AppendProperties, AppendIsConcat
  <2>3. Filed' /\ Finished' = Finished
    BY <1>1, <2>1 DEF Filed, Finished
  <2>4. (Finished \o files[segmentSeq]) \o (writeBuf \o <<e>>) = log \o <<e>>
    <3> DEFINE c == Finished
               f == files[segmentSeq]
               z == <<e>>
    <3>1. c \in Seq(Entry) /\ f \in Seq(Entry) /\ z \in Seq(Entry) /\ (c \o f) \o writeBuf = log
      BY <1>1, <1>2
    <3> HIDE DEF c, f, z
    <3>2. (c \o f) \o (writeBuf \o z) = ((c \o f) \o writeBuf) \o z
      <4>1. c \in Seq(Entry) /\ f \in Seq(Entry) /\ writeBuf \in Seq(Entry) /\ z \in Seq(Entry)
        BY <1>2, <3>1
      <4> DEFINE g == c \o f
      <4>2. g \in Seq(Entry)
        BY <4>1, ConcatProperties
      <4> HIDE DEF g
      <4>3. g \o (writeBuf \o z) = (g \o writeBuf) \o z
        BY <4>1, <4>2, Associative, ZenonT(30)
      <4> QED
        BY <4>3 DEF g
    <3> QED
      BY <3>1, <3>2 DEF c, f, z
  <2>5. (Finished' \o files'[segmentSeq']) \o writeBuf' = log'
    BY <1>1, <2>1, <2>2, <2>3, <2>4
  <2>6. activeSize' = pos' + Len(writeBuf')
    <3>1. pos \in Nat /\ Len(writeBuf) \in Nat /\ activeSize = pos + Len(writeBuf)
      BY <1>2 DEF Writing
    <3> QED
      BY <2>1, <2>2, <3>1
  <2> QED
    BY <1>3, <2>1, <2>2, <2>3, <2>5, <2>6 DEF Writing
<1>5. CASE NeedsRotate
  <2>1. /\ files' = [files EXCEPT ![segmentSeq] = FlushedFile(Len(writeBuf)),
                                  ![segmentSeq + 1] = <<>>]
        /\ segmentSeq' = segmentSeq + 1 /\ pos' = 0 /\ activeSize' = 1 /\ writeBuf' = <<e>>
    BY <1>5 DEF AppendBuffered, Rotate
  <2>2. segmentSeq < Final /\ segmentSeq <= Len(log)
    BY <1>5, RoomForSegment DEF AppendBuffered
  <2>3. <<>> \in Seq(Entry)
    OBVIOUS
  <2> HIDE DEF e
  <2>4. /\ Filed' /\ Finished' = (Finished \o files[segmentSeq]) \o writeBuf
        /\ files'[segmentSeq'] = <<>>
    BY <1>1, <1>2, <2>1, <2>2, <2>3, FlushedAll, Turn
  <2>5. Finished' = log
    BY <1>2, <2>4
  <2>6. (Finished' \o files'[segmentSeq']) \o writeBuf' = log'
    <3>1. log \o <<>> = log
      BY ConcatEmptySeq DEF Filed
    <3> QED
      BY <1>1, <2>1, <2>4, <2>5, <3>1
  <2>7. segmentSeq' - 1 <= Len(Finished')
    <3>1. segmentSeq \in Nat
      BY WALAssumption DEF Filed, SegmentSeqs
    <3> QED
      BY <2>1, <2>2, <2>5, <3>1
  <2>8. pos' = Len(files'[segmentSeq']) /\ activeSize' = pos' + Len(writeBuf')
    BY <1>1, <2>1, <2>4
  <2> QED
    BY <1>1, <1>3, <2>1, <2>4, <2>6, <2>7, <2>8 DEF Writing
<1> QED
  BY <1>4, <1>5

\* An entry that is written out before Append returns.
LEMMA ImmediateStep ==
  ASSUME Filed, Writing, AppendImmediate
  PROVE  Filed' /\ Writing'
<1> DEFINE e == Len(log) + 1
<1>1. /\ e \in Entry /\ <<e>> \in Seq(Entry) /\ Len(<<e>>) = 1
      /\ log' \in Seq(Entry) /\ log' = log \o <<e>>
  BY NextEntry DEF AppendImmediate, Filed
<1>2. /\ Finished \in Seq(Entry) /\ files[segmentSeq] \in Seq(Entry) /\ writeBuf = <<>>
      /\ (Finished \o files[segmentSeq]) \o <<>> = log
      /\ Finished \o files[segmentSeq] \in Seq(Entry)
  BY Pieces DEF Writing, AppendImmediate
<1>3. writeBuf' = <<>> /\ <<>> \in Seq(Entry)
  BY <1>2 DEF AppendImmediate
<1>4. CASE ~NeedsRotate
  <2>1. /\ files' = [files EXCEPT ![segmentSeq] = WriteAt(@, pos, <<e>>)]
        /\ pos' = pos + 1 /\ activeSize' = activeSize + 1 /\ segmentSeq' = segmentSeq
    BY <1>4 DEF AppendImmediate
  <2> HIDE DEF e
  <2>2. WriteAt(files[segmentSeq], pos, <<e>>) = files[segmentSeq] \o <<e>>
    BY <1>1, <1>2, WriteAtEnd DEF Writing
  <2>3. files' = [files EXCEPT ![segmentSeq] = files[segmentSeq] \o <<e>>]
    BY <2>1, <2>2
  <2>4. /\ Filed' /\ Finished' = Finished
        /\ files'[segmentSeq'] = files[segmentSeq] \o <<e>>
    BY <1>1, <2>1, <2>3, Grow
  <2>5. (Finished \o (files[segmentSeq] \o <<e>>)) \o <<>> = log \o <<e>>
    <3> DEFINE c == Finished
               f == files[segmentSeq]
               z == <<e>>
    <3>1. c \in Seq(Entry) /\ f \in Seq(Entry) /\ z \in Seq(Entry) /\ (c \o f) \o <<>> = log
      BY <1>1, <1>2
    <3> HIDE DEF c, f, z
    <3>2. (c \o (f \o z)) \o <<>> = ((c \o f) \o <<>>) \o z
      BY <1>3, <3>1, AddBehind, SMTT(20)
    <3> QED
      BY <3>1, <3>2 DEF c, f, z
  <2>6. (Finished' \o files'[segmentSeq']) \o writeBuf' = log'
    BY <1>1, <1>3, <2>4, <2>5
  <2>7. Len(files'[segmentSeq']) = Len(files[segmentSeq]) + 1
    BY <1>1, <1>2, <2>4, ConcatProperties
  <2>8. pos' = Len(files'[segmentSeq']) /\ activeSize' = pos' + Len(writeBuf')
    <3>1. pos = Len(files[segmentSeq]) /\ activeSize = pos /\ pos \in Nat
      BY <1>2 DEF Writing
    <3> QED
      BY <1>3, <2>1, <2>7, <3>1
  <2>9. segmentSeq' - 1 <= Len(Finished')
    BY <2>1, <2>4 DEF Writing
  <2> QED
    BY <1>3, <2>4, <2>6, <2>8, <2>9 DEF Writing
<1>5. CASE NeedsRotate
  <2>1. /\ files' = [files EXCEPT ![segmentSeq + 1] = <<e>>]
        /\ segmentSeq' = segmentSeq + 1 /\ pos' = 1 /\ activeSize' = 1
    BY <1>5 DEF AppendImmediate
  <2>2. segmentSeq < Final /\ segmentSeq <= Len(log)
    BY <1>5, RoomForSegment DEF AppendImmediate
  <2> HIDE DEF e
  <2>3. files' = [files EXCEPT ![segmentSeq] = files[segmentSeq] \o <<>>,
                               ![segmentSeq + 1] = <<e>>]
    <3>1. files[segmentSeq] \o <<>> = files[segmentSeq]
      BY <1>2, ConcatEmptySeq
    <3>2. [files EXCEPT ![segmentSeq] = files[segmentSeq]] = files
      BY DEF Filed, FileSets
    <3> QED
      BY <2>1, <3>1, <3>2
  <2>4. /\ Filed' /\ Finished' = (Finished \o files[segmentSeq]) \o <<>>
        /\ files'[segmentSeq'] = <<e>>
    BY <1>1, <1>3, <2>1, <2>2, <2>3, Turn
  <2>5. Finished' = log
    BY <1>2, <2>4
  <2>6. (Finished' \o files'[segmentSeq']) \o writeBuf' = log'
    <3>1. log' \o <<>> = log'
      BY <1>1, ConcatEmptySeq
    <3> QED
      BY <1>1, <1>3, <2>4, <2>5, <3>1
  <2>7. segmentSeq' - 1 <= Len(Finished')
    <3>1. segmentSeq \in Nat
      BY WALAssumption DEF Filed, SegmentSeqs
    <3> QED
      BY <2>1, <2>2, <2>5, <3>1
  <2>8. pos' = Len(files'[segmentSeq']) /\ activeSize' = pos' + Len(writeBuf')
    BY <1>1, <1>3, <2>1, <2>4
  <2> QED
    BY <1>3, <2>4, <2>6, <2>7, <2>8 DEF Writing
<1> QED
  BY <1>4, <1>5

\* Entries that leave the buffer for the file.
LEMMA FlushStep ==
  ASSUME Filed, Writing, NEW n \in 1..Len(writeBuf), Flush(n), log' = log, syncMode' = syncMode
  PROVE  Filed' /\ Writing'
<1> DEFINE a == SubSeq(writeBuf, 1, n)
           b == SubSeq(writeBuf, n + 1, Len(writeBuf))
<1>1. /\ Finished \in Seq(Entry) /\ files[segmentSeq] \in Seq(Entry) /\ writeBuf \in Seq(Entry)
      /\ (Finished \o files[segmentSeq]) \o writeBuf = log
  BY Pieces DEF Writing
<1>2. n \in 0..Len(writeBuf) /\ n \in Nat
  BY <1>1
<1>3. /\ a \in Seq(Entry) /\ Len(a) = n
      /\ b \in Seq(Entry) /\ Len(b) = Len(writeBuf) - n
  BY <1>1, <1>2, SplitBuffer
<1>4. (Finished \o (files[segmentSeq] \o a)) \o b = (Finished \o files[segmentSeq]) \o writeBuf
  <2>1. a \o b = writeBuf
    BY <1>1, <1>2, SplitBuffer
  <2>2. (Finished \o (files[segmentSeq] \o a)) \o b = (Finished \o files[segmentSeq]) \o (a \o b)
    <3>1. Regrouped(Finished, files[segmentSeq], a, b)
      BY <1>1, <1>3, MovePart
    <3> QED
      BY <3>1 DEF Regrouped
  <2> QED
    BY <2>1, <2>2
<1>5. FlushedFile(n) = files[segmentSeq] \o a
  BY <1>2, FlushedAppends
<1>6. /\ files' = [files EXCEPT ![segmentSeq] = FlushedFile(n)]
      /\ pos' = pos + n /\ writeBuf' = b /\ UNCHANGED <<segmentSeq, activeSize>>
  BY DEF Flush
<1> HIDE DEF a, b
<1>7. log' \in Seq(Entry)
  BY DEF Filed
<1>8. Filed' /\ Finished' = Finished /\ files'[segmentSeq'] = files[segmentSeq] \o a
  BY <1>3, <1>5, <1>6, <1>7, Grow
<1>9. (Finished' \o files'[segmentSeq']) \o writeBuf' = log'
  BY <1>1, <1>4, <1>6, <1>8
<1>10. Len(files[segmentSeq] \o a) = Len(files[segmentSeq]) + n
  BY <1>1, <1>3, ConcatProperties
<1>11. pos' = Len(files'[segmentSeq']) /\ activeSize' = pos' + Len(writeBuf')
  <2>1. /\ pos = Len(files[segmentSeq]) /\ activeSize = pos + Len(writeBuf) /\ pos \in Nat
        /\ Len(writeBuf) \in Nat
    BY <1>1 DEF Writing
  <2>2. Len(files'[segmentSeq']) = Len(files[segmentSeq]) + n /\ Len(writeBuf') = Len(writeBuf) - n
    BY <1>3, <1>6, <1>8, <1>10
  <2>3. pos' = pos + n /\ activeSize' = activeSize
    BY <1>6
  <2> QED
    BY <1>2, <2>1, <2>2, <2>3
<1>12. syncMode' # "immediate"
  <2>1. writeBuf # <<>>
    BY <1>1
  <2> QED
    BY <2>1 DEF Writing
<1>13. segmentSeq' - 1 <= Len(Finished')
  BY <1>6, <1>8 DEF Writing
<1> QED
  BY <1>3, <1>6, <1>8, <1>9, <1>11, <1>12, <1>13 DEF Writing

\* Close leaves the whole history in the files.
LEMMA CloseStep ==
  ASSUME Filed, Writing, Close
  PROVE  Filed' /\ Left'
<1>1. /\ Finished \in Seq(Entry) /\ files[segmentSeq] \in Seq(Entry) /\ writeBuf \in Seq(Entry)
      /\ (Finished \o files[segmentSeq]) \o writeBuf = log
  BY Pieces DEF Writing
<1>2. Finished \o (files[segmentSeq] \o writeBuf) = log
  <2> DEFINE c == Finished
             f == files[segmentSeq]
  <2>1. c \in Seq(Entry) /\ f \in Seq(Entry) /\ writeBuf \in Seq(Entry)
    BY <1>1
  <2> HIDE DEF c, f
  <2>2. c \o (f \o writeBuf) = (c \o f) \o writeBuf
    BY <2>1, AddBehind
  <2> QED
    BY <1>1, <2>2 DEF c, f
<1>3. /\ files' = [files EXCEPT ![segmentSeq] = files[segmentSeq] \o writeBuf]
      /\ segmentSeq' = segmentSeq /\ log' = log
  BY FlushedAll DEF Close
<1>4. log' \in Seq(Entry)
  BY <1>3 DEF Filed
<1>5. Filed' /\ Finished' = Finished /\ files'[segmentSeq'] = files[segmentSeq] \o writeBuf
  BY <1>1, <1>3, <1>4, Grow
<1>6. Recovered' = Finished' \o files'[segmentSeq']
  BY <1>5, PiecesNext
<1>7. Recovered' = log'
  BY <1>2, <1>3, <1>5, <1>6
<1>8. SubSeq(log', 1, Len(log')) = log'
  BY <1>4, SubSeqFull
<1> QED
  BY <1>5, <1>7, <1>8 DEF Left

LEMMA WalStep == WalInv /\ [Next]_vars => WalInv'
<1> SUFFICES ASSUME WalInv, [Next]_vars PROVE WalInv'
  OBVIOUS
<1>1. opens \in Nat \ {0} /\ opens' \in {opens, opens + 1}
  BY DEF WalInv, Next, vars, AppendBuffered, AppendImmediate, Overflow, SyncTick,
         StopCheckpoint, Close, Crash, Truncate, Open
<1>2. opens' \in Nat \ {0} /\ (opens' = 1 => opens = 1)
  BY <1>1
<1> SUFFICES ASSUME opens' = 1
             PROVE  /\ Filed'
                    /\ mode' = "up" => checkpoint' = NoCheckpoint
                    /\ IF Running' THEN Writing' ELSE Left'
  BY <1>2 DEF WalInv
<1>3. /\ opens = 1 /\ Filed /\ (mode = "up" => checkpoint = NoCheckpoint)
      /\ IF Running THEN Writing ELSE Left
  BY <1>2 DEF WalInv
<1>4. ASSUME UNCHANGED <<mode, checkpoint>>, Filed', Writing', Running
      PROVE  /\ Filed'
             /\ mode' = "up" => checkpoint' = NoCheckpoint
             /\ IF Running' THEN Writing' ELSE Left'
  BY <1>3, <1>4 DEF Running
<1>5. CASE AppendBuffered
  BY <1>3, <1>4, <1>5, BufferStep DEF AppendBuffered, Running
<1>6. CASE AppendImmediate
  BY <1>3, <1>4, <1>6, ImmediateStep DEF AppendImmediate, Running
<1>7. CASE Overflow \/ SyncTick
  <2>1. PICK n : n \in 1..Len(writeBuf) /\ Flush(n)
    BY <1>7 DEF Overflow, SyncTick, Flush
  <2>2. Running /\ UNCHANGED <<mode, checkpoint, log, syncMode>>
    BY <1>7 DEF Overflow, SyncTick
  <2>3. Filed' /\ Writing'
    BY <1>3, <2>1, <2>2, FlushStep
  <2> QED
    BY <1>4, <2>2, <2>3
<1>8. CASE StopCheckpoint
  <2>1. mode = "up" /\ mode' = "stopping" /\ UNCHANGED <<syncMode, files, walVars, log>>
    BY <1>8 DEF StopCheckpoint
  <2>2. Running /\ Running' /\ Writing
    BY <1>3, <2>1 DEF Running
  <2>3. Filed' /\ Writing'
    BY <1>3, <2>1, <2>2 DEF Filed, Writing, Finished, walVars
  <2> QED
    BY <2>1, <2>2, <2>3
<1>9. CASE Close
  <2>1. mode = "stopping" /\ mode' = "closed"
    BY <1>9 DEF Close
  <2>2. Running /\ ~Running'
    BY <2>1 DEF Running
  <2>3. Filed' /\ Left'
    BY <1>3, <1>9, <2>2, CloseStep
  <2> QED
    BY <2>1, <2>2, <2>3
<1>10. CASE Crash
  <2>1. Running /\ mode' = "crashed" /\ UNCHANGED <<syncMode, files, segmentSeq, log>>
    BY <1>10 DEF Crash
  <2>2. ~Running'
    BY <2>1 DEF Running
  <2>3. Left
    BY <1>3, <2>1, WritingLeft
  <2>4. Filed' /\ Left'
    BY <1>3, <2>1, <2>3 DEF Filed, Left, Recovered
  <2> QED
    BY <2>1, <2>2, <2>4
<1>11. CASE Truncate
  BY <1>3, <1>11 DEF Truncate
<1>12. CASE Open
  BY <1>3, <1>12 DEF Open
<1>13. CASE UNCHANGED vars
  <2>1. UNCHANGED <<syncMode, files, walVars, checkpoint, log, mode>>
    BY <1>13 DEF vars
  <2>2. Filed' /\ Running' = Running /\ Finished' = Finished /\ Recovered' = Recovered
    BY <1>3, <2>1 DEF Filed, Running, Finished, Recovered, walVars
  <2>3. (Writing => Writing') /\ (Left => Left')
    BY <2>1, <2>2 DEF Writing, Left, walVars
  <2> QED
    BY <1>3, <2>1, <2>2, <2>3
<1> QED
  BY <1>5, <1>6, <1>7, <1>8, <1>9, <1>10, <1>11, <1>12, <1>13 DEF Next

-----------------------------------------------------------------------------
\* Until the directory is opened again, Recover delivers a beginning of what was
\* appended, without gaps and in order, whatever rotations, partial flushes, crash or
\* Close came; while the log is up, the rest is in the buffer.
THEOREM PrefixRecovered == Spec => []RecoversPrefix
<1>1. WalInv => RecoversPrefix
  <2> SUFFICES ASSUME WalInv, opens = 1
               PROVE  /\ Recovered = SubSeq(log, 1, Len(Recovered))
                      /\ Running => Recovered \o writeBuf = log
    BY DEF RecoversPrefix
  <2> QED
    BY WritingLeft DEF WalInv, Left
<1> QED
  BY <1>1, WalInit, WalStep, PTL DEF Spec

\* In mode immediate no entry whose Append returned is missing from the files.
THEOREM AppendedDurable == Spec => []ImmediateDurable
<1>1. WalInv => ImmediateDurable
  <2> SUFFICES ASSUME WalInv, opens = 1, syncMode = "immediate" PROVE Recovered = log
    BY DEF ImmediateDurable
  <2> QED
    BY WritingLeft DEF WalInv, Left
<1> QED
  BY <1>1, WalInit, WalStep, PTL DEF Spec
==============================================================================
