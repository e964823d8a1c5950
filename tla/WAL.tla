--------------------------------- MODULE WAL ---------------------------------
(***************************************************************************)
(* The write-ahead log: internal/storage/wal, with the way the broker      *)
(* opens, checkpoints and closes it.                                       *)
(*                                                                         *)
(* Sizes and offsets are counted in entries of equal size (the code counts *)
(* bytes); SegCap entries fit in a segment.  A process crash loses what is *)
(* in the bufio.Writer and keeps what was written to the files.            *)
(***************************************************************************)
EXTENDS Integers, Sequences, FiniteSets

CONSTANTS SegCap,        \* entries per segment (maxSize)
          MaxEntries,    \* bound: entries appended
          MaxOpens,      \* bound: calls of NewWAL
          NoFile,        \* a segment that does not exist
          NoCheckpoint   \* no checkpoint file

ASSUME WALAssumption ==
  /\ SegCap \in Nat \ {0}
  /\ MaxEntries \in Nat
  /\ MaxOpens \in Nat \ {0}
  /\ NoFile \notin Seq(Nat)
  /\ NoCheckpoint \notin Nat

VARIABLES
  syncMode,    \* WAL.syncMode; it does not change
  files,       \* files[n]: the entries in segment file n
  segmentSeq,  \* WAL.segmentSeq, the active segment
  pos,         \* write position in the active file
  activeSize,  \* WAL.activeSize
  writeBuf,    \* entries in the bufio.Writer
  offset,      \* WAL.offset
  checkpoint,  \* the checkpoint file
  marked,      \* entries appended when the checkpoint was made (history)
  log,         \* entries whose Append returned (history); entry n is the n-th
  mode,        \* "up", "stopping" between Checkpoint and Close, "closed" or "crashed"
  opens        \* calls of NewWAL so far

walVars == <<segmentSeq, pos, activeSize, writeBuf, offset>>
vars == <<syncMode, files, walVars, checkpoint, marked, log, mode, opens>>

SyncModes == {"immediate", "interval", "os"}
SegmentSeqs == 1..(MaxEntries + 1)
Running == mode \in {"up", "stopping"}

\* One entry per variable.
TypeOK ==
  /\ syncMode \in SyncModes
  /\ files \in [SegmentSeqs -> Seq(1..MaxEntries) \cup {NoFile}]
  /\ segmentSeq \in SegmentSeqs
  /\ pos \in 0..SegCap
  /\ activeSize \in 0..SegCap
  /\ writeBuf \in Seq(1..MaxEntries)
  /\ offset \in Nat
  /\ checkpoint \in Nat \cup {NoCheckpoint}
  /\ marked \in 0..MaxEntries
  /\ log \in Seq(1..MaxEntries)
  /\ mode \in {"up", "stopping", "closed", "crashed"}
  /\ opens \in 1..MaxOpens

\* NewWAL in an empty directory.
Init ==
  /\ syncMode \in SyncModes
  /\ files = [n \in SegmentSeqs |-> IF n = 1 THEN <<>> ELSE NoFile]
  /\ segmentSeq = 1
  /\ pos = 0
  /\ activeSize = 0
  /\ writeBuf = <<>>
  /\ offset = 0
  /\ checkpoint = NoCheckpoint
  /\ marked = 0
  /\ log = <<>>
  /\ mode = "up"
  /\ opens = 1

-----------------------------------------------------------------------------
\* file with the entries of s written over it from position p on.
WriteAt(file, p, s) ==
  [i \in 1..(IF p + Len(s) > Len(file) THEN p + Len(s) ELSE Len(file)) |->
     IF i > p /\ i <= p + Len(s) THEN s[i - p] ELSE file[i]]

\* The active file after the first n entries of the buffer are written out.
FlushedFile(n) == WriteAt(files[segmentSeq], pos, SubSeq(writeBuf, 1, n))

\* Append.

NeedsRotate == activeSize >= SegCap

\* The buffer is dropped with the file.
Rotate_NoFlush(e) ==
  /\ files' = [files EXCEPT ![segmentSeq + 1] = <<>>]
  /\ segmentSeq' = segmentSeq + 1
  /\ pos' = 0
  /\ activeSize' = 1
  /\ writeBuf' = <<e>>

\* rotate flushes and syncs the old file; e goes to the buffer of the new one.
Rotate(e) ==
  /\ files' = [files EXCEPT ![segmentSeq] = FlushedFile(Len(writeBuf)),
                            ![segmentSeq + 1] = <<>>]
  /\ segmentSeq' = segmentSeq + 1
  /\ pos' = 0
  /\ activeSize' = 1
  /\ writeBuf' = <<e>>

\* WAL.Append when entries are not flushed one by one.
AppendBuffered ==
  /\ mode = "up"
  /\ syncMode # "immediate"
  /\ Len(log) < MaxEntries
  /\ LET e == Len(log) + 1
     IN  /\ IF NeedsRotate
            THEN Rotate(e)
            ELSE /\ activeSize' = activeSize + 1
                 /\ writeBuf' = Append(writeBuf, e)
                 /\ UNCHANGED <<files, segmentSeq, pos>>
         /\ log' = Append(log, e)
  /\ offset' = offset + 1
  /\ UNCHANGED <<syncMode, checkpoint, marked, mode, opens>>

\* Append returns before the flush.
AppendImmediate_NoFlush ==
  /\ mode = "up"
  /\ syncMode = "immediate"
  /\ Len(log) < MaxEntries
  /\ writeBuf' = Append(writeBuf, Len(log) + 1)
  /\ activeSize' = activeSize + 1
  /\ log' = Append(log, Len(log) + 1)
  /\ offset' = offset + 1
  /\ UNCHANGED <<syncMode, files, segmentSeq, pos, checkpoint, marked, mode, opens>>

\* WAL.Append in mode immediate: flushed before it returns, so the buffer is empty
\* between calls.
AppendImmediate ==
  /\ mode = "up"
  /\ syncMode = "immediate"
  /\ Len(log) < MaxEntries
  /\ LET e == Len(log) + 1
     IN  /\ IF NeedsRotate
            THEN /\ files' = [files EXCEPT ![segmentSeq + 1] = <<e>>]
                 /\ segmentSeq' = segmentSeq + 1
                 /\ pos' = 1
                 /\ activeSize' = 1
            ELSE /\ files' = [files EXCEPT ![segmentSeq] = WriteAt(@, pos, <<e>>)]
                 /\ pos' = pos + 1
                 /\ activeSize' = activeSize + 1
                 /\ UNCHANGED segmentSeq
         /\ log' = Append(log, e)
  /\ offset' = offset + 1
  /\ UNCHANGED <<syncMode, writeBuf, checkpoint, marked, mode, opens>>

\* The first n buffered entries reach the file.
Flush(n) ==
  /\ n \in 1..Len(writeBuf)
  /\ files' = [files EXCEPT ![segmentSeq] = FlushedFile(n)]
  /\ pos' = pos + n
  /\ writeBuf' = SubSeq(writeBuf, n + 1, Len(writeBuf))
  /\ UNCHANGED <<segmentSeq, activeSize, offset>>

\* bufio.Writer writes out by itself when it is full.
Overflow ==
  /\ Running
  /\ \E n \in 1..Len(writeBuf) : Flush(n)
  /\ UNCHANGED <<syncMode, checkpoint, marked, log, mode, opens>>

\* A tick that syncs the file and leaves the buffer alone.
SyncTick_NoFlush ==
  /\ syncMode = "interval"
  /\ Running
  /\ writeBuf = <<>>
  /\ UNCHANGED vars

\* One tick of syncLoop.
SyncTick ==
  /\ syncMode = "interval"
  /\ Running
  /\ Flush(Len(writeBuf))
  /\ UNCHANGED <<syncMode, checkpoint, marked, log, mode, opens>>

-----------------------------------------------------------------------------
\* Checkpoint, truncation, end and start.

\* Broker.Stop, first call: Checkpoint(Offset()).
StopCheckpoint ==
  /\ mode = "up"
  /\ checkpoint' = offset
  /\ marked' = Len(log)
  /\ mode' = "stopping"
  /\ UNCHANGED <<syncMode, files, walVars, log, opens>>

\* Broker.Stop, second call: Close flushes and closes.
Close ==
  /\ mode = "stopping"
  /\ files' = [files EXCEPT ![segmentSeq] = FlushedFile(Len(writeBuf))]
  /\ writeBuf' = <<>>
  /\ mode' = "closed"
  /\ UNCHANGED <<syncMode, segmentSeq, pos, activeSize, offset, checkpoint, marked, log, opens>>

\* The process dies.
Crash ==
  /\ Running
  /\ writeBuf' = <<>>
  /\ mode' = "crashed"
  /\ UNCHANGED <<syncMode, files, segmentSeq, pos, activeSize, offset, checkpoint, marked, log, opens>>

Existing == {n \in SegmentSeqs : files[n] # NoFile}
Last == CHOOSE n \in Existing : \A m \in Existing : m <= n

\* Truncate compares the size of a file with the global offset of the checkpoint.
Truncatable == {n \in Existing \ {Last} : Len(files[n]) <= checkpoint}

\* WAL.Truncate.
Truncate ==
  /\ mode = "up"
  /\ checkpoint # NoCheckpoint
  /\ Truncatable # {}
  /\ files' = [n \in SegmentSeqs |-> IF n \in Truncatable THEN NoFile ELSE files[n]]
  /\ UNCHANGED <<syncMode, walVars, checkpoint, marked, log, mode, opens>>

\* NewWAL on an existing directory: the last file is opened without O_APPEND and
\* without a seek, so it is written from its start; its size is the only one counted.
Open ==
  /\ ~Running
  /\ opens < MaxOpens
  /\ segmentSeq' = Last
  /\ pos' = 0
  /\ activeSize' = Len(files[Last])
  /\ writeBuf' = <<>>
  /\ offset' = Len(files[Last])
  /\ mode' = "up"
  /\ opens' = opens + 1
  /\ UNCHANGED <<syncMode, files, checkpoint, marked, log>>

-----------------------------------------------------------------------------
Next ==
  \/ AppendBuffered
  \/ AppendImmediate
  \/ Overflow
  \/ SyncTick
  \/ StopCheckpoint
  \/ Close
  \/ Crash
  \/ Truncate
  \/ Open

Spec == Init /\ [][Next]_vars

\* The sync goroutine runs.
FairSpec == Spec /\ WF_vars(SyncTick)

-----------------------------------------------------------------------------
\* What segment file n of fs holds; a file that is not there holds nothing.
Part(fs, n) == IF fs[n] = NoFile THEN <<>> ELSE fs[n]

\* Contents(fs)[n]: the entries of the first n segment files, in order.
Contents(fs) ==
  LET upTo[n \in 0..(MaxEntries + 1)] ==
        IF n = 0 THEN <<>> ELSE upTo[n - 1] \o Part(fs, n)
  IN  upTo

\* WAL.Recover: the entries it passes to its callback, in order.
Recovered == Contents(files)[MaxEntries + 1]

Elems(s) == {s[i] : i \in 1..Len(s)}

\* Properties.

\* Until the directory is opened again (then NewWAL writes over the last file): what
\* Recover delivers is an initial part of what was appended, in order and without
\* gaps, through rotations and partial flushes; while the log is up, the rest is in
\* the buffer.
RecoversPrefix ==
  opens = 1 =>
    /\ Recovered = SubSeq(log, 1, Len(Recovered))
    /\ Running => Recovered \o writeBuf = log

\* "WAL provides durable write-ahead logging": in mode immediate an entry whose Append
\* returned survives a crash of the process, until the directory is opened again.
ImmediateDurable ==
  syncMode = "immediate" /\ opens = 1 => \A e \in Elems(log) : e \in Elems(Recovered)

\* In mode interval an entry does not stay in the buffer.
EventuallyWritten ==
  \A e \in 1..MaxEntries :
    syncMode = "interval" /\ e \in Elems(writeBuf) ~> e \in Elems(Recovered) \/ ~Running

-----------------------------------------------------------------------------
\* Statements of documents and comments that the code does not meet (README, "Known
\* divergences").

\* "Checkpoint marks the WAL position as durable": the entries appended before the
\* checkpoint was written are recovered.
CheckpointDurable == ~Running => \A e \in 1..marked : e \in Elems(Recovered)

\* "Truncate removes WAL segments fully before the checkpoint": no entry appended
\* after the checkpoint is removed.
TruncateKeeps ==
  [][mode = "up" /\ mode' = "up" /\ log' = log /\ writeBuf' = writeBuf =>
       \A e \in Elems(Recovered) \ (1..marked) : e \in Elems(Recovered')]_vars

\* "Global WAL byte offset": the offset counts everything ever appended.
OffsetGlobal == mode = "up" => offset = Len(log)
=============================================================================
