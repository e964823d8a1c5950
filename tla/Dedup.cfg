SPECIFICATION DeduperSpec
CONSTANTS
  Producers = {p1, p2, p3}
  Seqs = {s1, s2, s3}
  MaxEntries = 2
  MaxProducers = 2
  WindowSize = 3
  ProducerTTL = 3
  MaxTime = 7
  Never = Never
  p1 = p1
  p2 = p2
  p3 = p3
  s1 = s1
  s2 = s2
  s3 = s3
PROPERTIES
  RejectsRepeats
SYMMETRY Symmetry
CHECK_DEADLOCK FALSE
