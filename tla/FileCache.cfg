\* Two processes store values of different length under one key, one of them
\* also scans and clears, the other also looks the entry up; the clock runs.
SPECIFICATION Spec
CONSTANTS
  Writers = {p1, p2}
  Readers = {p1}
  Keepers = {p2}
  short = short
  long = long
  Vals = {short, long}
  Size <- MCSize
  Inodes = {i1, i2, i3}
  TTL = 1
  MaxTime = 1
  RemovesInvalid = TRUE
  SealsExpiry = FALSE
  None = None
  Miss = Miss
  Hole = Hole
SYMMETRY Symmetry
VIEW View
INVARIANTS
  HitSound
  AtomicReplace
  SoloSetPublishes
PROPERTY LossySpec
CONSTRAINT TwoEnvelopes
