\* Saves that do not overlap: two processes in turn, killed at any point, two readers.
CONSTANTS
  Writers = {w1, w2}
  Readers = {r1, r2}
  Values = {"long", "short"}
  Size <- MCSize
  MaxSize = 2
  Inodes = {f1, f2, f3, f4}
  Exclusive = TRUE
  Nothing = Nothing
SYMMETRY MCSymmetry
SPECIFICATION Spec
INVARIANTS ReadsWhole
PROPERTIES AtomicSaves
