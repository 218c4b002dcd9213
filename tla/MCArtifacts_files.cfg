CONSTANTS
  A = A
  B = B
  C = C
  D = D
  Jobs = {j1, j2}
  Requests = {r1, r2}
  Images = {A, B, C, D}
  Pairs <- SomePairs
  Viewed = {A}
  None = None
  Absent = Absent
  Opened = Opened
  Mixed = Mixed
  Torn = Torn
SPECIFICATION Spec
CONSTRAINTS JobsOrThumbnails OneFault
SYMMETRY Symmetry
CHECK_DEADLOCK FALSE
INVARIANTS DamageNeedsSharing MapIsOwn ServedMapIsOwn ThumbnailWhole
