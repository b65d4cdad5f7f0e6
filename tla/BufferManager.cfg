SPECIFICATION BusySpec
CONSTANTS
  Listeners = {l1, l2}
  Clusters = {c1}
  Sizes = {1, 2}
  Limits = {0, 3, 4}
  Releasing = {l1, c1}
  MaxLive = 4
INVARIANTS BooksInv MemoryWithinLimit
PROPERTIES RefusalIsFinal EndsUpRefusing
