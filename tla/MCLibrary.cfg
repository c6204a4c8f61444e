SPECIFICATION LibrarySpec
CONSTANTS
  Unused = Unused
  \* palloc
  Thread = {t1, t2}
  None = None
  FreePages = 7
  user_page_limit = 3
  BitmapPages = 1
  PageCnt = {1, 2}
  \* malloc
  Width = 8
  PGSIZE = 32
  MinBlock = 8
  ArenaSize = 16
  PageCount = 3
  BlockSize = {0, 8, 17, 225, 250}
  Factor = {8, 17}
  MaxLive = 3
  \* hash tables
  MIN_BUCKETS = 1
  BEST_ELEMS_PER_BUCKET = 1
  \* lists
  Lists = {l1, l2}
  Nil = Nil
  a1 = a1
  a2 = a2
  a3 = a3
  a4 = a4
  \* arrays
  MaxCnt = 5
INVARIANTS
  AllocatorExact
  MallocExact
  ContainersSound
  ResultsExact
PROPERTIES
  ImplementsElemSet
  ImplementsSeqLists
