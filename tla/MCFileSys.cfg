\* Two names that fit and one too long, two open files, a disk with room for two files,
\* and a kernel that may run out of memory in calloc () and bitmap_write ().
SPECIFICATION Spec
CONSTANTS
  Name = {a, b, c}
  LongName = {c}
  SectorCnt = 4
  Reserved = 1
  Size = {0, 1}
  SlotCnt = 2
  Handle = {h1, h2}
  Val = {v}
  Zero = z
  None = None
  Failure = {"calloc", "bitmap_write"}
SYMMETRY Symmetry
INVARIANTS
  MetadataConsistent
  CrashSafe
PROPERTIES
  ImplementsFileStore
