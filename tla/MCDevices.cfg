SPECIFICATION Spec
CONSTANTS
  Unused = Unused
  \* the console
  Reader = {r1, r2}
  Writer = {w1, w2}
  None = None
  INTQ_BUFSIZE = 3
  MaxIn = 4
  MaxOut = 4
  \* the disks of a channel
  Caller = {t1, t2}
  Sector = {s1, s2}
  Value = {v1, v2}
  NoValue = NoValue
  Kind = {"ata", "big"}
  Failing = {s1, NoValue}
  MaxSpurious = 0
  \* partition tables
  Width = 4
  DiskSize = 6
  Entry <- Entries
  EntryCount = 2
  Elsewhere <- OtherTables
  NoTable = NoTable
  Role = {"filesys", "swap"}
  \* the keyboard
  Plain <- Keys
  BufSize = 1
  \* interrupts
  Devices <- Irqs
  Handled <- HandledIrqs
  Internal <- InternalVectors
  Traps <- TrapVectors
  MaxRaise = 2
  OFF = OFF
  ON = ON
SYMMETRY Symmetry
INVARIANTS
  ConsoleCorrect
  SectorsInPlace
  KeyboardCorrect
  InterruptsCorrect
PROPERTIES
  ImplementsBlockStore
