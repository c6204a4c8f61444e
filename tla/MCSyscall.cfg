\* File descriptors, mappings and the protection of executables.
SPECIFICATION Spec
CONSTANTS
  Proc = {p, q}
  FD_MAX = 4
  Name = {a}
  Inode = {i, j}
  File = {f, g, h, k}
  Width = 2
  Size = {1, 2}
  Offset = {1, 2}
  Val = {z, v}
  Zero = z
  MaxMapId = 1
  Nil = Nil
SYMMETRY Symmetry
INVARIANTS
  FilesAccounted
  ImageProtected
PROPERTIES
  ImplementsDescriptors
