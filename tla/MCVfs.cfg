SPECIFICATION Spec
CONSTANTS
  Names = {n1}
  Bytes = {1, 255}
  MaxSize = 3
  WORD = 2
  Archive <- MCArchive
  MAGIC_LEN = 2
  HEADER_LEN = 4
  MAX_OPEN_FILE_NUM = 2
  Images <- MCImages
  SECT = 3
  BASE = 4
  PART = 3
  HUGE = 1000
  MAGIC = 2
  Filenames <- MCFilenames
  SIZE = 8
  MaxLen = 6
  MaxBoots = 2
  Fds = {d1, d2}
  Offsets <- MCOffsets
  Texts <- MCTexts
INVARIANTS
  InternalAssertions
  CacheIsCurrent
  TableIsImage
  TextWritten
  CopiesArrive
  NothingElse
PROPERTY
  ImplementsFiles
VIEW MCView
SYMMETRY MCSymmetry
CHECK_DEADLOCK FALSE
