SPECIFICATION Spec
CONSTANTS
  Preface = 2
  HeadEnd = 3
  Window = 2
  Detects = {"armed", "unset"}
  MaxBytes = 6
  Lines <- MCLines
  Lengths <- MCLengths
  MaxSafe = 12
  MaxBody = 2
  Chunks = {0, 1, 3}
  MaxLines = 4
  MaxSent = 4
CHECK_DEADLOCK FALSE
INVARIANTS
  BytesInOrder
  AcceptedIsUnambiguous
  ResponseFramed
PROPERTY
  BytesArrive
