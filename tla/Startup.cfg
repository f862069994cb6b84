SPECIFICATION Spec
CONSTANTS
  Numbers <- SomeNumbers
  Word = Word
  Empty = Empty
  Unset = Unset
  Skipped = Skipped
  Required = {"dbname"}
  IntSize = 16384
  LongSize = 268435456
  PortSize = 4096
  MaxLines = 3
  MaxLeases = 3
INVARIANT TypeOK
INVARIANT LastAssignmentWins
INVARIANT SizesFit
INVARIANT FrontExists
PROPERTY AcceptedAsWritten
CHECK_DEADLOCK FALSE
