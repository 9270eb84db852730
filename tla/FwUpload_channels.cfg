SPECIFICATION Spec
CONSTANTS
  LEN = 3
  U16 = 4
  SECTORS = 2
  PACKETS = 1
  BUFFER = 2
  MAX_DEPTH = 2
  MAX_COMMANDS = 1
INVARIANT TypeOK
INVARIANT MarkMeansImage
INVARIANT WithinImage
PROPERTY UploadAccepted
PROPERTY UploadEnds
