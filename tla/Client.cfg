\* A prompt that overlaps itself; half milliseconds; reads with and without a
\* buffer, of both kinds.
SPECIFICATION FairSpec
CONSTANTS
  a = a
  b = b
  Byte = {a, b}
  Prompt <- PromptAAB
  Raw = {TRUE, FALSE}
  Buffers = {TRUE, FALSE}
  Comport = TRUE
  Reconnect = FALSE
  Timeouts = {0, 2}
  MaxPrompts = 1
  RbufSize = 12
  UserSize = 3
  TicksPerMs = 2
  MsPerSec = 2
  MaxWire = 3
  MaxStream = 4
INVARIANT TypeOK
PROPERTY ImplementsStream ReadEnds
CHECK_DEADLOCK FALSE
