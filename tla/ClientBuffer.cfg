SPECIFICATION Spec
CONSTANTS
  a = a
  b = b
  Byte = {a, b}
  Prompt <- PromptAAB
  Raw = {FALSE}
  Buffers = {TRUE}
  Comport = TRUE
  Reconnect = FALSE
  Timeouts = {1}
  MaxPrompts = 1
  RbufSize = 11
  UserSize = 3
  TicksPerMs = 1
  MsPerSec = 1
  MaxWire = 3
  MaxStream = 5
INVARIANT BufferFilled
CHECK_DEADLOCK FALSE
