\* A device that sends two packets in any cutting, and a server whose prompt
\* is one byte.
SPECIFICATION FairSpec
CONSTANTS
  ByteMod = 16
  Nack = 2
  KnownErrors = {3}
  Known = {1, 3}
  PingCommand = 1
  DevicePackets <- SomePackets
  MaxSent = 2
  Segments = {7, 16}
  Commands = 2
  Prompt <- OnePrompt
  ConnectTimos = {0, 1}
  Outlets = 1
  RbufSize = 12
  UserSize = 20
  TicksPerMs = 1
  MsPerSec = 1
  MaxWire = 32
INVARIANTS TypeOK RecordExact TornByAnswer
PROPERTIES EndsWhenTold
CHECK_DEADLOCK FALSE
