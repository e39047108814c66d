\* A device that answers with one packet, and a program with two commands.
SPECIFICATION FairSpec
CONSTANTS
  ByteMod = 16
  Nack = 2
  KnownErrors = {3}
  Known = {1, 3}
  PingCommand = 1
  DevicePackets <- SomePackets
  MaxSent = 1
  Segments = {7, 16}
  Commands = 2
  Prompt <- OnePrompt
  ConnectTimos = {0, 1}
  Outlets = 1
  RbufSize = 12
  UserSize = 20
  TicksPerMs = 1
  MsPerSec = 1
  MaxWire = 32
PROPERTIES NextCommandSent
CHECK_DEADLOCK FALSE
