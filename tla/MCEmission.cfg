CONSTANTS
  PortMax = 5
  ByteMax = 5
  FlagBits = {syn, ack}
  HighBits = {ns}
  Width <- MCWidth
  MaxExt = 2
  Scenarios <- MCScenarios
  MaxPackets = 2
SPECIFICATION Spec
INVARIANTS DropsWhatItCounted DropsOnlyItsInstance Installable
CHECK_DEADLOCK FALSE
