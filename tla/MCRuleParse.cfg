CONSTANTS
  PortMax = 5
  ByteMax = 5
  FlagBits = {syn, ack}
  HighBits = {ns}
  PortOps <- MCPortOps
  ByteOps <- MCByteOps
  FlagOps <- MCFlagOps
  MaxItems = 3
  MaxList <- MCMaxList
SYMMETRY Symmetric
SPECIFICATION Spec
INVARIANTS Equivalent RangeComplete
CHECK_DEADLOCK FALSE
