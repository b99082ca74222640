\* Data from a picoputer to a link adapter, and data and ACKs back.
SPECIFICATION Spec
CONSTANTS
  Byte <- MCByte
  Ack <- MCAck
  Line <- WithAdapter
  Quiet = 9
  MaxPackets = 3
INVARIANTS TypeOK Understood
