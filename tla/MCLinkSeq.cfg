\* One process of the picoputer sends, then receives.
SPECIFICATION FairSpec
CONSTANTS
  p = p
  a = a
  End = {p, a}
  Pico = {p}
  Sequential = {p}
  Peer <- MCPeer
  Byte = {b1}
  Ack = Ack
  NoByte = NoByte
  MaxLen = 2
  MaxBytes <- ThreeEach
  FifoDepth = 4
PROPERTIES AcksProcessed
