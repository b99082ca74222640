\* Both ends send and receive in parallel, two byte values.
SPECIFICATION FairSpec
CONSTANTS
  p = p
  a = a
  End = {p, a}
  Pico = {p}
  Sequential = {}
  Peer <- MCPeer
  Byte = {b1, b2}
  Ack = Ack
  NoByte = NoByte
  MaxLen = 2
  MaxBytes <- TwoAndThree
  FifoDepth = 4
INVARIANTS TypeOK StopAndWait FifosNeverFill InOrder NobodyStranded
PROPERTIES Rendezvous ImplementsChannel OutCompletes
