\* Boot, then three calls.  Bounds: the length of the boot file, the calls,
\* and one text file of two lines.
SPECIFICATION FairSpec
CONSTANTS
  NoByte = NoByte
  Unused = Unused
  Console = Console
  NullFile = NullFile
  MAX_HANDLE_MAP = 6
  DiskFiles <- MCDiskFiles
  TypedLine <- MCTypedLine
  Key = {27}
  Garbage = {0}
  BootFile <- MCBootFile
  MemSize = 3
  RestLength = 2
  Call <- InStepCalls
  LastCall <- OutOfStepCalls
  MaxCalls = 3
INVARIANTS TypeOK FlowControlled BootImage InStep LossStopsTheCall StreamsKeepTheirFile
PROPERTIES ImplementsCall Started Answered
