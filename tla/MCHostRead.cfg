\* A program that reads from a file.
SPECIFICATION Spec
CONSTANTS
  NoByte = NoByte
  Unused = Unused
  Console = Console
  NullFile = NullFile
  MAX_HANDLE_MAP = 6
  DiskFiles <- MCDiskFiles
  TypedLine <- MCTypedLine
  Key = {27}
  Garbage = {0}
  BootFile <- MCBootFile
  MemSize = 3
  RestLength = 2
  Call <- ReadCalls
  LastCall <- NoCalls
  MaxCalls = 3
INVARIANTS InStep
