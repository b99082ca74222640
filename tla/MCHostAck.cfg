\* A program that writes a line on the console.
SPECIFICATION FairSpec
CONSTANTS
  NoByte = NoByte
  Unused = Unused
  Console = Console
  NullFile = NullFile
  MAX_HANDLE_MAP = 6
  DiskFiles <- MCDiskFiles
  TypedLine <- MCTypedLine
  Key = {27}
  Garbage = {0}
  BootFile <- MCBootFile
  MemSize = 3
  RestLength = 2
  Call <- PutsCalls
  LastCall <- NoCalls
  MaxCalls = 1
PROPERTIES HostAcknowledges
