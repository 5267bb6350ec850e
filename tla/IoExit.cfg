SPECIFICATION FairSpec
CONSTANTS
  c1 = c1
  c2 = c2
  Clients = {c1}
  Uses <- OneForAll
  Ports = {"COM1", "COM2"}
  Strings <- LongString
  Bytes = {1, 2}
  BufferSize = 3
  MaxDataLen = 2

PROPERTIES ShutdownCompletes
