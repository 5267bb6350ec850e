SPECIFICATION Spec
CONSTANTS
  c1 = c1
  c2 = c2
  Clients = {c1, c2}
  Uses <- TwoReaders
  Ports = {"COM1", "COM2", "BAD"}
  Strings <- MCStrings
  Bytes = {1}
  BufferSize = 4
  MaxDataLen = 2
INVARIANTS TypeOK OutputInOrder RepliesAreOwed OnePlacePerCaller Paced
