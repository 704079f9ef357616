SPECIFICATION Spec
CONSTANTS
  HeapSize = 128
  HeaderSize = 16
  SizeMod = 256
  Requests <- MCRequests
  Counts <- MCCounts
INVARIANT
  GrantsRequest
