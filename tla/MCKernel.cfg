SPECIFICATION MSpec
CONSTANTS
  HeapSize = 128
  HeaderSize = 16
  SizeMod = 512
  Requests <- MCRequests
  Counts <- MCCounts
  Width = 3
  Height = 2
  TabStop = 2
  Glyphs = {"a"}
  Colors = {"grey", "red"}
  FirstColor = "grey"
  MaxAbove = 1
  MaxInked = 2
  RingSize = 4
  Keys = {"a", "b"}
  PortSize = 1
INVARIANTS
  TypeOK
  Tiling
  Coalesced
  ClientView
  GrantsRequest
  Integrity
  AccountingExact
  AllFreedRestores
  NoFalseRefusal
  CTypeOK
  KTypeOK
PROPERTIES
  AllocatorSpec
  PrinterSpec
  QueueSpec
