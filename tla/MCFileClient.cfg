SPECIFICATION CSpec
CONSTANTS
  Names <- MCNames
  Root = "/"
  Bytes <- MCBytes
  ZeroByte = "0"
  MaxFiles = 3
  MaxFileSize = 2
  TotalData = 4
  Contents <- MCContents
  BootCalls <- MCBoot
  Careful = TRUE
  Directory = Directory
INVARIANTS
  TypeOK
  UniqueNames
  ExtentsInBounds
  RootStays
  ReadBack
  RoomsDisjoint
PROPERTIES
  OneNameAtATime
  SpaceSpent
  FileStoreSpec
