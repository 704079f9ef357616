SPECIFICATION CSpec
CONSTANTS
  Names <- MCNames
  Root = "/"
  Bytes <- MCBytes
  ZeroByte = "0"
  MaxFiles = 3
  MaxFileSize = 2
  TotalData = 5
  Contents <- MCContents
  BootCalls <- MCBoot
  Careful = FALSE
  Directory = Directory
INVARIANT
  ReadBack
