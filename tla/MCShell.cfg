SPECIFICATION SSpec
CONSTANTS
  Names <- MCNames
  Root <- RootDir
  Bytes = {"0", "x"}
  ZeroByte = "0"
  MaxFiles = 5
  MaxFileSize = 1
  TotalData = 1
  Contents <- MCContents
  BootCalls <- MCBoot
  Files <- MCFiles
  MaxDepth = 32
  Args <- MCArgs
  Hosts = {"alphaos", "h"}
  Passwords = {"root", "admin", "wrong"}
  IntBits = 32
  Limit = 1023
INVARIANTS
  STypeOK
  IdentityAgrees
  ListsItsFiles
  LinesNameEntries
