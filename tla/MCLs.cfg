SPECIFICATION SSpec
CONSTANTS
  Names <- MCNames
  Root <- RootDir
  Bytes = {"0", "x"}
  ZeroByte = "0"
  MaxFiles = 3
  MaxFileSize = 1
  TotalData = 1
  Contents <- MCContents
  BootCalls <- MCBoot
  Files = {"home", "user", "root", "f"}
  MaxDepth = 32
  Args <- MCArgs
  Hosts = {"alphaos", "h"}
  Passwords = {"root", "wrong"}
  IntBits = 32
  Limit = 1023
INVARIANT
  LsShowsNames
