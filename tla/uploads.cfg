SPECIFICATION Spec
CONSTANTS
  Drivers = {"quark", "baidu", "ali", "ali_open", "onedrive", "cloudreve", "thunder"}
  Files = {"f", "g"}
  NoFile = "nofile"
  Size <- MCSize
  Dir <- MCDir
  Ext <- MCExt
  Entries <- MCEntries
  Everything <- MCEverything
  Requests <- MCRequests
  Chunk = 2
  PartSizes = {1, 2}
  MaxTries = 2
  MaxOdd = 2
INVARIANTS TypeOK PartsInPlace
PROPERTIES ImplementsUpload PathComplete CallsReturn Recovers
