SPECIFICATION Spec
CONSTANTS
  Drivers = {"onedrive"}
  Files = {"f", "g"}
  NoFile = "nofile"
  Size <- MCSize
  Dir <- MCDir
  Ext <- MCExt
  Entries <- MCEntries
  Everything <- MCEverything
  Requests <- MCRequests
  Chunk = 2
  PartSizes = {1, 2}
  MaxTries = 2
  MaxOdd = 1
PROPERTY UploadedIsThere
