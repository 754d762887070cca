SPECIFICATION RuntimeSpec
CONSTANTS
  Length = 3
  SizeLimit = 64
  AddressLimit = 4
  Untouched = Untouched
  Loads <- MCLoads
  Contents <- MCContents
  BufferSize = 3
  Readers <- MCReaders
  Writes <- MCWrites
  MaxRecords = 3
  MaxLine = 4
  MaxOut = 1
  Fds = {3, 4}
  Texts = {"a", "b"}
  Modes <- MCModes
  MaxShown = 2
INVARIANTS
  RuntimeTypeOK
  NeverOverruns
  LoadsInOrder
  RecordsInOrder
  WritesApart
  TextInItsFile
PROPERTIES
  FailedReadKeepsLine
  TakesItsWord
CHECK_DEADLOCK FALSE
