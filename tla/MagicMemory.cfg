SPECIFICATION Spec
CONSTANTS
  PageSize = 4
  NumPages = 2
  WordSize = 2
  Byte = {0, 1}
  Undefined = Undefined
  MaxFile = 5
INVARIANTS
  TypeOK
  FileIsLoaded
PROPERTY ImplementsFlatMemory
