SPECIFICATION Spec
CONSTANTS
  Lengths = {1, 40}
  Maxlines = 2
  Maxsize = 60
  Maxdays = 1
  MaxNum = 2
  MaxDay = 3
  MaxMsgs = 6
  MaxCrash = 1
INVARIANTS
  TypeOK
  WritesToNamedFile
  KeepsRecent
PROPERTIES
  BoundedFile
  
