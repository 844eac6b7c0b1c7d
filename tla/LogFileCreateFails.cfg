SPECIFICATION Spec
CONSTANTS
  Lengths = {1, 40}
  Maxlines = 2
  Maxsize = 60
  Maxdays = 1
  MaxNum = 2
  MaxDay = 2
  MaxMsgs = 4
  MaxCrash = 0
PROPERTY WritesToNewFile
