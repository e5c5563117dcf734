SPECIFICATION Spec
CONSTANTS
  MinSize = 4
  Step = 2
  Nodes = {1, 2, 3}
  QueNums = 3
  ConfigNums = 4
  Keys = {0, 1, 4, 5, 8, 12}
  Data = {1, 2}
  MaxLen = 6
  Letters <- MCLetters
  TextLen = 5
  Numbers = {0, 9, 99999, 131071, 1048581, 16777217, 33554431, 2147483647}
  Bytes = {0, 130, 255}
  Works <- MCWorks
  Rests <- MCRests
  PerSec = 3
  StartClock = 4
  MaxClock = 12
  MaxStep = 2
CHECK_DEADLOCK FALSE
INVARIANTS
  TypeOK
  Agrees
  Timely
