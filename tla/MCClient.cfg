SPECIFICATION FairSpec
CONSTANTS
  s1 = s1
  s2 = s2
  Session = {s1, s2}
  AppCap = 2
  MaxNotes = 2
INVARIANTS
  Fifo
  CallbackOfSession
PROPERTIES
  EverythingArrives
  RegisteredAnswered
CHECK_DEADLOCK FALSE
