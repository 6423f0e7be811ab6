SPECIFICATION Spec
CONSTANTS
  Call = {c1, c2, c3, c4}
  SettingsPort = 1
  FreePorts = {2, 3, 4}
  NoState = NoState
INVARIANT StateMatches
CHECK_DEADLOCK FALSE
