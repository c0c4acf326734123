SPECIFICATION Spec
CONSTANTS
  MaxEvents = 24
  Reserve = 8
  StreamBudget = 12
  StreamChars = 2
  MaxOutput = 60
  FragmentSizes = {1, 2, 3, 5, 9}
CHECK_DEADLOCK FALSE
INVARIANTS
  TextNeverRefused
  Prompt
  RoomForOutcome
