SPECIFICATION Spec
CONSTANTS
  Files = {"a", "b"}
  Module = "c"
  External = "x"
  Waits = TRUE
  None = None
  MaxVersion = 1
  MaxClicks = 4
INVARIANT RefusedStaysRefused
CHECK_DEADLOCK FALSE
