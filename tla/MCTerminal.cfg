SPECIFICATION Spec
CONSTANTS
  Ttys = {0, 1}
  Width = 2
  Height = 2
  LineMax = 3
  IntRange = 64
  Typed = {"a", "backspace", "newline", "esc", "F1", "F2", "kpenter"}
  Outputs <- MCOutputs
  Counts = {1, 3}
  MaxKeys = 4
  MaxOutputs = 1
INVARIANTS ScreenIsCurrent EchoShowsLine NoStuckModifier EnterHasRoom
\* The user stops typing.
CHECK_DEADLOCK FALSE
