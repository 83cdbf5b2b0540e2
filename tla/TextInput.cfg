SPECIFICATION Spec
CONSTANTS
  Char = {a, b}
  MaxText = 1
  MaxLength = {0, 2}
  MaxKeys = 4
  MaxCommands = 2
  MaxThreads = 2
SYMMETRY Symmetry
INVARIANTS TypeOK KeysKept CursorInText
CHECK_DEADLOCK FALSE
