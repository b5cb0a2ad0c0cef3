SPECIFICATION ReviewSpec
CONSTANTS
  Variants <- MCVariants
  ViewWindows <- MCWindows
  Chips <- MCChips
  MaxTyped = 3
  TextIds = 10
  Cap = 2
INVARIANTS
  NumbersAgree SelectionOwnsEvents
CHECK_DEADLOCK FALSE
