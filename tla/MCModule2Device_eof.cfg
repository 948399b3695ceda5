CONSTANTS
  Readers = {r1, r2}
  Pollers = {r1, r2}
  Count = 2
  EarlyOpen = FALSE
  Reorder = FALSE
  MaxMessages = 3
  Length <- Lengths

SPECIFICATION Spec
INVARIANT ReadsBlockUntilData
