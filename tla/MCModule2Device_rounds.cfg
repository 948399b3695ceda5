CONSTANTS
  Readers = {r1, r2}
  Pollers = {r1}
  Count = 2
  EarlyOpen = TRUE
  Reorder = TRUE
  MaxMessages = 3
  Length <- Lengths

SPECIFICATION Spec
INVARIANT ReadsAsPromised
PROPERTY WholeAndOnce

\* Readers that ran into the missing queue are dead, and the producer stops at
\* MaxMessages.
CHECK_DEADLOCK FALSE
