CONSTANTS
  Readers = {r1, r2}
  Pollers = {r1}
  Count = 2
  EarlyOpen = TRUE
  Reorder = TRUE
  MaxMessages = 2
  Length <- Lengths

SPECIFICATION FairSpec
PROPERTY UnloadEnds
PROPERTY ReadersWoken
INVARIANT NoLostWakeup
INVARIANT NothingLeaks
INVARIANT NoStaleBytes

\* Readers that ran into the missing queue are dead, and the producer stops at
\* MaxMessages.
CHECK_DEADLOCK FALSE
