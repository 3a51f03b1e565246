\* One sign-in with every answer, launch and interrupt; slow_down returns no
\* interval or a longer one, and a code outlives several polls.
SPECIFICATION FairSpec
CONSTANTS
  Lifetimes = {3, 6}
  Intervals = {1, 2}
  Returned = {0, 4}
  Increment = 2
  MaxManual = 2
  Horizon = 12
INVARIANTS
  LinkAtHand
PROPERTIES
  KeepsThePace
  PollsWhileWanted
  Ends
CHECK_DEADLOCK FALSE
