CONSTANTS
  Event = {e1}
  Worker = {w1, w2}
  Max = 3
SPECIFICATION FairSpec
INVARIANTS AttemptsTellTheStory NotifiedOrGivenUp
PROPERTIES EventsEnd
CHECK_DEADLOCK FALSE
