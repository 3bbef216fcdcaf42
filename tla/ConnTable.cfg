SPECIFICATION FairSpec
CONSTANTS
  Ids = {0, 1, 2, 4}
  Size = 2
  Members = {m1, m2}
  Channels = 3
INVARIANTS
  TableIsExact
  IteratorIsValid
  NoneOfAbsent
  LoopVisitsAll
PROPERTY
  LoopsEnd
