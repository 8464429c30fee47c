CONSTANTS
  Conn = {c1, c2, c3}
  Child = {h1, h2}
  Listening = listening
  MaxFiles = 2
  MaxTasks = 3
  Backlog = 2
SPECIFICATION FairSpec
INVARIANTS TypeOK OneOwner
PROPERTIES ServedOrTold CapacityReturns
