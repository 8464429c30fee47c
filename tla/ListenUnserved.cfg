CONSTANTS
  Conn = {c1, c2, c3}
  Child = {h1}
  Listening = listening
  MaxFiles = 2
  MaxTasks = 2
  Backlog = 2
SPECIFICATION Spec
INVARIANT EveryConnectionServed
