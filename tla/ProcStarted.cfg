CONSTANTS
  Main = main
  Other = {}
  NoPid = nopid
  Thread = {t1, t2}
  Pid = {p1, p2}
  MaxForks = 2
  Reuse = FALSE
SPECIFICATION Spec
PROPERTY StartedIsAlive
SYMMETRY Symmetry
