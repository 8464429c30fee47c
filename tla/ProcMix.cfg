CONSTANTS
  Main = main
  Other = {"foreign"}
  NoPid = nopid
  Thread = {t1, t2}
  Pid = {p1, p2}
  MaxForks = 2
  Reuse = FALSE
SPECIFICATION FairSpec
INVARIANTS TypeOK NoLostZombie
PROPERTIES OwnVerdict ImplementsService
