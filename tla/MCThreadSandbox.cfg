SPECIFICATION FairSpec
CONSTANTS
  th1 = th1
  r1 = r1
  r2 = r2
  c1 = c1
  c2 = c2
  c3 = c3
  b1 = b1
  b2 = b2
  Threads = {th1}
  Runs = {r1, r2}
  Calls = {c1, c2, c3}
  Boxes = {b1, b2}
  ThreadOf <- MCThreadOf
  RunOf <- MCRunOf
  NoRun = NoRun
  NoBox = NoBox
  Free = Free
  Deleter = Deleter
  MaxTrouble = 4
INVARIANTS ContainersAreAccountedFor MountIsExclusive
PROPERTIES ActiveIsNotReaped IdleIsReaped
CHECK_DEADLOCK FALSE
