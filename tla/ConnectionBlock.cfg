CONSTANTS
  s1 = s1
  s2 = s2
  t1 = t1
  t2 = t2
  Slot = {s1}
  Unused = Unused
  Thread = {t1, t2}
  MaxFd = 3
  FdSetSize = 3
  MaxAddrs = 1
  MaxCount = 1
SPECIFICATION Spec
INVARIANT BlockHandlerExists
