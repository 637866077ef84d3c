SPECIFICATION MCSpec
CONSTANTS
  t1 = t1
  t2 = t2
  t3 = t3
  jibA = jibA
  jibB = jibB
  NoThread = NoThread
  Threads = {t1, t2}
  CoreThreads = {t1, t2, t3}
  Jibs = {jibA, jibB}
  NestsIn <- MCNestsIn
  MaxCalls = 3
  MaxLateCalls = 3
INVARIANTS TypeOK EngineExclusive NoUseAfterRelease ReleaseIsFinal LockedUseExclusive
PROPERTIES ActsAtomically EverythingReturns
CHECK_DEADLOCK FALSE
