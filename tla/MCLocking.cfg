SPECIFICATION Spec
CONSTANTS
  Threads = {t1, t2, t3}
  Nobody = Nobody
  Stages <- AllStages
  kNumSizeClasses = 2
INVARIANTS
  TypeOK
  OneThreadPerPath
  WaitersOwnNothing
  ContentionStaysOnPath
PROPERTIES
  SomeCallReturns
  EveryCallReturns
