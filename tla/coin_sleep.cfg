\* A coin whose disconnections succeed.
SPECIFICATION FairSpec
CONSTANTS
  Faults <- SomeFaults
  BootMax = 6
INVARIANTS
  TimeoutAnswered
PROPERTIES
  GoesToSleep
