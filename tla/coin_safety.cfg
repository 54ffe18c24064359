\* A coin and every failure of its calls.
SPECIFICATION Spec
CONSTANTS
  Faults <- AllFaults
  BootMax = 6
INVARIANTS
  TypeOK
  OwnsConnection
  LedOffAsleep
  IInv
PROPERTIES
  SosShown
