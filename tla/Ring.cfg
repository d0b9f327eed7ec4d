\* Eight items through a ring of three.
CONSTANTS
  Capacity = 3
  MaxItems = 8
SPECIFICATION Spec
INVARIANTS TypeOK
PROPERTIES ImplementsChannel FullRingDrains
CHECK_DEADLOCK FALSE
