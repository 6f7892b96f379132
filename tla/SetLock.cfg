\* The mutexes are taken in the order of the cores, so cores are not interchangeable.
SPECIFICATION Spec
CONSTANTS
  N = 3
  MaxAccesses = 1
  MaxRequests = 1
INVARIANT Exclusion
PROPERTIES ImplementsLock EverybodyLeaves
CHECK_DEADLOCK FALSE
