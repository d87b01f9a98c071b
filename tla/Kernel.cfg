SPECIFICATION Spec
CONSTANTS
  o1 = o1
  o2 = o2
  o3 = o3
SYMMETRY Symmetric
INVARIANTS TypeOK ModulesHeld LinkedRight DriversSound
PROPERTIES RegistrationKept
CHECK_DEADLOCK FALSE
