SPECIFICATION Spec
CONSTANTS
    Target = {here, there}
    LocalId = here
    MaxObjects = 4
INVARIANTS
    TypeOK
    StateIsReachable
