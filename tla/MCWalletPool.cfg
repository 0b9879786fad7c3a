SPECIFICATION Spec
CONSTANTS
    a1 = a1
    a2 = a2
    Addresses <- MCAddresses
    Initial <- MCInitial
    Users = {u1, u2}
    Admins = {m1, m2}
    Derives = TRUE
    Strategies <- AllStrategies
    MaxConcurrent <- MCMaxConcurrent
    MaxUses <- MCMaxUses
    MaxChanges = 2
    None = None
SYMMETRY Symmetry
INVARIANTS
    TypeOK
    StoresAgree
    CountsAgree
    BoundedOvertaking
PROPERTIES
    NoneOnlyInARace
CHECK_DEADLOCK FALSE
