SPECIFICATION Spec
CONSTANTS
    a1 = a1
    a2 = a2
    Addresses <- MCAddresses
    Initial <- MCInitial
    Users = {u1}
    Admins = {m1}
    Derives = TRUE
    Strategies = {"RoundRobin"}
    MaxConcurrent <- MCMaxConcurrent1
    MaxUses <- MCMaxUses1
    MaxChanges = 0
    None = None
PROPERTIES
    RotatesOnEachCall
CHECK_DEADLOCK FALSE
