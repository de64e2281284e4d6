CONSTANTS
    Users = {daemon, alice, bob}
    RootLogin = TRUE
    MaxNest = 3
SPECIFICATION Spec
INVARIANTS TypeOK ActsAsSession NoRootAfterRevoke CanReturn
INVARIANT BracketsHonoured
