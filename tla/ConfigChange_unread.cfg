\* A network write that is committed but cannot be read back.
SPECIFICATION Spec
CONSTANTS
    NetworkWrites = {n1, n2}
    PolicyWrites = {p1}
    ClientWrites = {c1}
    MaxCrashes = 1
    Nobody = Nobody
INVARIANTS
    AccessFollowsStore
