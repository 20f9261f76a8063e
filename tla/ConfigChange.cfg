\* Two network writes, a policy write and a client's name, failures of every read
\* and write, and a crash.
SPECIFICATION Spec
CONSTANTS
    NetworkWrites = {n1, n2}
    PolicyWrites = {p1}
    ClientWrites = {c1}
    MaxCrashes = 1
    Nobody = Nobody
SYMMETRY NetworkSymmetry
INVARIANTS
    JournalAccountsForWrites
    SnapshotWasStored
    UnwarnedWriteIsInForce
    DriftIsReported
