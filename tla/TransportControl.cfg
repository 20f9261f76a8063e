\* Two queries and a learn worker during three changes, restarts included.
SPECIFICATION FairSpec
CONSTANTS
    Queries = {q1, q2}
    MaxChanges = 4
    None = None
INVARIANTS
    EncryptedMeansEncrypted
    BundleOutlivesItsUsers
    OneRefreshOwner
    SavedIsRunning
PROPERTIES
    ChangeReturns
