\* A query between its two loads of the selection.
SPECIFICATION Spec
CONSTANTS
    Queries = {q1}
    MaxChanges = 3
    None = None
INVARIANTS
    OneProfilePerQuery
