SPECIFICATION Spec
CONSTANTS
    None = None
    Nodes = {n1, n2}
    Partitions = {p1}
    Weights = {1}
    Clients = {c1, c2}
    MaxEtag = 3
    TxnAbortsOnError = TRUE
INVARIANTS TypeOK ListMatchesEtag
PROPERTY ImplementsVersionedList
