SPECIFICATION Spec
CONSTANTS
    None = None
    Nodes = {n1}
    Partitions = {p1}
    Weights = {1}
    Clients = {c1}
    MaxEtag = 2
    TxnAbortsOnError = TRUE
INVARIANT PutStoresRow
