SPECIFICATION BalFairSpec
CONSTANTS
    None = None
    Nodes = {n1}
    Partitions = {us}
    Served = {us}
    Weights = {1}
    Updaters = {bg, r1}
    Background = bg
    Requests = {r1}
    OfferPartition = us
    SelectionBias = FALSE
    MaxRetries = 1
    SuccessThreshold = 1
    FailureThreshold = 1
    MaxFlips = 0
    MaxEtag = 2
    MaxConnectFaults = 0
PROPERTIES DroppedNodeLeaves
