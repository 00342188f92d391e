SPECIFICATION BalFairSpec
CONSTANTS
    None = None
    Nodes = {n1}
    Partitions = {us, it}
    Served = {us}
    Weights = {1, 2}
    Updaters = {bg}
    Background = bg
    Requests = {}
    OfferPartition = us
    SelectionBias = TRUE
    MaxRetries = 0
    SuccessThreshold = 2
    FailureThreshold = 2
    MaxFlips = 2
    MaxEtag = 2
    MaxConnectFaults = 1
INVARIANTS SettledMatchesStore
PROPERTIES Converges SelfHealing FailedNodeLeaves DroppedNodeLeaves
