SPECIFICATION Spec
CONSTANTS
    None = None
    Nodes = {n1}
    Partitions = {us, it}
    Served = {us}
    Weights = {1}
    Updaters = {bg}
    Background = bg
    MaxEtag = 2
    MaxConnectFaults = 0
INVARIANTS PartitionsFollow
