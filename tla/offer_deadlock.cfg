SPECIFICATION FairSpec
CONSTANTS
    None = None
    Callers = {c1, c2}
    Partitions = {us}
    Ids = {o1}
    MetadataIds = {m1}
PROPERTY CallsReturn
CHECK_DEADLOCK FALSE
