SPECIFICATION PagesSpec
CONSTANTS
    None = None
    Callers = {c1, c2}
    Partitions = {us}
    Ids = {o1, o2}
    MetadataIds = {m1}
    Walked = us
    max_page_size = 2
    Counts = {1, 2, 3}
INVARIANTS PagesTypeOK OffersHaveMetadata MissedExplained RepeatedExplained
PROPERTY ImplementsCatalog
SYMMETRY Symmetry
