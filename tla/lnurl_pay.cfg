SPECIFICATION PaySpec
CONSTANTS
    None = None
    Callers = {a, b}
    Partitions = {us}
    Served = {us}
    Ids = {o1}
    MetadataIds = {m1}
    Texts = {x, y}
    Amounts = {1, 2}
    MaxTime = 1
    Submitted <- SubmittedOffers
    Payers = {p1}
INVARIANTS PayTypeOK OffersHaveMetadata ToldIsDone MismatchExplained RefusalExplained NoInvoiceOnceGone
SYMMETRY Symmetry
PROPERTY ImplementsCatalog
