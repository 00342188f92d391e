SPECIFICATION FairSpec
CONSTANTS
    None = None
    Callers = {c1, c2}
    MaxDowns = 2
    MaxRefusals = 1
INVARIANTS TypeOK FailedNotShared OneDial
PROPERTIES Recovers CallsEnd
