SPECIFICATION HttpSpec
CONSTANTS
    None = None
    Nodes = {n1}
    Partitions = {}
    Weights = {1}
    Clients = {c1}
    Operators = {o1}
    MaxEtag = 2
    MaxRestarts = 1
    MaxLate = 1
INVARIANTS HttpTypeOK AnswerIsEffect AcknowledgedIsSeen ListMatchesEtagThisBoot
