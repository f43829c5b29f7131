SPECIFICATION FairSpec
CONSTANTS
    lock = lock
    child = child
    audit = audit
    start = start
    Agents = {a1, a2}
    Events = {lock, child, audit, start}
    Needs <- MCNeeds
    TipBound <- MCTipBound
    EndsWith <- MCEndsWith
    MaxCrashes = 1
    None = None
INVARIANTS
    LedgerVerifies
    ReadersSeePrefix
PROPERTIES
    ImplementsLog
    AppendsEnd
