SPECIFICATION Spec
CONSTANTS
    Processes = 2
    Threads = {t1, t2}
    MaxRecords = 4
    MaxFaults = 3
    None = None
INVARIANTS LossAtTheEnds OneLinePerFault
CHECK_DEADLOCK FALSE
