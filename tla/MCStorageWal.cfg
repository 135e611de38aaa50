SPECIFICATION Spec
CONSTANTS
    t1 = t1  b1 = b1  b2 = b2
    Thread = {t1}
    Blk = {b1, b2}
    Slots = 6
    Lines = 2
    MaxUpd = 3
    MaxSeq = 3
    MaxNest = 2
INVARIANTS IncompleteIsSkipped
