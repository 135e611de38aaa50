SPECIFICATION Spec
CONSTANTS
    p1 = p1  p2 = p2  p3 = p3  v1 = v1  v2 = v2
    Proc = {p1, p2, p3}
    Value = {v1, v2}
    MaxSeq = 3
INVARIANTS TypeOK ReadIsConsistent OddWhileWriting
