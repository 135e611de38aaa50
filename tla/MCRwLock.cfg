SPECIFICATION Spec
CONSTANTS
    p1 = p1  p2 = p2  p3 = p3
    Proc = {p1, p2, p3}
INVARIANTS TypeOK StateCounts NoRecursion IrqRestored
PROPERTIES Implements
