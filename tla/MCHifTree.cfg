SPECIFICATION Spec
CONSTANTS
    NULL = NULL
    a = a  b = b  c = c  d = d
    a1 = a1  a2 = a2  b1 = b1
    La = La  Lb = Lb  Lfree = Lfree
    Obj = {a, b, c, d}
    Slot = {a1, a2, b1}
    List = {La, Lb, Lfree}
    SlotOwner <- MCSlotOwner
    ListOwner <- MCListOwner
SYMMETRY Sym
INVARIANTS TypeOK TreeInv Acyclic UpAgreesWithDown
PROPERTY ImplementsForest
