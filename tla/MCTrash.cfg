SPECIFICATION TrashSpec
CONSTANTS
    NULL = NULL
    a = a  b = b  c = c
    a1 = a1  b1 = b1
    La = La  Lfree = Lfree
    Obj = {a, b, c}
    Slot = {a1, b1}
    List = {La, Lfree}
    SlotOwner <- MCSlotOwner
    ListOwner <- MCListOwner
INVARIANTS TrashTypeOK TreeSound WhereSurvives
PROPERTIES OnlyThrownDie ClearExact ClearEnds
