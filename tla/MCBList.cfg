SPECIFICATION Spec
CONSTANTS
    Obj = {o1, o2, o3, o4, o5}
    Link = {l1, l2, l3, l4, l5}
    List = {A, B}
    NULL = NULL
SYMMETRY Sym
INVARIANTS TypeOK ListInv GetBListExact
PROPERTIES ImplementsLists OperationsExact
