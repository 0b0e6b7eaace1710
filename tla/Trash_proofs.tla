---------------------------- MODULE Trash_proofs ----------------------------
(***************************************************************************)
(* Clearing the trash is safe for any tree, any set of thrown nodes and    *)
(* any order of the addresses.  The argument is one about ancestors:       *)
(* deleting the subtree of o changes the ancestors of no node outside it   *)
(* (AncestorsKept), so what the loop knows of the nodes that are left      *)
(* stays true: the node in use is not below o, because o would have been   *)
(* kept; no kept node is below o, because o would then be above the node   *)
(* in use; a thrown node that has been skipped is still below a thrown     *)
(* node that is left.                                                      *)
(***************************************************************************)
EXTENDS Trash, HifTree_proofs

\* What the loop knows of the sets it works on.
Inert   == ~clearing => tmpTrash = {} /\ where = NULL
InUse   == clearing /\ where # NULL => where \in live
KeptUp  == \A t \in tmpTrash : IsSubNode(where, t)
Placed  == clearing => \A o \in holder : inlist[o] # NULL => ListOwner[inlist[o]] # NULL
Marked  == clearing => \A o \in holder : Subtree(o) \subseteq doomed
Covered == clearing /\ where = NULL =>
              \A x \in doomed \cap live : \E h \in holder : x \in Subtree(h)

TrashInv == TrashTypeOK /\ TreeSound /\ Inert /\ InUse /\ KeptUp /\ Placed /\ Marked /\ Covered

-----------------------------------------------------------------------------
\* Ancestors of a node outside a set that is closed downwards are outside it too.
LEMMA AncestorsOutside ==
    ASSUME TypeOK, TreeInv, NEW o \in Obj, NEW x \in Obj, x \notin Subtree(o)
    PROVE  Ancestors(x) \cap Subtree(o) = {}
<1> SUFFICES ASSUME NEW a \in Ancestors(x), a \in Subtree(o) PROVE FALSE
  OBVIOUS
<1>1. a \in Obj /\ o \in Ancestors(a)
  BY AncestorsClosed, UpIsDown
<1>2. o \in Ancestors(x)
  BY <1>1, AncestorsTransitive
<1> QED BY <1>2, UpIsDown

\* Everything above an allocated node is allocated.
LEMMA AncestorsLive ==
    ASSUME TypeOK, TreeInv, NEW x \in live
    PROVE  Ancestors(x) \subseteq live
<1>1. live \in SUBSET Obj /\ x \in Obj
  BY DEF TypeOK
<1>2. ASSUME NEW y \in live, GetParent(y) # NULL PROVE GetParent(y) \in live
  <2> USE DEF TreeInv, OwnershipExact, NothingDangles
  <2>1. y \in Obj
    BY <1>1
  <2>2. CASE inlist[y] # NULL
    <3>1. inlist[y] \in List /\ y \in members[inlist[y]]
      BY <2>1, <2>2 DEF TypeOK
    <3> QED BY <1>2, <2>2, <3>1 DEF GetParent
  <2>3. CASE inlist[y] = NULL
    <3>0. field[y] # NULL /\ child[field[y]] = y
      BY <1>2, <2>1, <2>3 DEF GetParent
    <3>1. field[y] \in Slot /\ child[field[y]] = y /\ parent[y] = SlotOwner[field[y]]
      BY <2>1, <3>0, TreeAssumption DEF TypeOK
    <3>2. SlotOwner[field[y]] \in live
      BY <2>1, <3>1, TreeAssumption
    <3> QED BY <2>3, <3>1, <3>2 DEF GetParent
  <2> QED BY <2>2, <2>3
<1>3. ClosedUp(live)
  BY <1>2 DEF ClosedUp
<1> QED BY <1>1, <1>3, AncestorsLeast

\* The deletion of the subtree of o changes no other node's way up.
LEMMA AncestorsKept ==
    ASSUME TypeOK, TreeInv, TypeOK', NEW o \in Obj,
           inlist' = [x \in Obj |-> IF x \in Subtree(o) THEN NULL ELSE inlist[x]],
           parent' = [x \in Obj |-> IF x \in Subtree(o) THEN NULL ELSE parent[x]],
           NEW x \in Obj, x \notin Subtree(o)
    PROVE  Ancestors(x)' = Ancestors(x)
<1>1. \A y \in Obj \ Subtree(o) : GetParent(y)' = GetParent(y)
  BY DEF GetParent
<1>2. Ancestors(x) \cap Subtree(o) = {} /\ x \in Ancestors(x) /\ Ancestors(x) \in SUBSET Obj
  BY AncestorsOutside, AncestorsClosed
<1>3. \A y \in Ancestors(x) : GetParent(y)' # NULL => GetParent(y)' \in Ancestors(x)
  BY <1>1, <1>2, AncestorsClosed DEF ClosedUp
<1>4. Ancestors(x)' \subseteq Ancestors(x)
  <2> SUFFICES ASSUME NEW y \in Ancestors(x)' PROVE y \in Ancestors(x)
    OBVIOUS
  <2>1. \A S \in SUBSET Obj :
           x \in S /\ (\A z \in S : GetParent(z)' # NULL => GetParent(z)' \in S) => y \in S
    BY DEF Ancestors, ClosedUp
  <2> QED BY <1>2, <1>3, <2>1
<1>5. Ancestors(x) \subseteq Ancestors(x)'
  <2> SUFFICES ASSUME NEW S \in SUBSET Obj, x \in S,
                      \A y \in S : GetParent(y)' # NULL => GetParent(y)' \in S
               PROVE  Ancestors(x) \subseteq S
    BY <1>2 DEF Ancestors, ClosedUp
  <2> DEFINE R == S \cap Ancestors(x)
  <2>1. x \in R /\ R \in SUBSET Obj
    BY <1>2
  <2>2. ASSUME NEW y \in R, GetParent(y) # NULL PROVE GetParent(y) \in R
    <3>1. GetParent(y)' = GetParent(y) /\ GetParent(y) \in S
      BY <1>1, <1>2, <2>2
    <3>2. GetParent(y) \in Ancestors(x)
      BY <2>2, AncestorsClosed DEF ClosedUp
    <3> QED BY <3>1, <3>2
  <2> QED BY <2>1, <2>2, AncestorsLeast DEF ClosedUp
<1> QED BY <1>4, <1>5

\* Going up and going down agree, before and after a step.
BothWays == \A x, p \in Obj : /\ p \in Ancestors(x) <=> x \in Subtree(p)
                              /\ OwnsIn(p, x) <=> GetParent(x) = p

LEMMA BothWaysAgree == TypeOK /\ TreeInv => BothWays
BY UpIsDown, EdgesAgree DEF BothWays

LEMMA UpIsDownAfter ==
    ASSUME TypeOK', TreeInv'
    PROVE  \A x, p \in Obj : /\ p \in Ancestors(x)' <=> x \in Subtree(p)'
                             /\ OwnsIn(p, x)' <=> GetParent(x)' = p
<1>1. BothWays'
  BY BothWaysAgree, PTL
<1> QED BY <1>1 DEF BothWays

\* A node that loses fields and list elements has a smaller subtree.
LEMMA SubtreeShrinks ==
    ASSUME NEW o \in Obj,
           \A p, c \in Obj : OwnsIn(p, c)' => OwnsIn(p, c)
    PROVE  Subtree(o)' \subseteq Subtree(o)
<1> SUFFICES ASSUME NEW x \in Subtree(o)' PROVE x \in Subtree(o)
  OBVIOUS
<1>1. x \in Obj
  BY DEF Subtree
<1>2. \A S \in SUBSET Obj :
         o \in S /\ (\A p \in S, c \in Obj : OwnsIn(p, c)' => c \in S) => x \in S
  BY DEF Subtree, ClosedDown
<1>3. ASSUME NEW S \in SUBSET Obj, o \in S, ClosedDown(S) PROVE x \in S
  BY <1>2, <1>3 DEF ClosedDown
<1> QED BY <1>1, <1>3 DEF Subtree

-----------------------------------------------------------------------------
\* One iteration that deletes: the tree after it.
LEMMA ReclaimTree ==
    ASSUME TrashInv, clearing, NEW o \in holder, Reclaim(o)
    PROVE  TypeOK' /\ TreeInv'
<1> DEFINE D == Subtree(o)
           slots == SlotsWithout(o)
           lists == ListsWithout(o)
<1>0. /\ TypeOK /\ TreeInv /\ o \in Obj
      /\ inlist[o] # NULL => ListOwner[inlist[o]] # NULL
  BY DEF TrashInv, TrashTypeOK, TreeSound, Placed
<1>1. D \in SUBSET Obj /\ ClosedDown(D)
  BY <1>0, SubtreeClosed DEF ClosedDown
<1>2. \A s \in Slot : child[s] = o => inlist[o] = NULL /\ field[o] = s /\ GetParent(o) # NULL
  BY <1>0, TreeAssumption DEF TypeOK, TreeInv, OwnershipExact, GetParent
<1>3. /\ slots \in [Slot -> Obj \cup {NULL}]
      /\ \A s \in Slot : slots[s] = child[s] \/ (slots[s] = NULL /\ child[s] \in D)
      /\ \A s \in Slot : slots[s] # o
  <2>1. CASE inlist[o] = NULL /\ GetParent(o) # NULL
    <3>1. field[o] # NULL /\ child[field[o]] = o /\ field[o] \in Slot
      BY <1>0, <2>1 DEF TypeOK, TreeInv, OwnershipExact, GetParent
    <3>2. slots = [child EXCEPT ![field[o]] = NULL] /\ o \in D /\ o # NULL
      BY <1>0, <2>1, SubtreeClosed, TreeAssumption DEF SlotsWithout
    <3>3. child \in [Slot -> Obj \cup {NULL}]
      BY <1>0 DEF TypeOK
    <3> HIDE DEF slots, D
    <3>4. slots \in [Slot -> Obj \cup {NULL}]
      BY <3>1, <3>2, <3>3
    <3>5. \A s \in Slot : slots[s] = IF s = field[o] THEN NULL ELSE child[s]
      BY <3>1, <3>2, <3>3
    <3> QED BY <1>2, <3>1, <3>2, <3>4, <3>5
  <2>2. CASE ~(inlist[o] = NULL /\ GetParent(o) # NULL)
    <3>1. slots = child
      BY <2>2 DEF SlotsWithout
    <3> QED BY <1>0, <1>2, <2>2, <3>1 DEF TypeOK
  <2> QED BY <2>1, <2>2
<1>4. ASSUME NEW s \in Slot, slots[s] \in D PROVE SlotOwner[s] \in D
  <2>1. child[s] \in D /\ child[s] # o
    BY <1>1, <1>3, <1>4, TreeAssumption
  <2>2. OwnsIn(SlotOwner[s], child[s]) /\ SlotOwner[s] \in Obj
    BY TreeAssumption DEF OwnsIn
  <2> QED BY <1>0, <1>1, <2>1, <2>2, OwnerInside
<1>5. /\ lists \in [List -> SUBSET Obj]
      /\ \A L \in List : lists[L] \subseteq members[L] /\ members[L] \ {o} \subseteq lists[L]
      /\ \A L \in List : o \notin lists[L]
  <2>1. \A L \in List : o \in members[L] => inlist[o] = L /\ GetParent(o) # NULL
    BY <1>0, TreeAssumption DEF TypeOK, TreeInv, OwnershipExact, GetParent
  <2>2. members \in [List -> SUBSET Obj] /\ inlist[o] \in List \cup {NULL}
    BY <1>0 DEF TypeOK
  <2>3. CASE inlist[o] # NULL /\ GetParent(o) # NULL
    <3>1. lists = [members EXCEPT ![inlist[o]] = @ \ {o}]
      BY <2>3 DEF ListsWithout
    <3> HIDE DEF lists
    <3>2. lists \in [List -> SUBSET Obj]
      BY <2>2, <2>3, <3>1
    <3>3. \A L \in List : lists[L] = IF L = inlist[o] THEN members[L] \ {o} ELSE members[L]
      BY <2>2, <2>3, <3>1
    <3> QED BY <2>1, <3>2, <3>3
  <2>4. CASE ~(inlist[o] # NULL /\ GetParent(o) # NULL)
    <3>1. lists = members
      BY <2>4 DEF ListsWithout
    <3> HIDE DEF lists
    <3>2. \A L \in List : o \notin members[L]
      BY <2>1, <2>4, TreeAssumption
    <3> QED BY <2>2, <3>1, <3>2
  <2> QED BY <2>3, <2>4
<1>6. ASSUME NEW L \in List, ListOwner[L] \notin D PROVE lists[L] \cap D = {}
  <2> SUFFICES ASSUME NEW x \in lists[L], x \in D PROVE FALSE
    OBVIOUS
  <2>1. x \in members[L] /\ x # o /\ inlist[x] = L /\ x \in Obj
    BY <1>0, <1>1, <1>5 DEF TreeInv, OwnershipExact
  <2>2. CASE ListOwner[L] = NULL
    BY <1>0, <2>1, <2>2, FreeListIsTop, TreeAssumption
  <2>3. CASE ListOwner[L] # NULL
    <3>1. OwnsIn(ListOwner[L], x) /\ ListOwner[L] \in Obj
      BY <2>1, <2>3, TreeAssumption DEF OwnsIn
    <3> QED BY <1>0, <1>6, <2>1, <3>1, OwnerInside
  <2> QED BY <2>2, <2>3
<1>7. /\ Destroy(D, slots, lists)
      /\ \A L \in List : lists[L] \subseteq members[L] /\ members[L] \ D \subseteq lists[L]
  BY <1>0, <1>5, SubtreeClosed DEF Reclaim
<1> HIDE DEF D, slots, lists
<1> QED BY <1>0, <1>1, <1>3, <1>4, <1>5, <1>6, <1>7, DestroyStep

\* One iteration that deletes: what the loop knows stays true.
LEMMA ReclaimStep ==
    ASSUME TrashInv, clearing, NEW o \in holder, ~IsSubNode(where, o), Reclaim(o),
           UNCHANGED <<clearing, where, start, doomed>>
    PROVE  TrashInv'
<1> DEFINE D == Subtree(o)
<1>0. /\ TypeOK /\ TreeInv /\ TypeOK' /\ TreeInv'
      /\ o \in Obj /\ o # NULL /\ where \in Obj \cup {NULL}
      /\ holder \in SUBSET Obj /\ tmpTrash \in SUBSET Obj /\ live \in SUBSET Obj
      /\ start \in SUBSET Obj /\ doomed \in SUBSET Obj
  BY ReclaimTree, TreeAssumption DEF TrashInv, TrashTypeOK, TreeSound, TypeOK
<1>1. /\ live' = live \ D /\ tmpTrash' = tmpTrash
      /\ inlist' = [x \in Obj |-> IF x \in D THEN NULL ELSE inlist[x]]
      /\ parent' = [x \in Obj |-> IF x \in D THEN NULL ELSE parent[x]]
  BY DEF Reclaim, Destroy
<1>2. holder' = holder \ D
  <2>1. \A t \in holder : IsSubNode(t, o) <=> t \in D
    BY <1>0, UpIsDown, TreeAssumption DEF IsSubNode
  <2> QED BY <2>1 DEF Reclaim
<1>3. where # NULL => where \in Obj /\ where \notin D
  BY <1>0, UpIsDown DEF IsSubNode
<1>4. ASSUME NEW t \in tmpTrash PROVE t \notin D /\ where # NULL /\ t \in Ancestors(where)
  <2>1. where # NULL /\ t \in Ancestors(where)
    BY DEF TrashInv, KeptUp, IsSubNode
  <2> QED BY <1>0, <1>3, <2>1, AncestorsOutside
<1>5. \A x \in Obj : x \notin D => Ancestors(x)' = Ancestors(x)
  BY <1>0, <1>1, AncestorsKept
<1>6. \A p, c \in Obj : OwnsIn(p, c)' => OwnsIn(p, c)
  <2>1. \A x \in Obj : GetParent(x)' # NULL => GetParent(x)' = GetParent(x)
    BY <1>0, <1>1 DEF GetParent
  <2>2. \A p, c \in Obj : OwnsIn(p, c)' => GetParent(c)' = p
    BY <1>0, UpIsDownAfter
  <2>3. ASSUME NEW p \in Obj, NEW c \in Obj, OwnsIn(p, c)' PROVE OwnsIn(p, c)
    <3>1. GetParent(c)' = p /\ p # NULL
      BY <2>2, <2>3, TreeAssumption
    <3>2. GetParent(c) = p
      BY <2>1, <3>1
    <3> QED BY <1>0, <3>2, EdgesAgree
  <2> QED BY <2>3
<1> HIDE DEF D
<1>7. TrashTypeOK'
  BY <1>0, <1>1, <1>2 DEF TrashInv, TrashTypeOK
<1>8. TreeSound'
  BY <1>0, <1>1, <1>2, <1>4 DEF TrashInv, TreeSound
<1>9. Inert' /\ InUse'
  BY <1>1, <1>3 DEF TrashInv, Inert, InUse
<1>10. KeptUp'
  BY <1>1, <1>3, <1>4, <1>5 DEF TrashInv, KeptUp, IsSubNode
<1>11. Placed'
  BY <1>0, <1>1, <1>2 DEF TrashInv, Placed
<1>12. Marked'
  <2>1. \A h \in Obj : Subtree(h)' \subseteq Subtree(h)
    BY <1>6, SubtreeShrinks
  <2> QED BY <1>0, <1>2, <2>1 DEF TrashInv, Marked
<1>13. Covered'
  <2> SUFFICES ASSUME where = NULL, NEW x \in doomed, x \in live, x \notin D
               PROVE  \E h \in holder' : x \in Subtree(h)'
    BY <1>1 DEF Covered
  <2>1. PICK h \in holder : x \in Subtree(h)
    BY DEF TrashInv, Covered
  <2>2. x \in Obj /\ h \in Ancestors(x)
    BY <1>0, <2>1, UpIsDown
  <2>3. h \notin D
    BY <1>0, <2>2, AncestorsOutside DEF D
  <2>4. h \in Ancestors(x)'
    BY <1>5, <2>2
  <2>5. x \in Subtree(h)'
    BY <1>0, <2>2, <2>4, UpIsDownAfter
  <2> QED BY <1>2, <2>3, <2>5
<1> QED BY <1>7, <1>8, <1>9, <1>10, <1>11, <1>12, <1>13 DEF TrashInv

\* One iteration that leaves the tree alone.
LEMMA KeepStep ==
    ASSUME TrashInv, clearing, NEW o \in holder, Keep(o),
           UNCHANGED <<clearing, where, start, doomed>>
    PROVE  TrashInv'
<1>0. /\ UNCHANGED vars /\ IsSubNode(where, o) /\ o \in Obj
      /\ holder' = holder \ {o} /\ tmpTrash' = tmpTrash \cup {o}
  BY DEF Keep, TrashInv, TrashTypeOK
<1>1. TrashTypeOK' /\ TreeSound'
  BY <1>0 DEF TrashInv, TrashTypeOK, TreeSound, TypeOK, TreeInv, OwnershipExact, NothingDangles, vars
<1>2. Ancestors(where)' = Ancestors(where)
  BY <1>0 DEF Ancestors, ClosedUp, GetParent, vars
<1>3. Inert' /\ InUse' /\ Placed'
  BY <1>0 DEF TrashInv, Inert, InUse, Placed, vars
<1>4. KeptUp'
  BY <1>0, <1>2 DEF TrashInv, KeptUp, IsSubNode
<1>5. Marked'
  BY <1>0 DEF TrashInv, Marked, Subtree, ClosedDown, OwnsIn, vars
<1>6. Covered'
  BY <1>0 DEF IsSubNode, Covered
<1> QED BY <1>1, <1>3, <1>4, <1>5, <1>6 DEF TrashInv

LEMMA LeaveStep ==
    ASSUME TrashInv, clearing, NEW o \in holder, LeaveToAncestor(o),
           UNCHANGED <<clearing, where, start, doomed>>
    PROVE  TrashInv'
<1> PICK seen \in SUBSET {tmp \in holder \ {o} : IsSubNode(tmp, o) /\ ~IsSubNode(o, tmp)} :
            holder' = holder \ (seen \cup {o})
  BY DEF LeaveToAncestor
<1>0. UNCHANGED <<vars, tmpTrash>> /\ o \in Obj /\ holder \in SUBSET Obj /\ TypeOK /\ TreeInv
  BY DEF LeaveToAncestor, TrashInv, TrashTypeOK, TreeSound
<1>1. TrashTypeOK' /\ TreeSound'
  BY <1>0 DEF TrashInv, TrashTypeOK, TreeSound, TypeOK, TreeInv, OwnershipExact, NothingDangles, vars
<1>2. Ancestors(where)' = Ancestors(where)
  BY <1>0 DEF Ancestors, ClosedUp, GetParent, vars
<1>3. Inert' /\ InUse' /\ Placed'
  BY <1>0 DEF TrashInv, Inert, InUse, Placed, vars
<1>4. KeptUp'
  BY <1>0, <1>2 DEF TrashInv, KeptUp, IsSubNode
<1>5. \A h \in Obj : Subtree(h)' = Subtree(h)
  BY <1>0 DEF Subtree, ClosedDown, OwnsIn, vars
<1>6. Marked'
  BY <1>0, <1>5 DEF TrashInv, Marked
<1>7. Covered'
  <2> SUFFICES ASSUME where = NULL, NEW x \in doomed \cap live
               PROVE  \E h \in holder' : x \in Subtree(h)
    BY <1>0, <1>5 DEF Covered, vars
  <2>1. PICK h \in holder : x \in Subtree(h)
    BY DEF TrashInv, Covered
  <2>2. PICK top \in holder \ {o} : top \in Ancestors(o)
    BY DEF LeaveToAncestor, IsSubNode
  <2>3. top \in holder' /\ top \in Obj /\ h \in Obj /\ x \in Obj
    BY <1>0, <2>1, <2>2, TreeAssumption DEF IsSubNode, Subtree
  <2>4. CASE h \in holder'
    BY <2>1, <2>4
  <2>5. CASE h \notin holder'
    <3>1. o \in Ancestors(h)
      BY <1>0, <2>5, AncestorsClosed DEF IsSubNode
    <3>2. h \in Ancestors(x)
      BY <1>0, <2>1, <2>3, UpIsDown
    <3>3. top \in Ancestors(x)
      BY <1>0, <2>2, <2>3, <3>1, <3>2, AncestorsTransitive
    <3> QED BY <1>0, <2>3, <3>3, UpIsDown
  <2> QED BY <2>4, <2>5
<1> QED BY <1>1, <1>3, <1>4, <1>6, <1>7 DEF TrashInv

\* Every step of the specification.
LEMMA TrashStep == TrashInv /\ [TrashNext]_allVars => TrashInv'
<1> SUFFICES ASSUME TrashInv, [TrashNext]_allVars PROVE TrashInv'
  OBVIOUS
<1> USE DEF TrashInv, Inert
<1>1. ASSUME ~clearing, ~clearing', TypeOK', TreeInv', tmpTrash' = {}, where' = NULL,
             start' \in SUBSET Obj, doomed' \in SUBSET Obj, holder' \subseteq live'
      PROVE  TrashInv'
  <2>1. live' \in SUBSET Obj /\ clearing' = FALSE
    BY <1>1 DEF TypeOK, TrashTypeOK
  <2> QED BY <1>1, <2>1 DEF TrashTypeOK, TreeSound, InUse, KeptUp, Placed, Marked, Covered
<1>2. CASE ChangeTree
  <2>1. TypeOK' /\ TreeInv'
    BY <1>2, NextInv DEF ChangeTree, TrashTypeOK, TreeSound
  <2> QED BY <1>1, <1>2, <2>1 DEF ChangeTree, trashVars, TrashTypeOK
<1>3. CASE (\E o \in Obj : Throw(o) \/ Forget(o)) \/ Reset
  <2>1. /\ UNCHANGED <<vars, clearing, tmpTrash, where, start, doomed>> /\ ~clearing
        /\ holder' \subseteq live
    BY <1>3 DEF Throw, Forget, Reset, TreeSound
  <2>2. TypeOK' /\ TreeInv'
    BY <2>1, NextInv DEF TrashTypeOK, TreeSound, vars
  <2> QED BY <1>1, <2>1, <2>2 DEF TrashTypeOK, vars
<1>4. ASSUME NEW L \in List, ThrowList(L) PROVE TrashInv'
  <2>1. members[L] \in SUBSET members[L] /\ Release(L, members[L]) /\ ~clearing
    BY <1>4 DEF ThrowList
  <2>2. TypeOK' /\ TreeInv'
    BY <2>1, ListStep DEF TrashTypeOK, TreeSound
  <2>3. holder' \subseteq live'
    BY <1>4, <2>1 DEF ThrowList, Release, TreeSound, TreeInv, NothingDangles
  <2> QED BY <1>1, <1>4, <2>1, <2>2, <2>3 DEF ThrowList, TrashTypeOK
<1>5. ASSUME NEW w \in Obj \cup {NULL}, StartClear(w) PROVE TrashInv'
  <2> USE <1>5 DEF StartClear
  <2>1. /\ UNCHANGED <<vars, holder>> /\ clearing' /\ where' = w /\ tmpTrash' = {}
        /\ start' = holder /\ doomed' = UNION {Subtree(o) : o \in holder}
        /\ \A o \in Obj : Subtree(o) \in SUBSET Obj /\ Subtree(o)' = Subtree(o)
    BY DEF Subtree, ClosedDown, OwnsIn, vars
  <2>2. TrashTypeOK' /\ TreeSound'
    BY <2>1 DEF TrashTypeOK, TreeSound, TypeOK, TreeInv, OwnershipExact, NothingDangles, vars
  <2>3. Inert' /\ InUse' /\ KeptUp' /\ Placed'
    BY <2>1 DEF InUse, KeptUp, Placed, vars
  <2>4. Marked' /\ Covered'
    BY <2>1 DEF Marked, Covered, TrashTypeOK, vars
  <2> QED BY <2>2, <2>3, <2>4
<1>6. CASE ClearStep
  <2>1. PICK o \in holder : Keep(o) \/ (~IsSubNode(where, o) /\ (LeaveToAncestor(o) \/ Reclaim(o)))
    BY <1>6 DEF ClearStep
  <2>2. clearing /\ UNCHANGED <<clearing, where, start, doomed>>
    BY <1>6 DEF ClearStep
  <2> HIDE DEF TrashInv, Inert
  <2> QED BY <2>1, <2>2, KeepStep, LeaveStep, ReclaimStep
<1>7. CASE EndClear
  <2> USE <1>7 DEF EndClear
  <2>1. TypeOK' /\ TreeInv'
    BY NextInv DEF TrashTypeOK, TreeSound, vars
  <2>2. holder' \subseteq live' /\ live' \in SUBSET Obj
    BY DEF TreeSound, TrashTypeOK, TypeOK, vars
  <2> QED BY <2>1, <2>2
        DEF TrashTypeOK, TreeSound, InUse, KeptUp, Placed, Marked, Covered
<1>8. CASE UNCHANGED allVars
  <2>1. /\ UNCHANGED <<vars, holder, clearing, tmpTrash, where, start, doomed>>
        /\ \A o \in Obj : Subtree(o)' = Subtree(o) /\ Ancestors(o)' = Ancestors(o)
    BY <1>8 DEF allVars, vars, Subtree, ClosedDown, OwnsIn, Ancestors, ClosedUp, GetParent
  <2>2. TrashTypeOK' /\ TreeSound'
    BY <2>1 DEF TrashTypeOK, TreeSound, TypeOK, TreeInv, OwnershipExact, NothingDangles, vars
  <2>3. KeptUp'
    BY <2>1 DEF KeptUp, IsSubNode, TrashTypeOK
  <2>4. Marked' /\ Covered'
    BY <2>1 DEF Marked, Covered, TrashTypeOK, vars
  <2> QED BY <2>1, <2>2, <2>3, <2>4 DEF InUse, Placed, vars
<1> HIDE DEF TrashInv, Inert
<1> QED BY <1>2, <1>3, <1>4, <1>5, <1>6, <1>7, <1>8 DEF TrashNext

LEMMA TrashInductive == TrashSpec => []TrashInv
<1>1. TrashInit => TrashInv
  <2> SUFFICES ASSUME TrashInit PROVE TrashInv
    OBVIOUS
  <2>1. TypeOK /\ TreeInv
    BY InitInv DEF TrashInit
  <2> QED BY <2>1 DEF TrashInit, TrashInv, TrashTypeOK, TreeSound, Inert, InUse, KeptUp, Placed,
                      Marked, Covered
<1> QED BY <1>1, TrashStep, PTL DEF TrashSpec

\* The trash and the tmpTrash of a running clear() hold allocated nodes only, the node
\* clear() was given stays allocated, and a clear() that has ended leaves neither of the
\* two behind.
Allocated ==
    /\ holder \cup tmpTrash \subseteq live
    /\ clearing /\ where # NULL => where \in live
    /\ ~clearing => tmpTrash = {} /\ where = NULL

\* What the trash and clear() refer to is allocated, after any sequence of insertions,
\* changes of the tree and turns of clear(), whoever calls it and how often.
THEOREM TrashAllocated == TrashSpec => [](TrashTypeOK /\ Allocated)
<1>1. TrashInv => TrashTypeOK /\ Allocated
  BY DEF TrashInv, TreeSound, Inert, InUse, Allocated
<1> QED BY <1>1, TrashInductive, PTL

\* Between any two iterations of clear() the remaining tree refers to no deleted node,
\* both sides of ownership agree, and the trash and tmpTrash hold no deleted node.
THEOREM TrashSound == TrashSpec => []TreeSound
<1>1. TrashInv => TreeSound
  BY DEF TrashInv
<1> QED BY <1>1, TrashInductive, PTL

\* clear(where) deletes neither where nor any node above it.
THEOREM WhereKept == TrashSpec => []WhereSurvives
<1>1. TrashInv => WhereSurvives
  <2> SUFFICES ASSUME TrashInv, clearing, where # NULL PROVE Ancestors(where) \subseteq live
    BY DEF WhereSurvives
  <2>1. TypeOK /\ TreeInv /\ where \in live
    BY DEF TrashInv, TrashTypeOK, TreeSound, InUse
  <2> QED BY <2>1, AncestorsLive
<1> QED BY <1>1, TrashInductive, PTL

\* No iteration of clear() deletes a node that was not below one of the thrown nodes
\* when clear() was called.
THEOREM NothingElseDies == TrashSpec => OnlyThrownDie
<1>1. TrashInv /\ ClearStep => live \ live' \subseteq doomed
  <2> SUFFICES ASSUME TrashInv, clearing, NEW o \in holder,
                      Keep(o) \/ LeaveToAncestor(o) \/ Reclaim(o)
               PROVE  live \ live' \subseteq doomed
    BY DEF ClearStep
  <2>1. CASE Keep(o) \/ LeaveToAncestor(o)
    BY <2>1 DEF Keep, LeaveToAncestor, vars
  <2>2. CASE Reclaim(o)
    BY <2>2 DEF Reclaim, Destroy, TrashInv, Marked
  <2> QED BY <2>1, <2>2
<1> QED BY <1>1, TrashInductive, PTL DEF TrashSpec, OnlyThrownDie

\* When clear() returns, every thrown node has been deleted with its subtree, except,
\* if a node is in use, that node and the thrown nodes above it, which stay thrown.
THEOREM ClearIsExact == TrashSpec => ClearExact
<1>1. ASSUME TrashInv, EndClear
      PROVE  /\ where = NULL => doomed \cap live = {} /\ holder' = {}
             /\ \A o \in holder' : IsSubNode(where, o)
  <2>1. holder = {} /\ clearing /\ holder' = tmpTrash
    BY <1>1 DEF EndClear
  <2>2. \A o \in tmpTrash : IsSubNode(where, o)
    BY <1>1 DEF TrashInv, KeptUp
  <2>3. where = NULL => doomed \cap live = {} /\ tmpTrash = {}
    BY <1>1, <2>1, <2>2 DEF TrashInv, Covered, IsSubNode
  <2> QED BY <2>1, <2>2, <2>3
<1>2. TrashInv /\ EndClear =>
          /\ where = NULL => doomed \cap live = {} /\ holder' = {}
          /\ \A o \in holder' : IsSubNode(where, o)
  BY <1>1
<1> QED BY <1>2, TrashInductive, PTL DEF TrashSpec, ClearExact
=============================================================================
