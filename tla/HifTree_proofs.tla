--------------------------- MODULE HifTree_proofs ---------------------------
(***************************************************************************)
(* The two-sided ownership of HifTree is an invariant for any numbers of   *)
(* nodes, fields and lists: TypeOK /\ TreeInv is inductive.  The only      *)
(* argument that is not local to the pointers an operation writes is that  *)
(* of Destroy: a subtree that is deleted is referred to from outside at    *)
(* its roots only, because every node has one owner.                       *)
(***************************************************************************)
EXTENDS HifTree, TLAPS

USE TreeAssumption

LEMMA InitInv == Init => TypeOK /\ TreeInv
BY DEF Init, TypeOK, TreeInv, OwnershipExact, NothingDangles

\* A node owns at most where its content says it is: two owners of one node are one.
LEMMA OneOwner ==
    ASSUME TypeOK, TreeInv, NEW p \in Obj, NEW q \in Obj, NEW c \in Obj,
           OwnsIn(p, c), OwnsIn(q, c)
    PROVE  p = q
BY DEF OwnsIn, TypeOK, TreeInv, OwnershipExact

\* What a subtree contains: its root, and whatever one of its nodes owns.
LEMMA SubtreeClosed ==
    ASSUME NEW o \in Obj
    PROVE  /\ o \in Subtree(o) /\ Subtree(o) \in SUBSET Obj
           /\ \A p \in Subtree(o), c \in Obj : OwnsIn(p, c) => c \in Subtree(o)
BY DEF Subtree, ClosedDown

\* A node of a subtree that is not the root has its owner in the subtree.
LEMMA OwnerInside ==
    ASSUME TypeOK, TreeInv, NEW o \in Obj, NEW c \in Subtree(o), c # o,
           NEW p \in Obj, OwnsIn(p, c)
    PROVE  p \in Subtree(o)
<1> SUFFICES ASSUME p \notin Subtree(o) PROVE FALSE
  OBVIOUS
<1> DEFINE S == Subtree(o) \ {c}
<1>1. S \in SUBSET Obj /\ o \in S
  BY SubtreeClosed
<1>2. ClosedDown(S)
  <2> SUFFICES ASSUME NEW q \in S, NEW d \in Obj, OwnsIn(q, d) PROVE d \in S
    BY DEF ClosedDown
  <2>1. d \in Subtree(o) /\ q \in Obj
    BY SubtreeClosed
  <2>2. d # c
    BY <2>1, OneOwner, SubtreeClosed
  <2> QED BY <2>1, <2>2
<1>3. c \in S
  BY <1>1, <1>2, SubtreeClosed DEF Subtree
<1> QED BY <1>3

\* An element of a free-standing list is below nothing but itself.
LEMMA FreeListIsTop ==
    ASSUME TypeOK, TreeInv, NEW o \in Obj, NEW x \in Subtree(o), x # o,
           inlist[x] # NULL, ListOwner[inlist[x]] = NULL
    PROVE  FALSE
<1> DEFINE S == Subtree(o) \ {x}
<1>1. \A p \in Obj : ~OwnsIn(p, x)
  BY SubtreeClosed DEF OwnsIn, TypeOK, TreeInv, OwnershipExact
<1>2. S \in SUBSET Obj /\ o \in S /\ ClosedDown(S)
  BY <1>1, SubtreeClosed DEF ClosedDown
<1>3. x \in S
  BY <1>2, SubtreeClosed DEF Subtree
<1> QED BY <1>3

\* Deleting a set of nodes that is closed downwards keeps the invariant, once nothing
\* outside the set holds one of them.
LEMMA DestroyStep ==
    ASSUME TypeOK, TreeInv, NEW D \in SUBSET Obj, ClosedDown(D),
           NEW slots \in [Slot -> Obj \cup {NULL}], NEW lists \in [List -> SUBSET Obj],
           Destroy(D, slots, lists),
           \A s \in Slot : slots[s] = child[s] \/ (slots[s] = NULL /\ child[s] \in D),
           \A L \in List : lists[L] \subseteq members[L] /\ members[L] \ D \subseteq lists[L],
           \A L \in List : ListOwner[L] \notin D => lists[L] \cap D = {},
           \A s \in Slot : slots[s] \in D => SlotOwner[s] \in D
    PROVE  TypeOK' /\ TreeInv'
<1> USE DEF TreeInv, Destroy
<1>1. TypeOK'
  BY DEF TypeOK
<1>2. /\ \A s \in Slot : SlotOwner[s] \in D /\ child[s] # NULL => child[s] \in D
      /\ \A L \in List : ListOwner[L] \in D => members[L] \subseteq D
  BY DEF ClosedDown, OwnsIn, TypeOK
<1>3. OwnershipExact'
  BY <1>2 DEF TypeOK, OwnershipExact
<1>4. NothingDangles'
  BY <1>2 DEF TypeOK, NothingDangles, OwnershipExact
<1> QED BY <1>1, <1>3, <1>4

\* delete o: the subtree of a detached node.
LEMMA DeleteStep ==
    ASSUME TypeOK, TreeInv, NEW o \in Obj, Delete(o)
    PROVE  TypeOK' /\ TreeInv'
<1> DEFINE D == Subtree(o)
<1>1. D \in SUBSET Obj /\ ClosedDown(D)
  BY SubtreeClosed DEF ClosedDown
<1>2. ASSUME NEW s \in Slot, child[s] \in D PROVE SlotOwner[s] \in D
  <2>1. child[s] # o
    BY <1>2 DEF Delete, Detached, TreeInv, OwnershipExact
  <2>2. OwnsIn(SlotOwner[s], child[s]) /\ SlotOwner[s] \in Obj
    BY DEF OwnsIn
  <2> QED BY <1>1, <1>2, <2>1, <2>2, OwnerInside
<1>3. ASSUME NEW L \in List, NEW x \in members[L], x \in D PROVE ListOwner[L] \in D
  <2>1. x # o /\ inlist[x] = L
    BY <1>3 DEF Delete, Detached, TreeInv, OwnershipExact
  <2>2. CASE ListOwner[L] = NULL
    BY <1>3, <2>1, <2>2, FreeListIsTop
  <2>3. CASE ListOwner[L] # NULL
    <3>1. OwnsIn(ListOwner[L], x) /\ ListOwner[L] \in Obj
      BY <1>3, <2>3 DEF OwnsIn
    <3> QED BY <1>1, <1>3, <2>1, <3>1, OwnerInside
  <2> QED BY <2>2, <2>3
<1>4. /\ child \in [Slot -> Obj \cup {NULL}] /\ members \in [List -> SUBSET Obj]
      /\ Destroy(D, child, members)
  BY DEF TypeOK, Delete
<1> HIDE DEF D
<1> QED BY <1>1, <1>2, <1>3, <1>4, DestroyStep

\* erase, clear, remove_dopplegangers: the subtrees of elements of one list.
LEMMA EraseStep ==
    ASSUME TypeOK, TreeInv, NEW L \in List, NEW E \in SUBSET members[L], Erase(L, E)
    PROVE  TypeOK' /\ TreeInv'
<1> DEFINE D == UNION {Subtree(e) : e \in E}
           rest == [members EXCEPT ![L] = members[L] \ E]
<1>0. E \in SUBSET Obj /\ \A e \in E : inlist[e] = L
  BY DEF TypeOK, TreeInv, OwnershipExact
<1>1. D \in SUBSET Obj /\ ClosedDown(D) /\ E \subseteq D
  BY <1>0, SubtreeClosed DEF ClosedDown
<1>2. ASSUME NEW s \in Slot, child[s] \in D PROVE SlotOwner[s] \in D
  <2>1. PICK e \in E : child[s] \in Subtree(e)
    BY <1>2
  <2>2. child[s] # e
    BY <1>0, TreeAssumption DEF TreeInv, OwnershipExact, TypeOK
  <2>3. OwnsIn(SlotOwner[s], child[s]) /\ SlotOwner[s] \in Obj
    BY DEF OwnsIn
  <2> QED BY <1>0, <2>1, <2>2, <2>3, OwnerInside
<1>3. ASSUME NEW M \in List, NEW x \in members[M], x \in D, x \notin E PROVE ListOwner[M] \in D
  <2>1. PICK e \in E : x \in Subtree(e)
    BY <1>3
  <2>2. x # e /\ inlist[x] = M
    BY <1>3 DEF TreeInv, OwnershipExact
  <2>3. CASE ListOwner[M] = NULL
    BY <1>0, <1>3, <2>1, <2>2, <2>3, FreeListIsTop
  <2>4. CASE ListOwner[M] # NULL
    <3>1. OwnsIn(ListOwner[M], x) /\ ListOwner[M] \in Obj
      BY <1>3, <2>4 DEF OwnsIn
    <3> QED BY <1>0, <2>1, <2>2, <3>1, OwnerInside
  <2> QED BY <2>3, <2>4
<1>4. /\ child \in [Slot -> Obj \cup {NULL}] /\ rest \in [List -> SUBSET Obj]
      /\ Destroy(D, child, rest)
  BY DEF TypeOK, Erase
<1>5. /\ \A M \in List : rest[M] \subseteq members[M] /\ members[M] \ D \subseteq rest[M]
      /\ \A M \in List : ListOwner[M] \notin D => rest[M] \cap D = {}
  BY <1>0, <1>1, <1>3 DEF TypeOK, TreeInv, OwnershipExact
<1> HIDE DEF D, rest
<1> QED BY <1>1, <1>2, <1>4, <1>5, DestroyStep

\* setX(): the new child comes from anywhere, the old one is released.
LEMMA SetChildStep ==
    ASSUME TypeOK, TreeInv, NEW s \in Slot, NEW o \in Obj \cup {NULL}, SetChild(s, o)
    PROVE  TypeOK' /\ TreeInv'
<1> USE DEF TreeInv, SetChild, Written, OpenSlots, SlotsOf
<1>1. TypeOK'
  BY DEF TypeOK
<1>2. child[s] # NULL => GetParent(child[s]) = SlotOwner[s]
  BY DEF TypeOK, OwnershipExact, GetParent
<1>3. OwnershipExact'
  <2>1. ASSUME NEW t \in Slot, child'[t] # NULL
        PROVE  /\ field'[child'[t]] = t /\ parent'[child'[t]] = SlotOwner[t]
               /\ inlist'[child'[t]] = NULL
    BY <1>2, <2>1 DEF TypeOK, OwnershipExact
  <2>2. ASSUME NEW L \in List, NEW x \in members'[L] PROVE inlist'[x] = L
    BY <2>2 DEF TypeOK, OwnershipExact
  <2>3. ASSUME NEW x \in Obj
        PROVE  /\ field'[x] # NULL => child'[field'[x]] = x
               /\ inlist'[x] # NULL => x \in members'[inlist'[x]] /\ parent'[x] = NULL
               /\ field'[x] = NULL => parent'[x] = NULL
    BY <1>2, <2>3 DEF TypeOK, OwnershipExact
  <2> QED BY <2>1, <2>2, <2>3 DEF OwnershipExact
<1>4. NothingDangles'
  BY <1>2 DEF TypeOK, OwnershipExact, NothingDangles
<1> QED BY <1>1, <1>3, <1>4

\* replace() and iterator assignment in a list.
LEMMA ReplaceInListStep ==
    ASSUME TypeOK, TreeInv, NEW o \in live, NEW n \in live \cup {NULL},
           n # NULL => inlist[n] = NULL \/ n = o, ReplaceInList(o, n)
    PROVE  TypeOK' /\ TreeInv'
<1> USE DEF TreeInv, ReplaceInList
<1>1. TypeOK'
  BY DEF TypeOK
<1>2. OwnershipExact'
  <2>1. ASSUME NEW t \in Slot, child'[t] # NULL
        PROVE  /\ field'[child'[t]] = t /\ parent'[child'[t]] = SlotOwner[t]
               /\ inlist'[child'[t]] = NULL
    BY <2>1 DEF TypeOK, OwnershipExact
  <2>2. ASSUME NEW L \in List, NEW x \in members'[L] PROVE inlist'[x] = L
    BY <2>2 DEF TypeOK, OwnershipExact
  <2>3. ASSUME NEW x \in Obj
        PROVE  /\ field'[x] # NULL => child'[field'[x]] = x
               /\ inlist'[x] # NULL => x \in members'[inlist'[x]] /\ parent'[x] = NULL
               /\ field'[x] = NULL => parent'[x] = NULL
    BY <2>3 DEF TypeOK, OwnershipExact
  <2> QED BY <2>1, <2>2, <2>3 DEF OwnershipExact
<1>3. NothingDangles'
  BY DEF TypeOK, OwnershipExact, NothingDangles
<1> QED BY <1>1, <1>2, <1>3

\* replace() in a field.
LEMMA ReplaceInFieldStep ==
    ASSUME TypeOK, TreeInv, NEW o \in live, NEW n \in live \cup {NULL},
           n # NULL => inlist[n] = NULL, GetParent(o) # NULL, ReplaceInField(o, n)
    PROVE  TypeOK' /\ TreeInv'
<1> USE DEF TreeInv, ReplaceInField, Written
<1>0. GetParent(o) = SlotOwner[field[o]] /\ child[field[o]] = o /\ field[o] \in Slot
  BY DEF TypeOK, OwnershipExact, GetParent
<1>1. TypeOK'
  BY <1>0 DEF TypeOK
<1>2. OwnershipExact'
  <2>1. ASSUME NEW t \in Slot, child'[t] # NULL
        PROVE  /\ field'[child'[t]] = t /\ parent'[child'[t]] = SlotOwner[t]
               /\ inlist'[child'[t]] = NULL
    BY <1>0, <2>1 DEF TypeOK, OwnershipExact
  <2>2. ASSUME NEW L \in List, NEW x \in members'[L] PROVE inlist'[x] = L
    BY <2>2 DEF TypeOK, OwnershipExact
  <2>3. ASSUME NEW x \in Obj
        PROVE  /\ field'[x] # NULL => child'[field'[x]] = x
               /\ inlist'[x] # NULL => x \in members'[inlist'[x]] /\ parent'[x] = NULL
               /\ field'[x] = NULL => parent'[x] = NULL
    BY <1>0, <2>3 DEF TypeOK, OwnershipExact
  <2> QED BY <2>1, <2>2, <2>3 DEF OwnershipExact
<1>3. NothingDangles'
  BY <1>0 DEF TypeOK, OwnershipExact, NothingDangles
<1> QED BY <1>1, <1>2, <1>3

\* The operations that move list elements without deleting any.
LEMMA ListStep ==
    ASSUME TypeOK, TreeInv,
           \/ \E o \in Obj, L \in List : ReplaceWithList(o, L) \/ Insert(L, o)
           \/ \E L \in List : \E E \in SUBSET members[L] : Release(L, E)
           \/ \E o, n \in Obj : SwapElements(o, n)
           \/ \E L, x \in List : Merge(L, x)
    PROVE  TypeOK' /\ TreeInv'
<1> USE DEF TreeInv, OpenLists
<1>1. ASSUME NEW o \in Obj, NEW L \in List, ReplaceWithList(o, L) PROVE TypeOK' /\ TreeInv'
  <2>1. CASE ReplaceWithListInTree(o, L)
    <3> USE <1>1, <2>1 DEF ReplaceWithList, ReplaceWithListInTree
    <3>1. TypeOK'
      BY DEF TypeOK
    <3>2. OwnershipExact'
      BY DEF TypeOK, OwnershipExact
    <3>3. NothingDangles'
      <4>1. \A M \in List : members'[M] \subseteq live
        BY DEF TypeOK, NothingDangles
      <4>2. ASSUME NEW M \in List, members'[M] # {} PROVE ListOwner[M] \in live \cup {NULL}
        BY <4>2 DEF TypeOK, OwnershipExact, NothingDangles
      <4>3. \A x \in Obj \ live : field'[x] = NULL /\ parent'[x] = NULL /\ inlist'[x] = NULL
        BY DEF TypeOK, NothingDangles
      <4> QED BY <4>1, <4>2, <4>3 DEF NothingDangles
    <3> QED BY <3>1, <3>2, <3>3
  <2>2. CASE ReplaceWithListOrphan(o, L)
    BY <2>2 DEF ReplaceWithListOrphan, TypeOK, OwnershipExact, NothingDangles
  <2> QED BY <1>1, <2>1, <2>2 DEF ReplaceWithList
<1>2. ASSUME NEW o \in Obj, NEW L \in List, Insert(L, o) PROVE TypeOK' /\ TreeInv'
  BY <1>2 DEF Insert, Detached, TypeOK, OwnershipExact, NothingDangles
<1>3. ASSUME NEW L \in List, NEW E \in SUBSET members[L], Release(L, E) PROVE TypeOK' /\ TreeInv'
  BY <1>3 DEF Release, TypeOK, OwnershipExact, NothingDangles
<1>4. ASSUME NEW o \in Obj, NEW n \in Obj, SwapElements(o, n) PROVE TypeOK' /\ TreeInv'
  <2> USE <1>4 DEF SwapElements
  <2>1. TypeOK'
    BY DEF TypeOK
  <2>2. OwnershipExact'
    BY DEF TypeOK, OwnershipExact
  <2>3. NothingDangles'
    BY DEF TypeOK, OwnershipExact, NothingDangles
  <2> QED BY <2>1, <2>2, <2>3
<1>5. ASSUME NEW L \in List, NEW x \in List, Merge(L, x) PROVE TypeOK' /\ TreeInv'
  BY <1>5 DEF Merge, TypeOK, OwnershipExact, NothingDangles
<1> QED BY <1>1, <1>2, <1>3, <1>4, <1>5

\* TypeOK /\ TreeInv is preserved by every step.
LEMMA NextInv == TypeOK /\ TreeInv /\ [Next]_vars => TypeOK' /\ TreeInv'
<1> SUFFICES ASSUME TypeOK, TreeInv, [Next]_vars PROVE TypeOK' /\ TreeInv'
  OBVIOUS
<1>1. ASSUME NEW o \in Obj, New(o) PROVE TypeOK' /\ TreeInv'
  BY <1>1 DEF New, TypeOK, TreeInv, OwnershipExact, NothingDangles
<1>2. ASSUME NEW o \in Obj, NEW n \in Obj \cup {NULL}, Replace(o, n) PROVE TypeOK' /\ TreeInv'
  <2>1. /\ o \in live /\ n \in live \cup {NULL}
        /\ n # NULL => inlist[n] = NULL \/ n = o
        /\ GetParent(o) # NULL /\ (ReplaceInField(o, n) \/ ReplaceInList(o, n))
    BY <1>2 DEF Replace, ReplaceCall, Listless
  <2>2. CASE ReplaceInField(o, n)
    BY <2>1, <2>2, ReplaceInFieldStep DEF ReplaceInField
  <2>3. CASE ReplaceInList(o, n)
    BY <2>1, <2>3, ReplaceInListStep
  <2> QED BY <2>1, <2>2, <2>3
<1>3. ASSUME NEW o \in Obj, NEW n \in Obj, AssignIter(o, n) PROVE TypeOK' /\ TreeInv'
  BY <1>3, ReplaceInListStep DEF AssignIter, Detached
<1>4. CASE UNCHANGED vars
  BY <1>4 DEF vars, TypeOK, TreeInv, OwnershipExact, NothingDangles
<1> QED BY <1>1, <1>2, <1>3, <1>4, DeleteStep, EraseStep, SetChildStep, ListStep DEF Next

-----------------------------------------------------------------------------
\* The forest.  GetParent and OwnsIn are the same edges, so walking up and walking
\* down see the same thing, and no operation closes a cycle.

\* x owns c exactly when x is what getParent() of c returns.
LEMMA EdgesAgree ==
    ASSUME TypeOK, TreeInv, NEW p \in Obj, NEW c \in Obj
    PROVE  OwnsIn(p, c) <=> GetParent(c) = p
BY DEF TypeOK, TreeInv, OwnershipExact, OwnsIn, GetParent

LEMMA ParentType == ASSUME TypeOK, NEW c \in Obj PROVE GetParent(c) \in Obj \cup {NULL}
BY DEF TypeOK, GetParent

\* A node is among its ancestors, and with a node its parent.
LEMMA AncestorsClosed ==
    ASSUME TypeOK, NEW o \in Obj
    PROVE  /\ o \in Ancestors(o) /\ Ancestors(o) \in SUBSET Obj /\ ClosedUp(Ancestors(o))
BY ParentType DEF Ancestors, ClosedUp

\* A set that is closed upwards and holds o holds the ancestors of o.
LEMMA AncestorsLeast ==
    ASSUME NEW o \in Obj, NEW S \in SUBSET Obj, o \in S, ClosedUp(S)
    PROVE  Ancestors(o) \subseteq S
BY DEF Ancestors

LEMMA AncestorsTransitive ==
    ASSUME TypeOK, NEW o \in Obj, NEW p \in Ancestors(o)
    PROVE  Ancestors(p) \subseteq Ancestors(o)
BY AncestorsClosed, AncestorsLeast

LEMMA AncestorsOfParent ==
    ASSUME TypeOK, NEW o \in Obj, GetParent(o) # NULL
    PROVE  GetParent(o) \in Ancestors(o) /\ Ancestors(GetParent(o)) \subseteq Ancestors(o)
BY AncestorsClosed, AncestorsTransitive DEF ClosedUp

LEMMA UpIsDown ==
    ASSUME TypeOK, TreeInv, NEW x \in Obj, NEW p \in Obj
    PROVE  p \in Ancestors(x) <=> x \in Subtree(p)
<1>1. ASSUME p \in Ancestors(x) PROVE x \in Subtree(p)
  <2> DEFINE S == {y \in Obj : x \in Subtree(y)}
  <2>1. x \in S
    BY SubtreeClosed
  <2>2. ASSUME NEW y \in S, GetParent(y) # NULL PROVE GetParent(y) \in S
    <3>1. GetParent(y) \in Obj /\ y \in Obj /\ OwnsIn(GetParent(y), y)
      BY <2>2, ParentType, EdgesAgree
    <3>2. y \in Subtree(GetParent(y))
      BY <3>1, SubtreeClosed
    <3>3. Subtree(y) \subseteq Subtree(GetParent(y))
      BY <3>1, <3>2, SubtreeClosed DEF Subtree, ClosedDown
    <3> QED BY <2>2, <3>1, <3>3
  <2> QED BY <1>1, <2>1, <2>2, AncestorsLeast DEF ClosedUp
<1>2. ASSUME x \in Subtree(p) PROVE p \in Ancestors(x)
  <2> DEFINE S == {y \in Obj : p \in Ancestors(y)}
  <2>1. p \in S
    BY AncestorsClosed
  <2>2. ASSUME NEW y \in S, NEW c \in Obj, OwnsIn(y, c) PROVE c \in S
    <3>1. GetParent(c) = y /\ y # NULL
      BY <2>2, EdgesAgree
    <3> QED BY <2>2, <3>1, AncestorsOfParent
  <2> QED BY <1>2, <2>1, <2>2 DEF Subtree, ClosedDown
<1> QED BY <1>1, <1>2

\* The nodes M get new parents and the others keep theirs or lose it.  If no moved
\* node is an ancestor of a new parent, no cycle is closed.
LEMMA MoveKeepsForest ==
    ASSUME TypeOK, TypeOK', ClimbEnds, NEW M \in SUBSET Obj,
           \A x \in Obj : x \notin live => GetParent(x) = NULL,
           \A x \in Obj \ M : GetParent(x)' = GetParent(x) \/ GetParent(x)' = NULL,
           \A m, k \in M : GetParent(k)' # NULL => m \notin Ancestors(GetParent(k)')
    PROVE  ClimbEnds'
<1> DEFINE up(x) == GetParent(x)'
<1>0. \A x \in Obj : up(x) \in Obj \cup {NULL} /\ GetParent(x) \in Obj \cup {NULL}
  BY DEF TypeOK, GetParent
<1>1. SUFFICES ASSUME NEW x \in Obj, up(x) # NULL
               PROVE  \E S \in SUBSET Obj : /\ up(x) \in S /\ x \notin S
                                           /\ \A y \in S : up(y) # NULL => up(y) \in S
  <2>1. ASSUME NEW x \in Obj, up(x) # NULL,
               NEW S \in SUBSET Obj, up(x) \in S, x \notin S, \A y \in S : up(y) # NULL => up(y) \in S
        PROVE  x \notin Ancestors(GetParent(x))'
    BY <2>1 DEF Ancestors, ClosedUp
  <2> QED BY <2>1 DEF ClimbEnds, TypeOK
<1>2. CASE x \in M
  <2> DEFINE S == Ancestors(up(x))
  <2>1. up(x) \in S /\ S \in SUBSET Obj /\ ClosedUp(S) /\ \A m \in M : m \notin S
    BY <1>0, <1>1, <1>2, AncestorsClosed
  <2>2. \A y \in S : up(y) # NULL => up(y) \in S
    BY <2>1 DEF ClosedUp
  <2> QED BY <1>2, <2>1, <2>2
<1>3. CASE x \notin M
  <2> DEFINE A == Ancestors(GetParent(x))
             N == {m \in M \cap A : up(m) # NULL}
             S == A \cup UNION {Ancestors(up(m)) : m \in N}
  <2>1. /\ GetParent(x) = up(x) /\ GetParent(x) \in A /\ A \in SUBSET Obj /\ ClosedUp(A)
        /\ x \notin A /\ A \subseteq Ancestors(x)
    BY <1>0, <1>1, <1>3, AncestorsClosed, AncestorsOfParent DEF ClimbEnds
  <2>2. \A m \in N : /\ up(m) \in Ancestors(up(m)) /\ Ancestors(up(m)) \in SUBSET Obj
                     /\ ClosedUp(Ancestors(up(m))) /\ \A k \in M : k \notin Ancestors(up(m))
    BY <1>0, AncestorsClosed
  <2>3. x \notin S
    <3>1. ASSUME NEW m \in N, x \in Ancestors(up(m)) PROVE FALSE
      <4>1. up(m) \in Obj
        BY <1>0, <3>1
      <4>2. Ancestors(x) \subseteq Ancestors(up(m))
        BY <3>1, <4>1, AncestorsTransitive
      <4> QED BY <2>1, <2>2, <4>2
    <3> QED BY <2>1, <3>1
  <2>4. ASSUME NEW y \in S, up(y) # NULL PROVE up(y) \in S
    <3>1. CASE y \in A /\ y \in M
      BY <2>2, <2>4, <3>1
    <3>2. CASE y \in A /\ y \notin M
      BY <2>1, <2>4, <3>2 DEF ClosedUp
    <3>3. CASE y \notin A
      <4>1. PICK m \in N : y \in Ancestors(up(m))
        BY <3>3
      <4>2. y \in Obj /\ y \notin M /\ up(y) = GetParent(y)
        BY <2>2, <2>4, <4>1
      <4> QED BY <2>2, <2>4, <4>1, <4>2 DEF ClosedUp
    <3> QED BY <3>1, <3>2, <3>3
  <2>5. S \in SUBSET Obj /\ up(x) \in S
    BY <2>1, <2>2
  <2> QED BY <2>3, <2>4, <2>5
<1> QED BY <1>2, <1>3

\* Each step is such a move.
LEMMA ClimbStep ==
    ASSUME TypeOK, TreeInv, ClimbEnds, TypeOK', [Next]_vars
    PROVE  ClimbEnds'
<1> DEFINE Kept(M) == \A x \in Obj \ M : GetParent(x)' = GetParent(x) \/ GetParent(x)' = NULL
           Free(M) == \A m, k \in M : GetParent(k)' # NULL => m \notin Ancestors(GetParent(k)')
<1>0. \A x \in Obj : x \notin live => GetParent(x) = NULL
  BY DEF TreeInv, NothingDangles, GetParent
<1>1. ASSUME NEW M \in SUBSET Obj, Kept(M), Free(M) PROVE ClimbEnds'
  BY <1>0, <1>1, MoveKeepsForest
<1>2. ASSUME Kept({}) PROVE ClimbEnds'
  <2>1. Free({}) /\ {} \in SUBSET Obj
    OBVIOUS
  <2> QED BY <1>1, <1>2, <2>1
<1>3. ASSUME NEW o \in Obj, Kept({o}), NEW p \in Obj \cup {NULL}, GetParent(o)' = p,
             p = NULL \/ ~IsSubNode(p, o)
      PROVE  ClimbEnds'
  <2> DEFINE M == {o}
  <2>1. M \in SUBSET Obj /\ Kept(M) /\ Free(M)
    BY <1>3 DEF IsSubNode
  <2> HIDE DEF M
  <2> QED BY <1>1, <2>1
<1>4. ASSUME NEW o \in Obj, New(o) \/ Delete(o) PROVE ClimbEnds'
  BY <1>2, <1>4 DEF New, Delete, Destroy, GetParent, TypeOK
<1>5. ASSUME NEW s \in Slot, NEW o \in Obj \cup {NULL}, SetChild(s, o) PROVE ClimbEnds'
  <2>1. CASE o = NULL
    <3>1. Kept({})
      BY <1>5, <2>1 DEF SetChild, GetParent, TypeOK
    <3> QED BY <1>2, <3>1
  <2>2. CASE o # NULL
    <3>1. Kept({o}) /\ GetParent(o)' = SlotOwner[s] /\ SlotOwner[s] \in Obj
      BY <1>5, <2>2 DEF SetChild, GetParent, TypeOK
    <3>2. SlotOwner[s] = NULL \/ ~IsSubNode(SlotOwner[s], o)
      BY <1>5, <2>2 DEF SetChild, MayEnter
    <3> QED BY <1>3, <2>2, <3>1, <3>2
  <2> QED BY <2>1, <2>2
<1>6. ASSUME NEW o \in Obj, NEW n \in Obj \cup {NULL},
             o \in live, ReplaceInField(o, n) \/ ReplaceInList(o, n),
             n # NULL => inlist[n] = NULL \/ n = o,
             n # NULL => n = o \/ ~IsSubNode(o, n)
      PROVE  ClimbEnds'
  <2>1. CASE n = NULL \/ n = o
    <3>1. Kept({})
      BY <1>6, <2>1 DEF ReplaceInField, ReplaceInList, GetParent, TypeOK
    <3> QED BY <1>2, <3>1
  <2>2. CASE n # NULL /\ n # o
    <3>1. Kept({n}) /\ (GetParent(n)' = GetParent(o) \/ GetParent(n)' = NULL)
      BY <1>6, <2>2 DEF ReplaceInField, ReplaceInList, GetParent, TypeOK
    <3>2. GetParent(o) # NULL => ~IsSubNode(GetParent(o), n)
      BY <1>6, <2>2, AncestorsOfParent DEF IsSubNode
    <3>3. GetParent(o) \in Obj \cup {NULL}
      BY ParentType
    <3> QED BY <1>3, <2>2, <3>1, <3>2, <3>3
  <2> QED BY <2>1, <2>2
<1>7. ASSUME NEW o \in Obj, NEW n \in Obj \cup {NULL}, Replace(o, n) PROVE ClimbEnds'
  BY <1>6, <1>7 DEF Replace, ReplaceCall, Listless
<1>8. ASSUME NEW o \in Obj, NEW n \in Obj, AssignIter(o, n) PROVE ClimbEnds'
  BY <1>6, <1>8 DEF AssignIter, Detached
<1>9. ASSUME NEW o \in Obj, NEW L \in List, ReplaceWithList(o, L) PROVE ClimbEnds'
  <2>1. CASE ReplaceWithListInTree(o, L)
    <3> DEFINE M == members[L]
    <3>1. Kept(M) /\ M \in SUBSET Obj
      BY <1>9, <2>1 DEF ReplaceWithList, ReplaceWithListInTree, GetParent, TypeOK
    <3>2. \A k \in M : GetParent(k)' = GetParent(o)
      BY <1>9, <2>1, <3>1 DEF ReplaceWithList, ReplaceWithListInTree, GetParent, TypeOK
    <3>3. \A m \in M : m \notin Ancestors(GetParent(o))
      BY <1>9, <2>1, <3>1, AncestorsOfParent DEF ReplaceWithList, ReplaceWithListInTree, IsSubNode
    <3>4. Free(M)
      BY <3>2, <3>3
    <3> QED BY <1>1, <3>1, <3>4
  <2>2. CASE ReplaceWithListOrphan(o, L)
    <3>1. Kept({})
      BY <2>2 DEF ReplaceWithListOrphan, GetParent, TypeOK, TreeInv, OwnershipExact
    <3> QED BY <1>2, <3>1
  <2> QED BY <1>9, <2>1, <2>2 DEF ReplaceWithList
<1>10. ASSUME NEW o \in Obj, NEW L \in List, Insert(L, o) PROVE ClimbEnds'
  <2>1. Kept({o}) /\ GetParent(o)' = ListOwner[L] /\ ListOwner[L] \in Obj \cup {NULL}
    BY <1>10 DEF Insert, GetParent, TypeOK
  <2> QED BY <1>3, <1>10, <2>1 DEF Insert, MayEnter
<1>11. ASSUME NEW L \in List, NEW E \in SUBSET members[L], Release(L, E) \/ Erase(L, E) PROVE ClimbEnds'
  <2>1. Kept({})
    BY <1>11 DEF Release, Erase, Destroy, GetParent, TypeOK
  <2> QED BY <1>2, <2>1
<1>12. ASSUME NEW o \in Obj, NEW n \in Obj, SwapElements(o, n) PROVE ClimbEnds'
  <2>1. Kept({o, n})
    BY <1>12 DEF SwapElements, GetParent, TypeOK
  <2>2. GetParent(o)' = GetParent(n) /\ GetParent(n)' = GetParent(o)
    BY <1>12 DEF SwapElements, GetParent, TypeOK
  <2>3. \A q \in {o, n} : GetParent(q) # NULL =>
            o \notin Ancestors(GetParent(q)) /\ n \notin Ancestors(GetParent(q))
    BY <1>12, AncestorsOfParent DEF SwapElements, IsSubNode, ClimbEnds
  <2> DEFINE M == {o, n}
  <2>4. M \in SUBSET Obj /\ Kept(M) /\ Free(M)
    BY <2>1, <2>2, <2>3
  <2> HIDE DEF M
  <2> QED BY <1>1, <2>4
<1>13. ASSUME NEW L \in List, NEW x \in List, Merge(L, x) PROVE ClimbEnds'
  <2> DEFINE M == members[x]
  <2>1. Kept(M) /\ M \in SUBSET Obj
    BY <1>13 DEF Merge, GetParent, TypeOK
  <2>2. \A k \in M : GetParent(k)' = ListOwner[L]
    BY <1>13, <2>1 DEF Merge, GetParent, TypeOK
  <2>3. ListOwner[L] # NULL => \A m \in M : m \notin Ancestors(ListOwner[L])
    BY <1>13, <2>1 DEF Merge, MayEnter, IsSubNode
  <2>4. Free(M)
    BY <2>2, <2>3
  <2> QED BY <1>1, <2>1, <2>4
<1>14. CASE UNCHANGED vars
  <2>1. Kept({})
    BY <1>14 DEF vars, GetParent
  <2> QED BY <1>2, <2>1
<1> QED BY <1>4, <1>5, <1>7, <1>8, <1>9, <1>10, <1>11, <1>12, <1>13, <1>14 DEF Next

-----------------------------------------------------------------------------
LEMMA Inductive == Spec => [](TypeOK /\ TreeInv /\ ClimbEnds)
<1>1. Init => ClimbEnds
  BY DEF Init, ClimbEnds
<1>2. TypeOK /\ TreeInv /\ ClimbEnds /\ [Next]_vars => (TypeOK /\ TreeInv /\ ClimbEnds)'
  BY NextInv, ClimbStep
<1> QED BY <1>1, <1>2, InitInv, PTL DEF Spec

\* Every pointer of the tree keeps its declared type.
THEOREM TypeCorrect == Spec => []TypeOK
BY Inductive, PTL

\* Ownership is exact and no pointer dangles after every sequence of operations.
THEOREM TreeKept == Spec => []TreeInv
BY Inductive, PTL

\* The two sides of ownership agree after every operation: no node has two owners,
\* no _parent, _field or _parentlink is stale.
THEOREM OwnershipKept == Spec => []OwnershipExact
<1>1. TreeInv => OwnershipExact
  BY DEF TreeInv
<1> QED BY <1>1, Inductive, PTL

\* Nothing that is allocated refers to a deleted node.
THEOREM NoDanglingPointer == Spec => []NothingDangles
<1>1. TreeInv => NothingDangles
  BY DEF TreeInv
<1> QED BY <1>1, Inductive, PTL

\* A climb along getParent() ends, in every state the operations can reach.
THEOREM ClimbsEnd == Spec => []ClimbEnds
BY Inductive, PTL

\* isSubNode(x, p), which climbs from x, is true exactly when x is in the subtree
\* that a visitor or a destructor started at p reaches.
THEOREM SubNodeMeansSubtree == Spec => []UpAgreesWithDown
<1>1. TypeOK /\ TreeInv => UpAgreesWithDown
  BY UpIsDown, TreeAssumption DEF UpAgreesWithDown, IsSubNode, TypeOK
<1> QED BY <1>1, Inductive, PTL

\* No sequence of operations makes a node own one of its owners.
THEOREM ForestKept == Spec => []Acyclic
<1>1. ASSUME TypeOK, TreeInv, ClimbEnds PROVE Acyclic
  <2> SUFFICES ASSUME NEW p \in Obj, NEW c \in Obj, OwnsIn(p, c), p \in Subtree(c) PROVE FALSE
    BY DEF Acyclic
  <2>1. GetParent(c) = p /\ c \in live
    BY <1>1, TreeAssumption DEF OwnsIn, GetParent, TypeOK, TreeInv, OwnershipExact, NothingDangles
  <2>2. c \in Ancestors(p)
    BY <1>1, UpIsDown
  <2> QED BY <1>1, <2>1, <2>2, TreeAssumption DEF ClimbEnds
<1> QED BY <1>1, Inductive, PTL

-----------------------------------------------------------------------------
\* The refinement.  Each operation makes the move of HifForest that its caller sees.

\* Two sets of placed nodes are one when they place the same nodes.
LEMMA SamePlaces ==
    ASSUME NEW A \in SUBSET (Obj \X (Slot \cup List)), NEW B \in SUBSET (Obj \X (Slot \cup List)),
           \A n \in Obj, p \in Slot \cup List : <<n, p>> \in A <=> <<n, p>> \in B
    PROVE  A = B
OBVIOUS

LEMMA ContentIs ==
    /\ Content \in SUBSET (Obj \X (Slot \cup List))
    /\ \A n \in Obj, p \in Slot \cup List : <<n, p>> \in Content <=> Holds(p, n)
BY DEF Content

\* What the forest says is below a node is what a walk down from it meets.
LEMMA BelowIsSubtree ==
    ASSUME TypeOK, NEW n \in Obj
    PROVE  Forest!Below(n) = Subtree(n)
<1>1. ASSUME NEW S \in SUBSET Obj, ClosedDown(S), NEW x \in Content, Owner[x[2]] \in S
      PROVE  x[1] \in S
  <2>1. x[1] \in Obj /\ x[2] \in Slot \cup List /\ Holds(x[2], x[1])
    BY DEF Content
  <2>2. Owner[x[2]] = IF x[2] \in Slot THEN SlotOwner[x[2]] ELSE ListOwner[x[2]]
    BY <2>1 DEF Owner
  <2>3. OwnsIn(Owner[x[2]], x[1])
    BY <2>1, <2>2 DEF OwnsIn, Holds
  <2> QED BY <1>1, <2>1, <2>3 DEF ClosedDown
<1>2. ASSUME NEW S \in SUBSET Obj, \A x \in Content : Owner[x[2]] \in S => x[1] \in S,
             NEW p \in S, NEW c \in Obj, OwnsIn(p, c)
      PROVE  c \in S
  <2>1. PICK q \in Slot \cup List : Holds(q, c) /\ Owner[q] = p
    BY <1>2 DEF OwnsIn, Holds, Owner
  <2>2. <<c, q>> \in Content
    BY <2>1, ContentIs
  <2> QED BY <1>2, <2>1, <2>2
<1>3. \A S \in SUBSET Obj : ClosedDown(S) <=> (\A x \in Content : Owner[x[2]] \in S => x[1] \in S)
  BY <1>1, <1>2 DEF ClosedDown
<1> QED BY <1>3 DEF Forest!Below, Subtree

\* A node that is not met on the way up from a place's node may go there.
LEMMA NoCycleMade ==
    ASSUME TypeOK, TreeInv, NEW e \in Obj, NEW w, w = NULL \/ (w \in Obj /\ ~IsSubNode(w, e))
    PROVE  w \notin Forest!Below(e)
<1>1. CASE w = NULL
  BY <1>1, BelowIsSubtree, SubtreeClosed
<1>2. CASE w \in Obj /\ ~IsSubNode(w, e)
  BY <1>2, BelowIsSubtree, UpIsDown DEF IsSubNode
<1> QED BY <1>1, <1>2

LEMMA ContentAfter ==
    /\ Content' \in SUBSET (Obj \X (Slot \cup List))
    /\ \A n \in Obj, p \in Slot \cup List : <<n, p>> \in Content' <=> Holds(p, n)'
BY DEF Content, Holds

LEMMA ContentBecomes ==
    ASSUME NEW B \in SUBSET (Obj \X (Slot \cup List)),
           \A n \in Obj, p \in Slot \cup List : <<n, p>> \in B <=> Holds(p, n)'
    PROVE  Content' = B
<1> DEFINE A == Content'
<1>1. /\ A \in SUBSET (Obj \X (Slot \cup List))
      /\ \A n \in Obj, p \in Slot \cup List : <<n, p>> \in A <=> <<n, p>> \in B
  BY ContentAfter
<1> HIDE DEF A
<1>2. A = B
  BY <1>1, SamePlaces
<1> QED BY <1>2 DEF A

LEMMA LeavingIs ==
    ASSUME NEW N
    PROVE  /\ Forest!Leaving(N) \in SUBSET (Obj \X (Slot \cup List))
           /\ \A n \in Obj, p \in Slot \cup List :
                 <<n, p>> \in Forest!Leaving(N) <=> n \notin N /\ Holds(p, n)
BY ContentIs DEF Forest!Leaving

LEMMA OwnerIs ==
    /\ \A s \in Slot : Owner[s] = SlotOwner[s] /\ Owner[s] \in Obj
    /\ \A L \in List : Owner[L] = ListOwner[L] /\ Owner[L] \in Obj \cup {NULL}
BY DEF Owner

\* When a change of the contents is each of the moves.
LEMMA PutMove ==
    ASSUME TypeOK, TreeInv, NEW o \in live, NEW p \in Slot \cup List,
           Owner[p] \in live \cup {NULL}, MayEnter(o, Owner[p]), UNCHANGED live,
           \A n \in Obj, q \in Slot \cup List : Holds(q, n)' <=>
              (n = o /\ q = p) \/ (n # o /\ Holds(q, n) /\ (p \in Slot => q # p))
    PROVE  Forest!Next
<1>0. o \in Obj /\ live \in SUBSET Obj
  BY DEF TypeOK
<1>1. Content' = {x \in Forest!Leaving({o}) : p \in Slot => x[2] # p} \cup {<<o, p>>}
  <2> DEFINE V == Forest!Leaving({o})
             B == {x \in V : p \in Slot => x[2] # p} \cup {<<o, p>>}
  <2>0. /\ V \in SUBSET (Obj \X (Slot \cup List))
        /\ \A n \in Obj, q \in Slot \cup List : <<n, q>> \in V <=> n # o /\ Holds(q, n)
    BY LeavingIs
  <2> HIDE DEF V
  <2>1. B \in SUBSET (Obj \X (Slot \cup List))
    BY <1>0, <2>0
  <2>2. \A n \in Obj, q \in Slot \cup List : <<n, q>> \in B <=> Holds(q, n)'
    BY <1>0, <2>0
  <2> HIDE DEF B
  <2>3. Content' = B
    BY <2>1, <2>2, ContentBecomes
  <2> QED BY <2>3 DEF B, V
<1>2. Owner[p] \notin Forest!Below(o)
  BY <1>0, NoCycleMade DEF MayEnter
<1>3. Forest!Put(o, p)
  BY <1>1, <1>2 DEF Forest!Put, Forest!Open, Forest!NoCycle
<1> QED BY <1>0, <1>3 DEF Forest!Next, Forest!Place

LEMMA TakeMove ==
    ASSUME TypeOK, NEW N \in SUBSET live, N # {}, UNCHANGED live,
           \A n \in Obj, q \in Slot \cup List : Holds(q, n)' <=> n \notin N /\ Holds(q, n)
    PROVE  Forest!Next
<1>1. Content' = Forest!Leaving(N)
  BY LeavingIs, ContentBecomes
<1> QED BY <1>1 DEF Forest!Next, Forest!Take

LEMMA SubstituteMove ==
    ASSUME TypeOK, TreeInv, NEW o \in live, NEW n \in live, n # o,
           NEW p \in Slot \cup List, Holds(p, o), MayEnter(n, Owner[p]), UNCHANGED live,
           \A m \in Obj, q \in Slot \cup List : Holds(q, m)' <=>
              (m = n /\ q = p) \/ (m \notin {o, n} /\ Holds(q, m))
    PROVE  Forest!Next
<1>0. o \in Obj /\ n \in Obj
  BY DEF TypeOK
<1>1. Content' = Forest!Leaving({o, n}) \cup {<<n, p>>}
  <2> DEFINE B == Forest!Leaving({o, n}) \cup {<<n, p>>}
  <2>1. B \in SUBSET (Obj \X (Slot \cup List))
    BY <1>0, LeavingIs
  <2>2. \A m \in Obj, q \in Slot \cup List : <<m, q>> \in B <=> Holds(q, m)'
    BY <1>0, LeavingIs
  <2> HIDE DEF B
  <2>3. Content' = B
    BY <2>1, <2>2, ContentBecomes
  <2> QED BY <2>3 DEF B
<1>2. Owner[p] \notin Forest!Below(n)
  BY <1>0, NoCycleMade, OwnerIs DEF MayEnter
<1>3. <<o, p>> \in Content
  BY <1>0, ContentIs
<1>4. Forest!Substitute(o, n)
  BY <1>1, <1>2, <1>3 DEF Forest!Substitute, Forest!NoCycle, Forest!Place
<1> QED BY <1>0, <1>4 DEF Forest!Next

LEMMA TransferMove ==
    ASSUME TypeOK, TreeInv, NEW L \in List, NEW p \in List, L # p,
           Owner[p] \in live \cup {NULL}, \A e \in members[L] : MayEnter(e, Owner[p]),
           NEW N, N = {} \/ (\E o \in members[p] : N = {o}), UNCHANGED live,
           \A m \in Obj, q \in Slot \cup List : Holds(q, m)' <=>
              (m \in members[L] /\ q = p) \/ (m \notin members[L] \cup N /\ Holds(q, m))
    PROVE  Forest!Next
<1>0. \A M \in List : Forest!Occupants(M) = members[M] /\ members[M] \in SUBSET Obj
  <2> SUFFICES ASSUME NEW M \in List
               PROVE  Forest!Occupants(M) = members[M] /\ members[M] \in SUBSET Obj
    OBVIOUS
  <2>1. members[M] \in SUBSET Obj /\ M \notin Slot
    BY DEF TypeOK
  <2>2. \A n \in Obj : <<n, M>> \in Content <=> n \in members[M]
    BY <2>1, ContentIs DEF Holds
  <2> QED BY <2>1, <2>2 DEF Forest!Occupants
<1>1. Content' = Forest!Leaving(members[L] \cup N) \cup (members[L] \X {p})
  <2> DEFINE M == members[L]
             V == Forest!Leaving(M \cup N)
             B == V \cup (M \X {p})
  <2>0. /\ V \in SUBSET (Obj \X (Slot \cup List)) /\ M \in SUBSET Obj
        /\ \A m \in Obj, q \in Slot \cup List : <<m, q>> \in V <=> m \notin M \cup N /\ Holds(q, m)
    BY <1>0, LeavingIs
  <2> HIDE DEF V
  <2>1. B \in SUBSET (Obj \X (Slot \cup List))
    BY <2>0
  <2>2. \A m \in Obj, q \in Slot \cup List : <<m, q>> \in B <=> Holds(q, m)'
    BY <2>0
  <2> HIDE DEF B
  <2>3. Content' = B
    BY <2>1, <2>2, ContentBecomes
  <2> QED BY <2>3 DEF B, V
<1>2. \A e \in members[L] : Owner[p] \notin Forest!Below(e)
  BY <1>0, NoCycleMade, OwnerIs DEF MayEnter
<1>3. Forest!Transfer(L, p, N)
  BY <1>0, <1>1, <1>2 DEF Forest!Transfer, Forest!NoCycle, Forest!Open
<1>4. CASE N = {}
  BY <1>3, <1>4 DEF Forest!Next
<1>5. CASE \E o \in members[p] : N = {o}
  <2> PICK o \in members[p] : N = {o}
    BY <1>5
  <2>1. o \in Forest!Occupants(p) /\ Forest!Transfer(L, p, {o})
    BY <1>0, <1>3
  <2> QED BY <2>1 DEF Forest!Next
<1> QED BY <1>4, <1>5

LEMMA ExchangeMove ==
    ASSUME TypeOK, TreeInv, NEW a \in live, NEW b \in live, a # b,
           NEW p \in List, NEW q \in List, a \in members[p], b \in members[q],
           MayEnter(a, Owner[q]), MayEnter(b, Owner[p]), UNCHANGED live,
           \A m \in Obj, r \in Slot \cup List : Holds(r, m)' <=>
              (m = a /\ r = q) \/ (m = b /\ r = p) \/ (m \notin {a, b} /\ Holds(r, m))
    PROVE  Forest!Next
<1>0. a \in Obj /\ b \in Obj /\ <<a, p>> \in Content /\ <<b, q>> \in Content
  BY ContentIs DEF TypeOK, Holds
<1>1. Content' = Forest!Leaving({a, b}) \cup {<<a, q>>, <<b, p>>}
  <2> DEFINE V == Forest!Leaving({a, b})
             B == V \cup {<<a, q>>, <<b, p>>}
  <2>0. /\ V \in SUBSET (Obj \X (Slot \cup List))
        /\ \A m \in Obj, r \in Slot \cup List : <<m, r>> \in V <=> m \notin {a, b} /\ Holds(r, m)
    BY LeavingIs
  <2> HIDE DEF V
  <2>1. B \in SUBSET (Obj \X (Slot \cup List))
    BY <1>0, <2>0
  <2>2. ASSUME NEW m \in Obj, NEW r \in Slot \cup List PROVE <<m, r>> \in B <=> Holds(r, m)'
    <3>1. <<m, r>> \in B <=> <<m, r>> \in V \/ (m = a /\ r = q) \/ (m = b /\ r = p)
      OBVIOUS
    <3> QED BY <2>0, <3>1
  <2> HIDE DEF B
  <2>3. Content' = B
    BY <2>1, <2>2, ContentBecomes
  <2> QED BY <2>3 DEF B, V
<1>2. Owner[q] \notin Forest!Below(a) /\ Owner[p] \notin Forest!Below(b)
  BY <1>0, NoCycleMade, OwnerIs DEF MayEnter
<1>3. Forest!Exchange(a, b)
  BY <1>0, <1>1, <1>2 DEF Forest!Exchange, Forest!NoCycle
<1> QED BY <1>0, <1>3 DEF Forest!Next

AllBelow(R) == UNION {Subtree(r) : r \in R}

LEMMA DiscardMove ==
    ASSUME TypeOK, TreeInv, NEW R \in SUBSET live, NEW D,
           D = AllBelow(R), live' = live \ D,
           \/ \E r \in R : R = {r} /\ inlist[r] = NULL /\ parent[r] = NULL
           \/ \E L \in List : R \subseteq members[L],
           \A m \in Obj, q \in Slot \cup List : Holds(q, m)' <=> m \notin D /\ Holds(q, m)
    PROVE  Forest!Next
<1>0. R \in SUBSET Obj
  BY DEF TypeOK
<1>1. Content' = Forest!Leaving(D)
  <2> DEFINE V == Forest!Leaving(D)
  <2>1. /\ V \in SUBSET (Obj \X (Slot \cup List))
        /\ \A n \in Obj, p \in Slot \cup List : <<n, p>> \in V <=> n \notin D /\ Holds(p, n)
    BY LeavingIs
  <2> HIDE DEF V
  <2>2. Content' = V
    BY <2>1, ContentBecomes
  <2> QED BY <2>2 DEF V
<1>2. D = UNION {Forest!Below(r) : r \in R}
  BY <1>0, BelowIsSubtree DEF AllBelow
<1>3. \/ \E r \in R : R = {r} /\ \A p \in Slot \cup List : <<r, p>> \notin Content
      \/ \E L \in List : R \subseteq Forest!Occupants(L)
  <2>1. ASSUME NEW r \in R, inlist[r] = NULL, parent[r] = NULL, NEW p \in Slot \cup List
        PROVE  <<r, p>> \notin Content
    BY <1>0, <2>1, ContentIs DEF Holds, TreeInv, OwnershipExact
  <2>2. ASSUME NEW L \in List, R \subseteq members[L] PROVE R \subseteq Forest!Occupants(L)
    BY <1>0, <2>2, ContentIs DEF Holds, Forest!Occupants
  <2> QED BY <2>1, <2>2
<1>4. Forest!Discard(R)
  BY <1>1, <1>2, <1>3 DEF Forest!Discard, Forest!Place
<1> QED BY <1>4 DEF Forest!Next

\* What is not above a node is not above its parent.
LEMMA EnterAbove ==
    ASSUME TypeOK, NEW o \in Obj, NEW n \in Obj, ~IsSubNode(o, n), GetParent(o) # NULL
    PROVE  ~IsSubNode(GetParent(o), n)
BY AncestorsOfParent DEF IsSubNode

\* The moves made by each operation.
LEMMA SetChildMoves ==
    ASSUME TypeOK, TreeInv, NEW s \in Slot, NEW o \in Obj \cup {NULL}, SetChild(s, o)
    PROVE  Forest!Next
<1> USE DEF SetChild
<1>0. /\ live \in SUBSET Obj /\ UNCHANGED live /\ s \in Slot \cup List
      /\ Owner[s] = SlotOwner[s] /\ SlotOwner[s] \in live /\ child[s] # o
  BY OwnerIs DEF TypeOK, OpenSlots, SlotsOf
<1>1. CASE o = NULL
  <2>1. child[s] # NULL /\ child[s] \in live
    BY <1>0, <1>1 DEF TreeInv, NothingDangles
  <2>2. child' = [t \in Slot |-> IF t = s THEN NULL ELSE child[t]] /\ members' = members
    BY <1>1 DEF Written, TypeOK
  <2>3. \A n \in Obj, q \in Slot \cup List : Holds(q, n)' <=> n \notin {child[s]} /\ Holds(q, n)
    BY <2>1, <2>2 DEF Holds, TreeInv, OwnershipExact
  <2> QED BY <1>0, <2>1, <2>3, TakeMove
<1>2. CASE o # NULL
  <2>1. o \in live /\ MayEnter(o, Owner[s])
    BY <1>0, <1>2
  <2>2. /\ child' = [t \in Slot |-> IF t = field[o] THEN NULL ELSE IF t = s THEN o ELSE child[t]]
        /\ members' = [L \in List |-> IF inlist[o] = L THEN members[L] \ {o} ELSE members[L]]
    BY <1>2 DEF Written
  <2>3. field[o] # s
    BY <1>0, <1>2, <2>1 DEF TreeInv, OwnershipExact
  <2>4. \A n \in Obj, q \in Slot \cup List : Holds(q, n)' <=>
           (n = o /\ q = s) \/ (n # o /\ Holds(q, n) /\ q # s)
    <3>1. ASSUME NEW n \in Obj, NEW q \in Slot
          PROVE  Holds(q, n)' <=> (n = o /\ q = s) \/ (n # o /\ Holds(q, n) /\ q # s)
      BY <1>0, <2>1, <2>2, <2>3 DEF Holds, TreeInv, OwnershipExact
    <3>2. ASSUME NEW n \in Obj, NEW q \in List
          PROVE  Holds(q, n)' <=> (n = o /\ q = s) \/ (n # o /\ Holds(q, n) /\ q # s)
      BY <1>0, <2>1, <2>2 DEF Holds, TreeInv, OwnershipExact
    <3> QED BY <3>1, <3>2
  <2> HIDE DEF SetChild
  <2> QED BY <1>0, <2>1, <2>4, PutMove
<1> QED BY <1>1, <1>2

\* replace(nullptr) and, for a node in a field, replace(this) detach the node.
LEMMA ReplaceInFieldMoves ==
    ASSUME TypeOK, TreeInv, NEW o \in live, NEW n \in live \cup {NULL},
           n # NULL => inlist[n] = NULL /\ (n = o \/ ~IsSubNode(o, n)), GetParent(o) # NULL,
           ReplaceInField(o, n)
    PROVE  Forest!Next
<1> USE DEF ReplaceInField
<1>0. /\ live \in SUBSET Obj /\ UNCHANGED <<live, members>> /\ o \in Obj
      /\ field[o] \in Slot /\ child[field[o]] = o /\ inlist[o] = NULL
      /\ Owner[field[o]] = SlotOwner[field[o]] /\ GetParent(o) = SlotOwner[field[o]]
  BY OwnerIs DEF TypeOK, TreeInv, OwnershipExact, GetParent
<1>1. CASE n = NULL \/ n = o
  <2>1. child' = [t \in Slot |-> IF t = field[o] THEN NULL ELSE child[t]]
    BY <1>0, <1>1 DEF Written
  <2>2. \A m \in Obj, q \in Slot \cup List : Holds(q, m)' <=> m \notin {o} /\ Holds(q, m)
    BY <1>0, <2>1 DEF Holds, TreeInv, OwnershipExact
  <2> QED BY <1>0, <2>2, TakeMove
<1>2. CASE n # NULL /\ n # o
  <2>1. n \in live /\ n \in Obj /\ inlist[n] = NULL /\ field[n] # field[o]
    BY <1>0, <1>2 DEF TreeInv, OwnershipExact
  <2>2. child' = [t \in Slot |-> IF t = field[n] THEN NULL ELSE IF t = field[o] THEN n ELSE child[t]]
    BY <1>0, <1>2 DEF Written
  <2>3. MayEnter(n, Owner[field[o]])
    BY <1>0, <1>2, <2>1, EnterAbove DEF MayEnter
  <2>4. \A m \in Obj, q \in Slot \cup List : Holds(q, m)' <=>
           (m = n /\ q = field[o]) \/ (m \notin {o, n} /\ Holds(q, m))
    <3>1. ASSUME NEW m \in Obj, NEW q \in Slot
          PROVE  Holds(q, m)' <=> (m = n /\ q = field[o]) \/ (m \notin {o, n} /\ Holds(q, m))
      BY <1>0, <2>1, <2>2 DEF Holds, TreeInv, OwnershipExact
    <3>2. ASSUME NEW m \in Obj, NEW q \in List
          PROVE  Holds(q, m)' <=> (m = n /\ q = field[o]) \/ (m \notin {o, n} /\ Holds(q, m))
      BY <1>0, <2>1, <2>2 DEF Holds, TreeInv, OwnershipExact
    <3> QED BY <3>1, <3>2
  <2>5. Holds(field[o], o)
    BY <1>0 DEF Holds
  <2> QED BY <1>0, <1>2, <2>1, <2>3, <2>4, <2>5, SubstituteMove
<1> QED BY <1>1, <1>2

LEMMA ReplaceInListMoves ==
    ASSUME TypeOK, TreeInv, NEW o \in live, NEW n \in live \cup {NULL},
           n # NULL => n = o \/ (inlist[n] = NULL /\ ~IsSubNode(o, n)),
           ReplaceInList(o, n)
    PROVE  Forest!Next \/ UNCHANGED <<live, Content>>
<1> USE DEF ReplaceInList
<1>0. /\ live \in SUBSET Obj /\ UNCHANGED live /\ o \in Obj
      /\ inlist[o] \in List /\ o \in members[inlist[o]] /\ field[o] = NULL
      /\ Owner[inlist[o]] = ListOwner[inlist[o]] /\ GetParent(o) = ListOwner[inlist[o]]
      /\ members' = [members EXCEPT ![inlist[o]] = (@ \ {o}) \cup ({n} \ {NULL})]
  BY OwnerIs DEF TypeOK, TreeInv, OwnershipExact, GetParent
<1>1. CASE n = NULL
  <2>1. child' = child
    BY <1>1 DEF TypeOK
  <2>2. \A m \in Obj, q \in Slot \cup List : Holds(q, m)' <=> m \notin {o} /\ Holds(q, m)
    BY <1>0, <1>1, <2>1 DEF TypeOK, Holds, TreeInv, OwnershipExact
  <2> QED BY <1>0, <2>2, TakeMove
<1>2. CASE n = o
  <2>1. child' = child
    BY <1>0, <1>2 DEF TypeOK
  <2>2. members' = members
    BY <1>0, <1>2 DEF TypeOK
  <2> QED BY <1>0, <2>1, <2>2 DEF Content, Holds
<1>3. CASE n # NULL /\ n # o
  <2>1. n \in live /\ n \in Obj /\ inlist[n] = NULL
    BY <1>0, <1>3
  <2>2. child' = [t \in Slot |-> IF field[n] = t THEN NULL ELSE child[t]]
    BY <1>3
  <2>3. MayEnter(n, Owner[inlist[o]])
    BY <1>0, <1>3, <2>1, EnterAbove DEF MayEnter
  <2>4. \A m \in Obj, q \in Slot \cup List : Holds(q, m)' <=>
           (m = n /\ q = inlist[o]) \/ (m \notin {o, n} /\ Holds(q, m))
    <3>1. ASSUME NEW m \in Obj, NEW q \in Slot
          PROVE  Holds(q, m)' <=> (m = n /\ q = inlist[o]) \/ (m \notin {o, n} /\ Holds(q, m))
      BY <1>0, <1>3, <2>1, <2>2 DEF Holds, TreeInv, OwnershipExact
    <3>2. ASSUME NEW m \in Obj, NEW q \in List
          PROVE  Holds(q, m)' <=> (m = n /\ q = inlist[o]) \/ (m \notin {o, n} /\ Holds(q, m))
      BY <1>0, <1>3, <2>1 DEF Holds, TypeOK, TreeInv, OwnershipExact
    <3> QED BY <3>1, <3>2
  <2>5. Holds(inlist[o], o)
    BY <1>0 DEF Holds
  <2> QED BY <1>0, <1>3, <2>1, <2>3, <2>4, <2>5, SubstituteMove
<1> QED BY <1>1, <1>2, <1>3

LEMMA ReplaceWithListMoves ==
    ASSUME TypeOK, TreeInv, NEW o \in Obj, NEW L \in List, ReplaceWithList(o, L)
    PROVE  Forest!Next
<1>0. /\ live \in SUBSET Obj /\ o \in live /\ members[L] \in SUBSET live
      /\ \A e \in members[L] : ~IsSubNode(o, e) /\ inlist[e] = L
      /\ inlist[o] \in List /\ inlist[o] # L /\ o \in members[inlist[o]]
      /\ Owner[inlist[o]] = ListOwner[inlist[o]] /\ GetParent(o) = ListOwner[inlist[o]]
  BY OwnerIs DEF ReplaceWithList, TypeOK, TreeInv, OwnershipExact, NothingDangles, GetParent
<1>1. CASE ReplaceWithListInTree(o, L)
  <2> USE <1>1 DEF ReplaceWithListInTree
  <2>1. Owner[inlist[o]] \in live \cup {NULL}
    BY <1>0 DEF TreeInv, NothingDangles
  <2>2. \A e \in members[L] : MayEnter(e, Owner[inlist[o]])
    BY <1>0, EnterAbove DEF MayEnter
  <2>3. \A m \in Obj, q \in Slot \cup List : Holds(q, m)' <=>
           (m \in members[L] /\ q = inlist[o]) \/ (m \notin members[L] \cup {o} /\ Holds(q, m))
    <3>1. ASSUME NEW m \in Obj, NEW q \in Slot
          PROVE  Holds(q, m)' <=>
             (m \in members[L] /\ q = inlist[o]) \/ (m \notin members[L] \cup {o} /\ Holds(q, m))
      BY <1>0 DEF Holds, TreeInv, OwnershipExact
    <3>2. ASSUME NEW m \in Obj, NEW q \in List
          PROVE  Holds(q, m)' <=>
             (m \in members[L] /\ q = inlist[o]) \/ (m \notin members[L] \cup {o} /\ Holds(q, m))
      BY <1>0 DEF Holds, TypeOK, TreeInv, OwnershipExact
    <3> QED BY <3>1, <3>2
  <2> DEFINE N == {o}
             place == inlist[o]
  <2>4. /\ \E x \in members[place] : N = {x}
        /\ place \in List /\ L # place /\ Owner[place] \in live \cup {NULL} /\ UNCHANGED live
        /\ \A e \in members[L] : MayEnter(e, Owner[place])
    BY <1>0, <2>1, <2>2
  <2>5. \A m \in Obj, q \in Slot \cup List : Holds(q, m)' <=>
           (m \in members[L] /\ q = place) \/ (m \notin members[L] \cup N /\ Holds(q, m))
    BY <2>3
  <2> HIDE DEF N, place, ReplaceWithListInTree
  <2> QED BY <2>4, <2>5, TransferMove
<1>2. CASE ReplaceWithListOrphan(o, L)
  <2>1. PICK front \in Obj : members[L] = {front} /\ members' = [members EXCEPT ![L] = {}]
    BY <1>2 DEF ReplaceWithListOrphan
  <2>2. UNCHANGED <<live, child>> /\ {front} \in SUBSET live
    BY <1>0, <1>2, <2>1 DEF ReplaceWithListOrphan
  <2>3. \A m \in Obj, q \in Slot \cup List : Holds(q, m)' <=> m \notin {front} /\ Holds(q, m)
    BY <2>1, <2>2 DEF Holds, TypeOK, TreeInv, OwnershipExact
  <2> QED BY <2>2, <2>3, TakeMove
<1> QED BY <1>1, <1>2 DEF ReplaceWithList

LEMMA InsertMoves ==
    ASSUME TypeOK, TreeInv, NEW o \in Obj, NEW L \in List, Insert(L, o)
    PROVE  Forest!Next
<1> USE DEF Insert
<1>1. o \in live /\ UNCHANGED <<live, child>> /\ Owner[L] \in live \cup {NULL} /\ MayEnter(o, Owner[L])
  BY OwnerIs DEF OpenLists, Detached
<1>2. \A n \in Obj, q \in Slot \cup List : Holds(q, n)' <=>
         (n = o /\ q = L) \/ (n # o /\ Holds(q, n))
  BY <1>1 DEF Detached, Holds, TypeOK, TreeInv, OwnershipExact
<1> HIDE DEF Insert
<1> QED BY <1>1, <1>2, PutMove

LEMMA ReleaseMoves ==
    ASSUME TypeOK, TreeInv, NEW L \in List, NEW E \in SUBSET members[L], Release(L, E)
    PROVE  Forest!Next
<1> USE DEF Release
<1>1. E \in SUBSET live /\ E # {} /\ UNCHANGED <<live, child>>
  BY DEF TreeInv, NothingDangles
<1>2. \A n \in Obj, q \in Slot \cup List : Holds(q, n)' <=> n \notin E /\ Holds(q, n)
  BY DEF Holds, TypeOK, TreeInv, OwnershipExact
<1> HIDE DEF Release
<1> QED BY <1>1, <1>2, TakeMove

\* What a destructor leaves is what was not below its roots: a place of a deleted node
\* holds nothing, and no other place holds a deleted node but those the roots leave.
LEMMA DestroyMoves ==
    ASSUME TypeOK, TreeInv, NEW R \in SUBSET live, NEW D, D = AllBelow(R),
           \/ \E r \in R : R = {r} /\ inlist[r] = NULL /\ parent[r] = NULL
           \/ \E L \in List : R \subseteq members[L],
           NEW lists, lists = [L \in List |-> members[L] \ R], Destroy(D, child, lists)
    PROVE  Forest!Next
<1>0. R \in SUBSET Obj /\ live \in SUBSET Obj /\ live' = live \ D
  BY DEF TypeOK, Destroy
<1>1. ASSUME NEW r \in R, NEW c \in Subtree(r), c \notin R, NEW p \in Obj, OwnsIn(p, c)
      PROVE  p \in D
  BY <1>0, <1>1, OwnerInside DEF AllBelow
<1>2. ASSUME NEW c \in D, NEW p \in Obj, OwnsIn(p, c), c \notin R PROVE p \in D
  BY <1>1, <1>2 DEF AllBelow
<1>3. ASSUME NEW p \in D, NEW c \in Obj, OwnsIn(p, c) PROVE c \in D
  <2> PICK r \in R : p \in Subtree(r)
    BY DEF AllBelow
  <2> QED BY <1>0, <1>3, SubtreeClosed DEF AllBelow
<1>4. R \subseteq D
  BY <1>0, SubtreeClosed DEF AllBelow
<1>5. ASSUME NEW m \in Obj, NEW q \in Slot PROVE Holds(q, m)' <=> m \notin D /\ Holds(q, m)
  <2>1. child'[q] = IF SlotOwner[q] \in D THEN NULL ELSE child[q]
    BY DEF Destroy
  <2>2. Holds(q, m) => OwnsIn(SlotOwner[q], m) /\ m \notin R
    BY <1>0 DEF Holds, OwnsIn, TreeInv, OwnershipExact
  <2>3. Holds(q, m) => (SlotOwner[q] \in D <=> m \in D)
    BY <1>2, <1>3, <2>2
  <2> QED BY <2>1, <2>3 DEF Holds
<1>6. ASSUME NEW m \in Obj, NEW q \in List PROVE Holds(q, m)' <=> m \notin D /\ Holds(q, m)
  <2>1. members'[q] = IF ListOwner[q] \in D THEN {} ELSE members[q] \ R
    BY DEF Destroy
  <2>2. CASE ListOwner[q] # NULL /\ Holds(q, m)
    <3>1. OwnsIn(ListOwner[q], m) /\ ListOwner[q] \in Obj
      BY <2>2 DEF Holds, OwnsIn
    <3> QED BY <1>2, <1>3, <1>4, <2>1, <2>2, <3>1 DEF Holds
  <2>3. CASE ListOwner[q] = NULL /\ Holds(q, m)
    <3>1. inlist[m] = q /\ q # NULL
      BY <2>3 DEF Holds, TreeInv, OwnershipExact
    <3>2. ASSUME NEW r \in R, m \in Subtree(r) PROVE m \in R
      BY <1>0, <2>3, <3>1, <3>2, FreeListIsTop
    <3>3. m \in D <=> m \in R
      BY <1>4, <3>2 DEF AllBelow
    <3>4. NULL \notin D
      BY <1>0, SubtreeClosed DEF AllBelow
    <3> QED BY <2>1, <2>3, <3>3, <3>4 DEF Holds
  <2>4. CASE ~Holds(q, m)
    BY <2>1, <2>4 DEF Holds
  <2> QED BY <2>2, <2>3, <2>4
<1>7. \A m \in Obj, q \in Slot \cup List : Holds(q, m)' <=> m \notin D /\ Holds(q, m)
  BY <1>5, <1>6
<1> QED BY <1>0, <1>7, DiscardMove

LEMMA DeleteMoves ==
    ASSUME TypeOK, TreeInv, NEW o \in Obj, Delete(o)
    PROVE  Forest!Next
<1>1. o \in live /\ inlist[o] = NULL /\ parent[o] = NULL /\ Destroy(Subtree(o), child, members)
  BY DEF Delete, Detached
<1>2. members = [L \in List |-> members[L] \ {o}]
  BY <1>1 DEF TypeOK, TreeInv, OwnershipExact
<1>3. Subtree(o) = AllBelow({o})
  BY DEF AllBelow
<1> DEFINE D == Subtree(o)
           lists == members
<1>4. /\ {o} \in SUBSET live /\ D = AllBelow({o})
      /\ \E r \in {o} : {o} = {r} /\ inlist[r] = NULL /\ parent[r] = NULL
      /\ lists = [L \in List |-> members[L] \ {o}] /\ Destroy(D, child, lists)
  BY <1>1, <1>2, <1>3
<1> HIDE DEF D, lists
<1> QED BY <1>4, DestroyMoves

LEMMA EraseMoves ==
    ASSUME TypeOK, TreeInv, NEW L \in List, NEW E \in SUBSET members[L], Erase(L, E)
    PROVE  Forest!Next
<1> DEFINE D == UNION {Subtree(e) : e \in E}
           lists == [members EXCEPT ![L] = @ \ E]
<1>1. Destroy(D, child, lists) /\ E \in SUBSET live
  BY DEF Erase, TreeInv, NothingDangles
<1>2. lists = [M \in List |-> members[M] \ E]
  <2>1. \A M \in List : M # L => members[M] \ E = members[M]
    BY DEF TypeOK, TreeInv, OwnershipExact
  <2> QED BY <2>1 DEF TypeOK
<1>3. D = AllBelow(E)
  BY DEF AllBelow
<1> HIDE DEF D, lists
<1> QED BY <1>1, <1>2, <1>3, DestroyMoves

LEMMA SwapMoves ==
    ASSUME TypeOK, TreeInv, NEW a \in Obj, NEW b \in Obj, SwapElements(a, b)
    PROVE  Forest!Next \/ UNCHANGED <<live, Content>>
<1> USE DEF SwapElements
<1>0. /\ a \in live /\ b \in live /\ UNCHANGED <<live, child>>
      /\ inlist[a] \in List /\ a \in members[inlist[a]] /\ GetParent(a) = ListOwner[inlist[a]]
      /\ inlist[b] \in List /\ b \in members[inlist[b]] /\ GetParent(b) = ListOwner[inlist[b]]
      /\ ~IsSubNode(a, b) /\ ~IsSubNode(b, a)
      /\ Owner[inlist[a]] = ListOwner[inlist[a]] /\ Owner[inlist[b]] = ListOwner[inlist[b]]
  BY OwnerIs DEF TypeOK, TreeInv, OwnershipExact, GetParent
<1>1. a # b
  BY <1>0, AncestorsClosed DEF IsSubNode
<1>2. \A L \in List : members'[L] = (members[L] \ {a, b}) \cup
         {x \in {a, b} : (IF x = a THEN inlist[b] ELSE inlist[a]) = L}
  BY <1>1
<1>3. \A m \in Obj, r \in Slot \cup List : Holds(r, m)' <=>
         (m = a /\ r = inlist[b]) \/ (m = b /\ r = inlist[a]) \/ (m \notin {a, b} /\ Holds(r, m))
  <2>1. ASSUME NEW m \in Obj, NEW r \in Slot PROVE Holds(r, m)' <=>
         (m = a /\ r = inlist[b]) \/ (m = b /\ r = inlist[a]) \/ (m \notin {a, b} /\ Holds(r, m))
    BY <1>0, <2>1 DEF Holds, TreeInv, OwnershipExact
  <2>2. ASSUME NEW m \in Obj, NEW r \in List PROVE Holds(r, m)' <=>
         (m = a /\ r = inlist[b]) \/ (m = b /\ r = inlist[a]) \/ (m \notin {a, b} /\ Holds(r, m))
    BY <1>1, <1>2, <2>2 DEF Holds
  <2> QED BY <2>1, <2>2
<1>4. MayEnter(a, Owner[inlist[b]]) /\ MayEnter(b, Owner[inlist[a]])
  BY <1>0, EnterAbove DEF MayEnter
<1> HIDE DEF SwapElements
<1> QED BY <1>0, <1>1, <1>3, <1>4, ExchangeMove

LEMMA MergeMoves ==
    ASSUME TypeOK, TreeInv, NEW L \in List, NEW x \in List, Merge(L, x)
    PROVE  Forest!Next
<1> USE DEF Merge
<1>1. /\ UNCHANGED <<live, child>> /\ L # x /\ Owner[L] \in live \cup {NULL}
      /\ \A e \in members[x] : MayEnter(e, Owner[L])
  BY OwnerIs DEF OpenLists
<1>2. \A m \in Obj, q \in Slot \cup List : Holds(q, m)' <=>
         (m \in members[x] /\ q = L) \/ (m \notin members[x] /\ Holds(q, m))
  BY <1>1 DEF Holds, TypeOK, TreeInv, OwnershipExact
<1> DEFINE N == {}
<1>3. N = {} \/ \E o \in members[L] : N = {o}
  OBVIOUS
<1>4. \A m \in Obj, q \in Slot \cup List : Holds(q, m)' <=>
         (m \in members[x] /\ q = L) \/ (m \notin members[x] \cup N /\ Holds(q, m))
  BY <1>2
<1>5. UNCHANGED live /\ x # L
  BY <1>1
<1> HIDE DEF Merge, N
<1> QED BY <1>1, <1>3, <1>4, <1>5, TransferMove

LEMMA NextMoves ==
    ASSUME TypeOK, TreeInv, [Next]_vars
    PROVE  Forest!Next \/ UNCHANGED <<live, Content>>
<1>1. ASSUME NEW o \in Obj, New(o) PROVE Forest!Next
  <2>1. Forest!Create(o)
    BY <1>1 DEF New, Forest!Create, Content, Holds
  <2> QED BY <2>1 DEF Forest!Next
<1>2. ASSUME NEW o \in Obj, NEW n \in Obj \cup {NULL}, Replace(o, n)
      PROVE  Forest!Next \/ UNCHANGED <<live, Content>>
  <2>1. /\ o \in live /\ n \in live \cup {NULL} /\ GetParent(o) # NULL
        /\ n # NULL => n = o \/ (inlist[n] = NULL /\ ~IsSubNode(o, n))
        /\ ReplaceInField(o, n) \/ ReplaceInList(o, n)
    BY <1>2 DEF Replace, ReplaceCall, Listless
  <2>2. CASE ReplaceInField(o, n)
    BY <2>1, <2>2, ReplaceInFieldMoves DEF ReplaceInField
  <2>3. CASE ReplaceInList(o, n)
    BY <2>1, <2>3, ReplaceInListMoves
  <2> QED BY <2>1, <2>2, <2>3
<1>3. ASSUME NEW o \in Obj, NEW n \in Obj, AssignIter(o, n)
      PROVE  Forest!Next \/ UNCHANGED <<live, Content>>
  BY <1>3, ReplaceInListMoves DEF AssignIter, Detached
<1>4. CASE UNCHANGED vars
  BY <1>4 DEF vars, Content, Holds
<1> QED BY <1>1, <1>2, <1>3, <1>4, DeleteMoves, SetChildMoves, ReplaceWithListMoves, InsertMoves,
           ReleaseMoves, EraseMoves, SwapMoves, MergeMoves DEF Next

\* The tree with its back pointers does what HifForest says, for any nodes, fields and
\* lists: every operation moves, detaches or deletes exactly the nodes it says.
THEOREM TreeImplementsForest == Spec => ImplementsForest
<1>1. Init => Forest!Init
  BY DEF Init, Forest!Init, Content, Holds
<1>2. TypeOK /\ TreeInv /\ [Next]_vars => [Forest!Next]_(Forest!vars)
  BY NextMoves DEF Forest!vars
<1> QED BY <1>1, <1>2, Inductive, PTL DEF Spec, ImplementsForest, Forest!Spec
=============================================================================
