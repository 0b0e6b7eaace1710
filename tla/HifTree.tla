------------------------------ MODULE HifTree ------------------------------
(***************************************************************************)
(* The ownership structure of a HIF tree (src/src/classes/Object.cpp and   *)
(* the parts of src/src/BListHost.cpp that write an object's pointers).    *)
(*                                                                         *)
(* A node owns its children through fields (an Object* member, a slot      *)
(* here) and through BLists.  Ownership is written down twice, once on     *)
(* each side:                                                              *)
(*   owner side    child[s], the content of a field; members[L], the       *)
(*                 elements of a list (their order is the business of      *)
(*                 BList and ListLoops);                                   *)
(*   object side   _parent and _field when the object is in a field,       *)
(*                 _parentlink when it is in a list.  A link is            *)
(*                 represented by the list it belongs to (getBList()).     *)
(* Every operation has to keep the two sides in step by hand.              *)
(*                                                                         *)
(* What callers owe, and the code does not check: an object handed to a    *)
(* list operation or to replace() is in no list; an object is not made a   *)
(* descendant of itself; `delete o' is applied to a detached object.       *)
(***************************************************************************)
EXTENDS Naturals, FiniteSets

CONSTANTS
    Obj,         \* node identities (addresses)
    Slot,        \* the fields of all nodes
    List,        \* the BLists, those of nodes and free-standing ones
    NULL,
    SlotOwner,   \* the node a field belongs to
    ListOwner    \* BListHost::_parent: the node a list belongs to, or NULL

ASSUME TreeAssumption ==
    /\ NULL \notin Obj /\ NULL \notin Slot /\ NULL \notin List /\ Slot \cap List = {}
    /\ SlotOwner \in [Slot -> Obj]
    /\ ListOwner \in [List -> Obj \cup {NULL}]

VARIABLES
    live,       \* the allocated nodes
    child,      \* the field contents
    members,    \* the list contents
    field,      \* Object::_field
    parent,     \* Object::_parent
    inlist      \* Object::_parentlink->parentlist, NULL when _parentlink is

vars == <<live, child, members, field, parent, inlist>>

-----------------------------------------------------------------------------
\* Queries

\* Mutant: the list an object is in is not asked for its parent.
OwnParentOnly(o) == parent[o]

\* Object::getParent
GetParent(o) == IF inlist[o] # NULL THEN ListOwner[inlist[o]] ELSE parent[o]

\* The nodes a destructor or a visitor reaches from o: the least set that holds
\* o and the content of every field and list of its elements.
OwnsIn(p, c) == \/ \E s \in Slot : SlotOwner[s] = p /\ child[s] = c
                \/ \E L \in List : ListOwner[L] = p /\ c \in members[L]
ClosedDown(S) == \A p \in S, c \in Obj : OwnsIn(p, c) => c \in S
Subtree(o)    == {x \in Obj : \A S \in SUBSET Obj : o \in S /\ ClosedDown(S) => x \in S}

\* isSubNode(o, p): p is met on the way up from o along getParent(); false for nullptr.
ClosedUp(S)     == \A x \in S : GetParent(x) # NULL => GetParent(x) \in S
Ancestors(o)    == {x \in Obj : \A S \in SUBSET Obj : o \in S /\ ClosedUp(S) => x \in S}
IsSubNode(o, p) == o # NULL /\ p # NULL /\ p \in Ancestors(o)

SlotsOf(S)  == {s \in Slot : SlotOwner[s] \in S}
ListsOf(S)  == {L \in List : ListOwner[L] \in S}
OpenSlots   == SlotsOf(live)
OpenLists   == {L \in List : ListOwner[L] \in live \cup {NULL}}

Detached(o) == o \in live /\ inlist[o] = NULL /\ parent[o] = NULL
Listless(o) == o \in live /\ inlist[o] = NULL

\* o may be put below p without closing a cycle.
MayEnter(o, p) == p = NULL \/ ~IsSubNode(p, o)

-----------------------------------------------------------------------------
Init ==
    /\ live = {}
    /\ child = [s \in Slot |-> NULL]
    /\ members = [L \in List |-> {}]
    /\ field = [o \in Obj |-> NULL]
    /\ parent = [o \in Obj |-> NULL]
    /\ inlist = [o \in Obj |-> NULL]

\* Object::Object
New(o) ==
    /\ o \notin live /\ live' = live \cup {o}
    /\ UNCHANGED <<child, members, field, parent, inlist>>

\* The destructors of the nodes D: ~BListHost clears the lists, the node classes'
\* destructors delete the fields.  slots and lists are the contents after the roots
\* have been taken out of their places, which no destructor does.
Destroy(D, slots, lists) ==
    /\ live' = live \ D
    /\ child' = [s \in Slot |-> IF SlotOwner[s] \in D THEN NULL ELSE slots[s]]
    /\ members' = [L \in List |-> IF ListOwner[L] \in D THEN {} ELSE lists[L]]
    /\ field' = [o \in Obj |-> IF o \in D THEN NULL ELSE field[o]]
    /\ parent' = [o \in Obj |-> IF o \in D THEN NULL ELSE parent[o]]
    /\ inlist' = [o \in Obj |-> IF o \in D THEN NULL ELSE inlist[o]]

Delete(o) == Detached(o) /\ Destroy(Subtree(o), child, members)

-----------------------------------------------------------------------------
\* Fields

\* *field = content, then *vacated = nullptr: the order of the two writes in replace().
Written(s, content, vacated) ==
    [t \in Slot |-> IF t = vacated THEN NULL ELSE IF t = s THEN content ELSE child[t]]

\* Mutant: newObj is not taken out of its list.
SetChildKeepsListed(s, o) ==
    LET old      == child[s]
        released == {x \in Obj : x = old /\ GetParent(x) = SlotOwner[s]}
    IN  /\ s \in OpenSlots
        /\ o # NULL => o \in live /\ MayEnter(o, SlotOwner[s])
        /\ old # o
        /\ child' = Written(s, o, IF o = NULL THEN NULL ELSE field[o])
        /\ field' = [x \in Obj |-> IF x = o THEN s
                                   ELSE IF x \in released THEN NULL ELSE field[x]]
        /\ parent' = [x \in Obj |-> IF x = o THEN SlotOwner[s]
                                    ELSE IF x \in released THEN NULL ELSE parent[x]]
        /\ UNCHANGED <<live, members, inlist>>

\* Object::_setChild(field, newObj): newObj leaves the field or the list it was
\* in, the old content is released to the caller.
SetChild(s, o) ==
    LET old      == child[s]
        released == {x \in Obj : x = old /\ GetParent(x) = SlotOwner[s]}
    IN  /\ s \in OpenSlots
        /\ o # NULL => o \in live /\ MayEnter(o, SlotOwner[s])
        /\ old # o
        /\ child' = Written(s, o, IF o = NULL THEN NULL ELSE field[o])
        /\ members' = [L \in List |-> IF o # NULL /\ inlist[o] = L
                                      THEN members[L] \ {o} ELSE members[L]]
        /\ field' = [x \in Obj |-> IF x = o THEN s
                                   ELSE IF x \in released THEN NULL ELSE field[x]]
        /\ parent' = [x \in Obj |-> IF x = o THEN SlotOwner[s]
                                    ELSE IF x \in released THEN NULL ELSE parent[x]]
        /\ inlist' = [x \in Obj |-> IF x = o THEN NULL ELSE inlist[x]]
        /\ UNCHANGED live

\* Mutant: the field other comes from is not cleared.
ReplaceInFieldAliases(o, n) ==
    /\ inlist[o] = NULL /\ field[o] # NULL
    /\ child' = Written(field[o], n, NULL)
    /\ field' = [x \in Obj |-> IF x = o THEN NULL ELSE IF x = n THEN field[o] ELSE field[x]]
    /\ parent' = [x \in Obj |-> IF x = o THEN NULL ELSE IF x = n THEN GetParent(o) ELSE parent[x]]
    /\ UNCHANGED <<live, members, inlist>>

\* Object::replace(other) when this is in a field.
ReplaceInField(o, n) ==
    /\ inlist[o] = NULL /\ field[o] # NULL
    /\ child' = Written(field[o], n, IF n = NULL THEN NULL ELSE field[n])
    /\ field' = [x \in Obj |-> IF x = o THEN NULL ELSE IF x = n THEN field[o] ELSE field[x]]
    /\ parent' = [x \in Obj |-> IF x = o THEN NULL ELSE IF x = n THEN GetParent(o) ELSE parent[x]]
    /\ UNCHANGED <<live, members, inlist>>

\* Object::replace(other) when this is in a list: iterator::remove() for NULL,
\* otherwise other is cleared from its field and takes over the link.
ReplaceInList(o, n) ==
    /\ inlist[o] # NULL
    /\ child' = [t \in Slot |-> IF n # NULL /\ field[n] = t THEN NULL ELSE child[t]]
    /\ members' = [members EXCEPT ![inlist[o]] = (@ \ {o}) \cup ({n} \ {NULL})]
    /\ inlist' = [x \in Obj |-> IF x = n THEN inlist[o] ELSE IF x = o THEN NULL ELSE inlist[x]]
    /\ parent' = [x \in Obj |-> IF x \in {o, n} THEN NULL ELSE parent[x]]
    /\ field' = [x \in Obj |-> IF x = n THEN NULL ELSE field[x]]
    /\ UNCHANGED live

\* The call proper.  With no parent it returns false and changes nothing.
ReplaceCall(o, n) ==
    /\ o \in live
    /\ n # NULL => n \in live /\ (n = o \/ ~IsSubNode(o, n))
    /\ GetParent(o) # NULL
    /\ ReplaceInField(o, n) \/ ReplaceInList(o, n)

\* Callers take other out of the list it may be in before they call replace.
Replace(o, n) == (n # NULL => Listless(n) \/ n = o) /\ ReplaceCall(o, n)

\* Object::replaceWithList: the elements of L enter the list of o, in its place.
\* An empty L removes o.
ReplaceWithListInTree(o, L) ==
    /\ GetParent(o) # NULL
    /\ members' = [members EXCEPT ![inlist[o]] = (@ \ {o}) \cup members[L], ![L] = {}]
    /\ inlist' = [x \in Obj |-> IF x \in members[L] THEN inlist[o]
                                ELSE IF x = o THEN NULL ELSE inlist[x]]
    /\ parent' = [x \in Obj |-> IF x = o THEN NULL ELSE parent[x]]
    /\ UNCHANGED <<live, child, field>>

\* When the list of o has no parent, replace() gives up after the front of L has
\* been taken out: with one element in L the call still returns true, with more
\* the program exits in insert_after ("accessing invalid iterator (6)").
ReplaceWithListOrphan(o, L) ==
    /\ GetParent(o) = NULL
    /\ \E front \in Obj :
          /\ members[L] = {front}
          /\ members' = [members EXCEPT ![L] = {}]
          /\ inlist' = [inlist EXCEPT ![front] = NULL]
    /\ UNCHANGED <<live, child, field, parent>>

ReplaceWithList(o, L) ==
    /\ o \in live /\ inlist[o] # NULL /\ inlist[o] # L
    /\ L \in OpenLists
    /\ \A e \in members[L] : ~IsSubNode(o, e)
    /\ ReplaceWithListInTree(o, L) \/ ReplaceWithListOrphan(o, L)

-----------------------------------------------------------------------------
\* Lists

\* Mutant: the list's node is taken for the list.
InsertIntoOwner(L, o) ==
    /\ L \in OpenLists /\ Detached(o) /\ MayEnter(o, ListOwner[L])
    /\ members' = [members EXCEPT ![L] = @ \cup {o}]
    /\ inlist' = [inlist EXCEPT ![o] = ListOwner[L]]
    /\ UNCHANGED <<live, child, parent, field>>

\* o enters L: push_front, push_back, insert_before, insert_after, insert(o, pos, true).
\* The field o came from is forgotten, not cleared: o has to be detached.
Insert(L, o) ==
    /\ L \in OpenLists /\ Detached(o) /\ MayEnter(o, ListOwner[L])
    /\ members' = [members EXCEPT ![L] = @ \cup {o}]
    /\ inlist' = [inlist EXCEPT ![o] = L]
    /\ parent' = [parent EXCEPT ![o] = NULL]
    /\ field' = [field EXCEPT ![o] = NULL]
    /\ UNCHANGED <<live, child>>

\* The elements E of L leave it and are released: iterator::remove, rremove,
\* remove(o), removeSubTree, removeAll, Trash::insert(list).
Release(L, E) ==
    /\ E \subseteq members[L] /\ E # {}
    /\ members' = [members EXCEPT ![L] = @ \ E]
    /\ inlist' = [x \in Obj |-> IF x \in E THEN NULL ELSE inlist[x]]
    /\ parent' = [x \in Obj |-> IF x \in E THEN NULL ELSE parent[x]]
    /\ UNCHANGED <<live, child, field>>

\* Mutant: the elements are deleted, their links stay in the list.
EraseKeepsLinks(L, E) ==
    /\ E \subseteq members[L] /\ E # {}
    /\ Destroy(UNION {Subtree(e) : e \in E}, child, members)

\* The elements E of L are deleted with their links: iterator::erase, rerase,
\* erase(o), clear, remove_dopplegangers.
Erase(L, E) ==
    /\ E \subseteq members[L] /\ E # {}
    /\ Destroy(UNION {Subtree(e) : e \in E}, child, [members EXCEPT ![L] = @ \ E])

\* *i = n: n takes over the link of o, with no test that o has a parent;
\* insert(n, pos, false) is the same.
AssignIter(o, n) == o \in live /\ Detached(n) /\ ~IsSubNode(o, n) /\ ReplaceInList(o, n)

\* Mutant: the elements keep the list they came from as theirs.
MergeKeepsList(L, x) ==
    /\ L # x /\ {L, x} \subseteq OpenLists
    /\ \A e \in members[x] : MayEnter(e, ListOwner[L])
    /\ members' = [members EXCEPT ![L] = @ \cup members[x], ![x] = {}]
    /\ UNCHANGED <<live, child, field, parent, inlist>>

\* L.merge(x), and insert_before/insert_after of a whole list.
Merge(L, x) ==
    /\ L # x /\ {L, x} \subseteq OpenLists
    /\ \A e \in members[x] : MayEnter(e, ListOwner[L])
    /\ members' = [members EXCEPT ![L] = @ \cup members[x], ![x] = {}]
    /\ inlist' = [o \in Obj |-> IF o \in members[x] THEN L ELSE inlist[o]]
    /\ UNCHANGED <<live, child, field, parent>>

\* BListHost::swap(a, b): two elements, of any lists, exchange their links.
SwapElements(a, b) ==
    /\ {a, b} \subseteq live /\ inlist[a] # NULL /\ inlist[b] # NULL
    /\ ~IsSubNode(a, b) /\ ~IsSubNode(b, a)
    /\ LET to(x) == IF x = a THEN inlist[b] ELSE IF x = b THEN inlist[a] ELSE inlist[x]
       IN  /\ inlist' = [x \in Obj |-> to(x)]
           /\ members' = [L \in List |-> (members[L] \ {a, b}) \cup {x \in {a, b} : to(x) = L}]
    /\ UNCHANGED <<live, child, field, parent>>

-----------------------------------------------------------------------------
Next ==
    \/ \E o \in Obj : New(o) \/ Delete(o)
    \/ \E s \in Slot, o \in Obj \cup {NULL} : SetChild(s, o)
    \/ \E o \in Obj, n \in Obj \cup {NULL} : Replace(o, n)
    \/ \E o \in Obj, L \in List : ReplaceWithList(o, L) \/ Insert(L, o)
    \/ \E L \in List : \E E \in SUBSET members[L] : Release(L, E) \/ Erase(L, E)
    \/ \E o, n \in Obj : AssignIter(o, n) \/ SwapElements(o, n)
    \/ \E L, x \in List : Merge(L, x)

Spec == Init /\ [][Next]_vars

-----------------------------------------------------------------------------
\* The pointers have the types the class declares.
TypeOK ==
    /\ live \in SUBSET Obj
    /\ child \in [Slot -> Obj \cup {NULL}]
    /\ members \in [List -> SUBSET Obj]
    /\ field \in [Obj -> Slot \cup {NULL}]
    /\ parent \in [Obj -> Obj \cup {NULL}]
    /\ inlist \in [Obj -> List \cup {NULL}]

\* The two sides of ownership agree: a field's content has that field as _field
\* and the field's node as _parent, a list's element has that list behind its
\* _parentlink, and the converses.  An object is in one field or in one list or
\* detached, whatever setChild, replace and the list operations did to it.
OwnershipExact ==
    /\ \A s \in Slot : child[s] # NULL =>
          field[child[s]] = s /\ parent[child[s]] = SlotOwner[s] /\ inlist[child[s]] = NULL
    /\ \A L \in List : \A o \in members[L] : inlist[o] = L
    /\ \A o \in Obj :
          /\ field[o] # NULL => child[field[o]] = o
          /\ inlist[o] # NULL => o \in members[inlist[o]] /\ parent[o] = NULL
          /\ field[o] = NULL => parent[o] = NULL

\* No allocated node, field or list refers to a deleted node, and no deleted
\* node is reachable from the lists that remain: every delete took its whole
\* subtree and nothing outside refers into it.
NothingDangles ==
    /\ \A s \in Slot : child[s] # NULL => child[s] \in live /\ SlotOwner[s] \in live
    /\ \A L \in List : members[L] \subseteq live
    /\ \A L \in List : members[L] # {} => ListOwner[L] \in live \cup {NULL}
    /\ \A o \in Obj \ live : field[o] = NULL /\ parent[o] = NULL /\ inlist[o] = NULL

\* Ownership is exact and nothing of it has been deleted: the invariant that every
\* operation keeps.
TreeInv == OwnershipExact /\ NothingDangles

\* The structure is a forest: no node owns, through whatever chain of fields and
\* lists, a node that owns it.  So visitors and recursive destructors end, and none
\* of them meets a node twice.
Acyclic == \A p, c \in Obj : OwnsIn(p, c) => p \notin Subtree(c)

\* The same, seen from below: the loops along getParent() end.
ClimbEnds == \A o \in live : GetParent(o) # NULL => o \notin Ancestors(GetParent(o))

\* Climbing getParent() from x meets p exactly when a walk down from p meets x:
\* isSubNode, which climbs, answers the question about what p owns.
UpAgreesWithDown == \A x, p \in live : IsSubNode(x, p) <=> x \in Subtree(p)

-----------------------------------------------------------------------------
(***************************************************************************)
(* HifTree implements HifForest: read the contents of the fields and of    *)
(* the lists, and forget _parent, _field and _parentlink.                  *)
(***************************************************************************)
Holds(p, o) == IF p \in Slot THEN child[p] = o ELSE o \in members[p]
Content     == {x \in Obj \X (Slot \cup List) : Holds(x[2], x[1])}

Owner == [p \in Slot \cup List |-> IF p \in Slot THEN SlotOwner[p] ELSE ListOwner[p]]

Forest == INSTANCE HifForest
              WITH Node <- Obj, Field <- Slot, OwnerOf <- Owner, nodes <- live, at <- Content

\* Every operation moves exactly the nodes it says, and each of them to one place:
\* setChild of a node that is in another field or in a list takes it out of there,
\* replace puts other where this was and detaches this, a delete takes exactly the
\* subtree.
ImplementsForest == Forest!Spec
=============================================================================
