------------------------------- MODULE Trash -------------------------------
(***************************************************************************)
(* hif::Trash (src/src/trash.cpp) over a HIF tree.  A visitor that may not *)
(* delete the node it stands on puts it in a trash, goes on changing the   *)
(* tree, and has the trash cleared later, perhaps while a point `where' of *)
(* the tree is still in use.                                               *)
(*                                                                         *)
(* clear() is a loop over a std::set<Object *>: it takes the element with  *)
(* the smallest address, so the order is any order.  One iteration is one  *)
(* step.  start and doomed are history variables: what the trash held when *)
(* the running clear() was called, and everything below it.                *)
(*                                                                         *)
(* Asked of the client: a node in the trash is deleted by the trash only,  *)
(* and is not an element of a free-standing list when clear() is called    *)
(* (replace(nullptr) does nothing there, see HifTree).                     *)
(***************************************************************************)
EXTENDS HifTree

VARIABLES
    holder,      \* Trash::_holder
    clearing,    \* clear() is running
    tmpTrash,    \* its local tmpTrash
    where,       \* its argument
    start, doomed

trashVars == <<holder, clearing, tmpTrash, where, start, doomed>>
allVars   == <<live, child, members, field, parent, inlist,
               holder, clearing, tmpTrash, where, start, doomed>>

TrashInit ==
    /\ Init
    /\ holder = {} /\ clearing = FALSE /\ tmpTrash = {} /\ where = NULL
    /\ start = {} /\ doomed = {}

\* The client changes the tree.
ChangeTree ==
    /\ ~clearing /\ Next /\ holder \subseteq live'
    /\ UNCHANGED trashVars

\* insert(Object *)
Throw(o) ==
    /\ ~clearing /\ o \in live
    /\ holder' = holder \cup {o}
    /\ UNCHANGED <<vars, clearing, tmpTrash, where, start, doomed>>

\* Mutant: the list itself is thrown in for its elements.
ThrowListItself(L) ==
    /\ ~clearing /\ Release(L, members[L])
    /\ holder' = holder \cup {L}
    /\ UNCHANGED <<clearing, tmpTrash, where, start, doomed>>

\* insert(BList &): the elements also leave the list.
ThrowList(L) ==
    /\ ~clearing /\ Release(L, members[L])
    /\ holder' = holder \cup members[L]
    /\ UNCHANGED <<clearing, tmpTrash, where, start, doomed>>

\* remove(o) and reset() forget nodes without deleting them.
Forget(o) ==
    /\ ~clearing /\ o \in holder
    /\ holder' = holder \ {o}
    /\ UNCHANGED <<vars, clearing, tmpTrash, where, start, doomed>>

Reset ==
    /\ ~clearing /\ holder' = {}
    /\ UNCHANGED <<vars, clearing, tmpTrash, where, start, doomed>>

-----------------------------------------------------------------------------
\* clear(w): ~Trash calls it with w = nullptr.
StartClear(w) ==
    /\ ~clearing
    /\ w # NULL => w \in live
    /\ \A o \in holder : inlist[o] # NULL => ListOwner[inlist[o]] # NULL
    /\ clearing' = TRUE /\ where' = w /\ tmpTrash' = {}
    /\ start' = holder /\ doomed' = UNION {Subtree(o) : o \in holder}
    /\ UNCHANGED <<vars, holder>>

\* Mutant: isSubNode with its arguments swapped.
KeepBelow(o) ==
    /\ IsSubNode(o, where)
    /\ tmpTrash' = tmpTrash \cup {o}
    /\ holder' = holder \ {o}
    /\ UNCHANGED vars

\* Mutant: the node is not taken out of the holder first.
KeepInHolder(o) ==
    /\ IsSubNode(where, o)
    /\ tmpTrash' = tmpTrash \cup {o}
    /\ UNCHANGED <<vars, holder>>

\* The node in use is in the subtree of o: o is kept for a later clear().
Keep(o) ==
    /\ IsSubNode(where, o)
    /\ tmpTrash' = tmpTrash \cup {o}
    /\ holder' = holder \ {o}
    /\ UNCHANGED vars

\* Mutant: a node is left out when a thrown node is below it.
LeaveToDescendant(o) ==
    /\ \E tmp \in holder \ {o} : IsSubNode(tmp, o)
    /\ holder' = holder \ {o}
    /\ UNCHANGED <<vars, tmpTrash>>

\* An ancestor of o is still to come: o will be deleted with it.
LeaveToAncestor(o) ==
    /\ \E tmp \in holder \ {o} : IsSubNode(o, tmp)
    /\ \E seen \in SUBSET {tmp \in holder \ {o} : IsSubNode(tmp, o) /\ ~IsSubNode(o, tmp)} :
          holder' = holder \ (seen \cup {o})
    /\ UNCHANGED <<vars, tmpTrash>>

\* Mutant: o is deleted in its place.
SlotsWith(o) == child

\* o->replace(nullptr): the place of o is emptied, if o has a parent.
SlotsWithout(o) == IF inlist[o] = NULL /\ GetParent(o) # NULL
                   THEN [child EXCEPT ![field[o]] = NULL] ELSE child
ListsWithout(o) == IF inlist[o] # NULL /\ GetParent(o) # NULL
                   THEN [members EXCEPT ![inlist[o]] = @ \ {o}] ELSE members

\* Mutant: what the trash holds below o stays in it.
ReclaimOneNode(o) ==
    /\ \A tmp \in holder \ {o} : ~IsSubNode(o, tmp)
    /\ holder' = holder \ {o}
    /\ Destroy(Subtree(o), SlotsWithout(o), ListsWithout(o))
    /\ UNCHANGED tmpTrash

\* Mutant: the list of o is cleared, with the elements nobody has thrown.
ReclaimList(o) ==
    /\ \A tmp \in holder \ {o} : ~IsSubNode(o, tmp)
    /\ LET gone == {o} \cup (IF inlist[o] = NULL THEN {} ELSE members[inlist[o]])
           D    == UNION {Subtree(x) : x \in gone}
       IN  /\ holder' = holder \ D
           /\ Destroy(D, SlotsWithout(o), [L \in List |-> members[L] \ gone])
    /\ UNCHANGED tmpTrash

\* o leaves the tree and is deleted; what the trash holds below o is dropped from
\* it first.
Reclaim(o) ==
    /\ \A tmp \in holder \ {o} : ~IsSubNode(o, tmp)
    /\ holder' = {tmp \in holder : ~IsSubNode(tmp, o)}
    /\ Destroy(Subtree(o), SlotsWithout(o), ListsWithout(o))
    /\ UNCHANGED tmpTrash

\* Mutant: the node in use is not looked at.
ClearAnyway ==
    /\ clearing
    /\ \E o \in holder : LeaveToAncestor(o) \/ Reclaim(o)
    /\ UNCHANGED <<clearing, where, start, doomed>>

ClearStep ==
    /\ clearing
    /\ \E o \in holder : Keep(o) \/ (~IsSubNode(where, o) /\ (LeaveToAncestor(o) \/ Reclaim(o)))
    /\ UNCHANGED <<clearing, where, start, doomed>>

EndClear ==
    /\ clearing /\ holder = {}
    /\ clearing' = FALSE /\ holder' = tmpTrash /\ tmpTrash' = {} /\ where' = NULL
    /\ start' = {} /\ doomed' = {}
    /\ UNCHANGED vars

TrashNext ==
    \/ ChangeTree
    \/ \E o \in Obj : Throw(o) \/ Forget(o)
    \/ \E L \in List : ThrowList(L)
    \/ \E w \in Obj \cup {NULL} : StartClear(w)
    \/ Reset \/ ClearStep \/ EndClear

\* A running clear() goes on: the program is sequential and nothing blocks.
TrashSpec == TrashInit /\ [][TrashNext]_allVars /\ WF_allVars(ClearStep \/ EndClear)
-----------------------------------------------------------------------------
TrashTypeOK ==
    /\ TypeOK
    /\ holder \in SUBSET Obj /\ tmpTrash \in SUBSET Obj /\ clearing \in BOOLEAN
    /\ where \in Obj \cup {NULL} /\ start \in SUBSET Obj /\ doomed \in SUBSET Obj

\* Deleting the trash leaves no field or list of the remaining tree referring to a
\* deleted node, and the trash holds none, not even between two iterations of clear():
\* isSubNode on what is left in it never climbs from freed memory.
TreeSound == TreeInv /\ holder \cup tmpTrash \subseteq live

\* The node in use and everything above it survive clear(where).
WhereSurvives == clearing /\ where # NULL => Ancestors(where) \subseteq live

\* clear() deletes nothing but the thrown nodes and what is below them.
OnlyThrownDie == [][ClearStep => live \ live' \subseteq doomed]_allVars

\* clear() without a node in use deletes every thrown node with its subtree,
\* whatever the addresses and however thrown nodes are nested in each other; what
\* clear(where) leaves in the trash is what it could not delete: where and its
\* ancestors.
ClearExact ==
    [][EndClear =>
          /\ where = NULL => doomed \cap live = {} /\ holder' = {}
          /\ \A o \in holder' : IsSubNode(where, o)]_allVars

\* clear() ends.
ClearEnds == clearing ~> ~clearing
=============================================================================
