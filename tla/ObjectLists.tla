---------------------------- MODULE ObjectLists ----------------------------
(***************************************************************************)
(* What a family of BLists promises its clients                            *)
(* (include/hif/classes/BListHost.hpp): each list is a finite sequence of  *)
(* objects, an object is in at most one of them, and a client walking a    *)
(* list holds a cursor that stands on an element or at the end.  Links,    *)
(* heads, tails and back pointers do not appear: BList is the linked       *)
(* structure that has to implement this.                                   *)
(***************************************************************************)
EXTENDS Naturals, SequencesExt

CONSTANTS Obj,      \* the objects that can be allocated
          List,     \* the lists
          NULL      \* the null pointer, and the cursor at the end

VARIABLES live,     \* the allocated objects
          lists,    \* the content of each list
          cur       \* the element a client's cursor stands on

vars == <<live, lists, cur>>

Elements(L) == {lists[L][i] : i \in DOMAIN lists[L]}
Attached    == UNION {Elements(L) : L \in List}
Detached    == live \ Attached
ListOf(o)   == CHOOSE L \in List : o \in Elements(L)
PosOf(o)    == CHOOSE i \in DOMAIN lists[ListOf(o)] : lists[ListOf(o)][i] = o

\* The neighbours of an attached object; NULL at either end.
After(o)  == LET s == lists[ListOf(o)] IN IF PosOf(o) = Len(s) THEN NULL ELSE s[PosOf(o) + 1]
Before(o) == LET s == lists[ListOf(o)] IN IF PosOf(o) = 1 THEN NULL ELSE s[PosOf(o) - 1]

Without(o) == [lists EXCEPT ![ListOf(o)] = RemoveAt(@, PosOf(o))]
With(L, i, o) == [lists EXCEPT ![L] = InsertAt(@, i, o)]

Init == live = {} /\ lists = [L \in List |-> <<>>] /\ cur = NULL

Create(o) == o \notin live /\ live' = live \cup {o} /\ UNCHANGED <<lists, cur>>
Delete(o) == o \in Detached /\ live' = live \ {o} /\ UNCHANGED <<lists, cur>>

\* The cursor is placed, or moves one step.  On a detached object it is at the end.
First(L) == cur' = (IF lists[L] = <<>> THEN NULL ELSE Head(lists[L])) /\ UNCHANGED <<live, lists>>
Final(L) == cur' = (IF lists[L] = <<>> THEN NULL ELSE Last(lists[L])) /\ UNCHANGED <<live, lists>>
At(o)    == o \in live /\ cur' = (IF o \in Attached THEN o ELSE NULL) /\ UNCHANGED <<live, lists>>
Forth    == cur # NULL /\ cur' = After(cur) /\ UNCHANGED <<live, lists>>
Back     == cur # NULL /\ cur' = Before(cur) /\ UNCHANGED <<live, lists>>

\* A detached object enters a list; the cursor stays on its element.
Insert(o) ==
    /\ o \in Detached
    /\ \E L \in List : \E i \in 1 .. Len(lists[L]) + 1 : lists' = With(L, i, o)
    /\ UNCHANGED <<live, cur>>

\* The element under the cursor leaves, deleted or not, and the cursor moves
\* to a neighbour it had.
Leave(to, alive) ==
    /\ cur # NULL
    /\ lists' = Without(cur)
    /\ cur' = to
    /\ live' = alive

\* Another object takes the place of the one under the cursor.
Assign(o) ==
    /\ cur # NULL /\ o \in Detached
    /\ lists' = [lists EXCEPT ![ListOf(cur)] = [@ EXCEPT ![PosOf(cur)] = o]]
    /\ cur' = o
    /\ UNCHANGED live

\* An object leaves its list while the cursor is elsewhere.
Release(o) == o \in Attached \ {cur} /\ lists' = Without(o) /\ UNCHANGED <<live, cur>>
Destroy(o) == o \in Attached \ {cur} /\ lists' = Without(o) /\ live' = live \ {o} /\ UNCHANGED cur

\* A list is emptied, its objects deleted or not.
Empty(L, alive) ==
    /\ cur \notin Elements(L)
    /\ lists' = [lists EXCEPT ![L] = <<>>]
    /\ live' = alive
    /\ UNCHANGED cur

Merge(L, x) ==
    /\ L # x
    /\ lists' = [lists EXCEPT ![L] = @ \o lists[x], ![x] = <<>>]
    /\ UNCHANGED <<live, cur>>

\* Two elements trade places.  A cursor keeps its place, not its element.
Exchange(a, b) ==
    LET swapped(e) == CASE e = a -> b [] e = b -> a [] OTHER -> e
    IN  /\ {a, b} \subseteq Attached
        /\ lists' = [L \in List |-> [i \in DOMAIN lists[L] |-> swapped(lists[L][i])]]
        /\ cur' = swapped(cur)
        /\ UNCHANGED live

Next ==
    \/ \E o \in Obj : Create(o) \/ Delete(o) \/ At(o) \/ Insert(o) \/ Assign(o)
                      \/ Release(o) \/ Destroy(o)
    \/ \E L \in List : First(L) \/ Final(L) \/ Empty(L, live) \/ Empty(L, live \ Elements(L))
    \/ Forth \/ Back
    \/ \E alive \in {live, live \ {cur}} :
          cur # NULL /\ (Leave(After(cur), alive) \/ Leave(Before(cur), alive))
    \/ \E L, x \in List : Merge(L, x)
    \/ \E a, b \in Obj : Exchange(a, b)

Spec == Init /\ [][Next]_vars
=============================================================================
