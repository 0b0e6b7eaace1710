------------------------------- MODULE BList -------------------------------
(***************************************************************************)
(* The intrusive doubly linked list of hif-core: BListHost, its BLinks and *)
(* its iterator (src/src/BListHost.cpp).  A list has a _head and a _tail   *)
(* link; a link knows its neighbours, its list and its element; an object  *)
(* knows the link that holds it (_parentlink).  A client walks the lists   *)
(* with one iterator, which is a bare pointer to a link.                   *)
(*                                                                         *)
(* A link that is not allocated has all its fields NULL, as the debug      *)
(* build's ~BLink leaves them.                                             *)
(*                                                                         *)
(* Two things are asked of the client, as the code's callers do: an object *)
(* given to an inserting operation is in no list, and a link is not        *)
(* deleted through the list while the iterator stands on it.               *)
(***************************************************************************)
EXTENDS Naturals, FiniteSets, Sequences

CONSTANTS Obj, Link, List, NULL

ASSUME NullAssumption == NULL \notin Obj /\ NULL \notin Link /\ NULL \notin List

VARIABLES
    head, tail,                         \* of a list
    next, prev, parentlist, element,    \* of a link
    parentlink,                         \* of an object: Object::_parentlink
    live,                               \* the objects that are allocated
    iter                                \* the client's iterator::_link

listVars == <<head, tail>>
linkVars == <<next, prev, parentlist, element>>
vars     == <<head, tail, next, prev, parentlist, element, parentlink, live, iter>>

Allocated == {l \in Link : parentlist[l] # NULL}
Free      == Link \ Allocated
Detached  == {o \in live : parentlink[o] = NULL}

\* The links a walk from _head along next visits: the least set that holds
\* _head and is closed under next.
Closed(S)  == \A l \in S : next[l] # NULL => next[l] \in S
Chain(L)   == {l \in Link : \A S \in SUBSET Link :
                    head[L] # NULL /\ head[L] \in S /\ Closed(S) => l \in S}
ChainOf(L) == IF head[L] = NULL THEN {} ELSE Chain(L)

Init ==
    /\ head = [L \in List |-> NULL] /\ tail = [L \in List |-> NULL]
    /\ next = [l \in Link |-> NULL] /\ prev = [l \in Link |-> NULL]
    /\ parentlist = [l \in Link |-> NULL] /\ element = [l \in Link |-> NULL]
    /\ parentlink = [o \in Obj |-> NULL]
    /\ live = {}
    /\ iter = NULL

-----------------------------------------------------------------------------
\* removeFromList(), and the four pointers it writes.

NextWithout(l) == [k \in Link |-> IF k = l THEN NULL
                                  ELSE IF k = prev[l] THEN next[l] ELSE next[k]]

\* Mutant: the successor keeps its prev.
PrevNotMended(l) == [prev EXCEPT ![l] = NULL]

PrevWithout(l) == [k \in Link |-> IF k = l THEN NULL
                                  ELSE IF k = next[l] THEN prev[l] ELSE prev[k]]
HeadWithout(l) == IF head[parentlist[l]] = l
                  THEN [head EXCEPT ![parentlist[l]] = next[l]] ELSE head
TailWithout(l) == IF tail[parentlist[l]] = l
                  THEN [tail EXCEPT ![parentlist[l]] = prev[l]] ELSE tail

\* The link leaves its list and is deleted.
RemoveFromList(l) ==
    /\ next' = NextWithout(l) /\ prev' = PrevWithout(l)
    /\ head' = HeadWithout(l) /\ tail' = TailWithout(l)
    /\ parentlist' = [parentlist EXCEPT ![l] = NULL]
    /\ element' = [element EXCEPT ![l] = NULL]

\* The element is released to the caller ...
RemoveLink(l) ==
    /\ RemoveFromList(l)
    /\ parentlink' = [parentlink EXCEPT ![element[l]] = NULL]
    /\ UNCHANGED live

\* ... or deleted with its link (~BLink).
EraseLink(l) ==
    /\ RemoveFromList(l)
    /\ parentlink' = [parentlink EXCEPT ![element[l]] = NULL]
    /\ live' = live \ {element[l]}

\* A new link l for o, in list L, between p and n.
NewLink(l, o, L, p, n) ==
    /\ next' = [k \in Link |-> IF k = l THEN n ELSE IF k = p THEN l ELSE next[k]]
    /\ prev' = [k \in Link |-> IF k = l THEN p ELSE IF k = n THEN l ELSE prev[k]]
    /\ parentlist' = [parentlist EXCEPT ![l] = L]
    /\ element' = [element EXCEPT ![l] = o]
    /\ parentlink' = [parentlink EXCEPT ![o] = l]
    /\ UNCHANGED live

-----------------------------------------------------------------------------
\* Operations of the list.

New(o) ==
    /\ o \notin live /\ live' = live \cup {o}
    /\ UNCHANGED <<listVars, linkVars, parentlink, iter>>

Delete(o) ==
    /\ o \in Detached /\ live' = live \ {o}
    /\ UNCHANGED <<listVars, linkVars, parentlink, iter>>

PushFront(L, o) ==
    /\ o \in Detached
    /\ \E l \in Free :
        /\ NewLink(l, o, L, NULL, head[L])
        /\ head' = [head EXCEPT ![L] = l]
        /\ tail' = (IF head[L] = NULL THEN [tail EXCEPT ![L] = l] ELSE tail)
    /\ UNCHANGED iter

PushBack(L, o) ==
    /\ o \in Detached
    /\ \E l \in Free :
        /\ NewLink(l, o, L, tail[L], NULL)
        /\ tail' = [tail EXCEPT ![L] = l]
        /\ head' = (IF tail[L] = NULL THEN [head EXCEPT ![L] = l] ELSE head)
    /\ UNCHANGED iter

\* remove(o) and erase(o) search the list and do nothing when o is not in it.
Remove(L, o) ==
    /\ \E l \in ChainOf(L) : element[l] = o /\ l # iter /\ RemoveLink(l)
    /\ UNCHANGED iter

Erase(L, o) ==
    /\ \E l \in ChainOf(L) : element[l] = o /\ l # iter /\ EraseLink(l)
    /\ UNCHANGED iter

\* Every link of list L is deleted, and the list left empty.
DropChain(L) ==
    LET C == ChainOf(L)
    IN  /\ iter \notin C
        /\ next' = [l \in Link |-> IF l \in C THEN NULL ELSE next[l]]
        /\ prev' = [l \in Link |-> IF l \in C THEN NULL ELSE prev[l]]
        /\ parentlist' = [l \in Link |-> IF l \in C THEN NULL ELSE parentlist[l]]
        /\ element' = [l \in Link |-> IF l \in C THEN NULL ELSE element[l]]
        /\ parentlink' = [o \in Obj |-> IF parentlink[o] \in C THEN NULL ELSE parentlink[o]]
        /\ head' = [head EXCEPT ![L] = NULL] /\ tail' = [tail EXCEPT ![L] = NULL]
        /\ UNCHANGED iter

RemoveAll(L) == DropChain(L) /\ UNCHANGED live
Clear(L)     == DropChain(L) /\ live' = {o \in live : parentlink[o] \notin ChainOf(L)}

\* Mutant: the handed links keep their old list.
MergeKeepsParentlist(L, x) ==
    /\ L # x
    /\ next' = (IF tail[L] = NULL THEN next ELSE [next EXCEPT ![tail[L]] = head[x]])
    /\ prev' = (IF tail[L] = NULL \/ head[x] = NULL THEN prev
                ELSE [prev EXCEPT ![head[x]] = tail[L]])
    /\ head' = [head EXCEPT ![L] = IF tail[L] = NULL THEN head[x] ELSE @, ![x] = NULL]
    /\ tail' = [tail EXCEPT ![L] = IF head[x] = NULL THEN @ ELSE tail[x], ![x] = NULL]
    /\ UNCHANGED <<parentlist, element, parentlink, live, iter>>

\* Mutant: the last link of L is not chained to the first of x.
MergeUnchained(L, x) ==
    /\ L # x
    /\ parentlist' = [l \in Link |-> IF l \in ChainOf(x) THEN L ELSE parentlist[l]]
    /\ head' = [head EXCEPT ![L] = IF tail[L] = NULL THEN head[x] ELSE @, ![x] = NULL]
    /\ tail' = [tail EXCEPT ![L] = IF head[x] = NULL THEN @ ELSE tail[x], ![x] = NULL]
    /\ UNCHANGED <<next, prev, element, parentlink, live, iter>>

\* Mutant: x is not emptied.
MergeKeepsSource(L, x) ==
    /\ L # x
    /\ parentlist' = [l \in Link |-> IF l \in ChainOf(x) THEN L ELSE parentlist[l]]
    /\ next' = (IF tail[L] = NULL THEN next ELSE [next EXCEPT ![tail[L]] = head[x]])
    /\ prev' = (IF tail[L] = NULL \/ head[x] = NULL THEN prev
                ELSE [prev EXCEPT ![head[x]] = tail[L]])
    /\ head' = [head EXCEPT ![L] = IF tail[L] = NULL THEN head[x] ELSE @]
    /\ tail' = [tail EXCEPT ![L] = IF head[x] = NULL THEN @ ELSE tail[x]]
    /\ UNCHANGED <<element, parentlink, live, iter>>

\* The links of x are handed to the end of L.
Merge(L, x) ==
    /\ L # x
    /\ parentlist' = [l \in Link |-> IF l \in ChainOf(x) THEN L ELSE parentlist[l]]
    /\ next' = (IF tail[L] = NULL THEN next ELSE [next EXCEPT ![tail[L]] = head[x]])
    /\ prev' = (IF tail[L] = NULL \/ head[x] = NULL THEN prev
                ELSE [prev EXCEPT ![head[x]] = tail[L]])
    /\ head' = [head EXCEPT ![L] = IF tail[L] = NULL THEN head[x] ELSE @, ![x] = NULL]
    /\ tail' = [tail EXCEPT ![L] = IF head[x] = NULL THEN @ ELSE tail[x], ![x] = NULL]
    /\ UNCHANGED <<element, parentlink, live, iter>>

\* BLink::swap: the links stay where they are and exchange their elements.
Swap(a, b) ==
    /\ a \in Allocated /\ b \in Allocated
    /\ element' = [element EXCEPT ![a] = element[b], ![b] = element[a]]
    /\ parentlink' = [parentlink EXCEPT ![element[a]] = b, ![element[b]] = a]
    /\ UNCHANGED <<listVars, next, prev, parentlist, live, iter>>

-----------------------------------------------------------------------------
\* Operations of the iterator.

\* Mutant: the iterator takes the element for a link, as a cast of void * allows.
BeginAtElement(L) ==
    /\ iter' = (IF head[L] = NULL THEN NULL ELSE element[head[L]])
    /\ UNCHANGED <<listVars, linkVars, parentlink, live>>

Begin(L)      == iter' = head[L] /\ UNCHANGED <<listVars, linkVars, parentlink, live>>
RBegin(L)     == iter' = tail[L] /\ UNCHANGED <<listVars, linkVars, parentlink, live>>
IteratorOf(o) ==
    /\ o \in live /\ iter' = parentlink[o]
    /\ UNCHANGED <<listVars, linkVars, parentlink, live>>
Increment ==
    /\ iter # NULL /\ iter' = next[iter]
    /\ UNCHANGED <<listVars, linkVars, parentlink, live>>
Decrement ==
    /\ iter # NULL /\ iter' = prev[iter]
    /\ UNCHANGED <<listVars, linkVars, parentlink, live>>

\* Mutant: the iterator is left on the link that is deleted.
IterEraseStays == iter # NULL /\ EraseLink(iter) /\ iter' = iter

IterErase   == iter # NULL /\ EraseLink(iter) /\ iter' = next[iter]

\* Mutant: rerase() goes on in the direction of erase().
IterREraseForth == iter # NULL /\ EraseLink(iter) /\ iter' = next[iter]

IterRErase  == iter # NULL /\ EraseLink(iter) /\ iter' = prev[iter]
IterRemove  == iter # NULL /\ RemoveLink(iter) /\ iter' = next[iter]
IterRRemove == iter # NULL /\ RemoveLink(iter) /\ iter' = prev[iter]

\* Mutant: the old element keeps its _parentlink.
IterAssignKeepsOld(o) ==
    /\ iter # NULL /\ o \in Detached
    /\ element' = [element EXCEPT ![iter] = o]
    /\ parentlink' = [parentlink EXCEPT ![o] = iter]
    /\ UNCHANGED <<listVars, next, prev, parentlist, live, iter>>

\* *i = o: the link changes its element, the old element is released.
IterAssign(o) ==
    /\ iter # NULL /\ o \in Detached
    /\ element' = [element EXCEPT ![iter] = o]
    /\ parentlink' = [parentlink EXCEPT ![element[iter]] = NULL, ![o] = iter]
    /\ UNCHANGED <<listVars, next, prev, parentlist, live, iter>>

\* Mutant: _tail is not moved.
InsertAfterKeepsTail(o) ==
    /\ iter # NULL /\ o \in Detached
    /\ \E l \in Free : NewLink(l, o, parentlist[iter], iter, next[iter])
    /\ UNCHANGED <<head, tail, iter>>

InsertAfter(o) ==
    /\ iter # NULL /\ o \in Detached
    /\ \E l \in Free :
        /\ NewLink(l, o, parentlist[iter], iter, next[iter])
        /\ tail' = (IF tail[parentlist[iter]] = iter
                    THEN [tail EXCEPT ![parentlist[iter]] = l] ELSE tail)
    /\ UNCHANGED <<head, iter>>

InsertBefore(o) ==
    /\ iter # NULL /\ o \in Detached
    /\ \E l \in Free :
        /\ NewLink(l, o, parentlist[iter], prev[iter], iter)
        /\ head' = (IF head[parentlist[iter]] = iter
                    THEN [head EXCEPT ![parentlist[iter]] = l] ELSE head)
    /\ UNCHANGED <<tail, iter>>

-----------------------------------------------------------------------------
Next ==
    \/ \E o \in Obj : New(o) \/ Delete(o) \/ IteratorOf(o) \/ IterAssign(o)
                      \/ InsertAfter(o) \/ InsertBefore(o)
    \/ \E L \in List, o \in Obj :
          PushFront(L, o) \/ PushBack(L, o) \/ Remove(L, o) \/ Erase(L, o)
    \/ \E L \in List : RemoveAll(L) \/ Clear(L) \/ Begin(L) \/ RBegin(L)
    \/ \E L, x \in List : Merge(L, x)
    \/ \E a, b \in Link : Swap(a, b)
    \/ Increment \/ Decrement \/ IterErase \/ IterRErase \/ IterRemove \/ IterRRemove

Spec == Init /\ [][Next]_vars

\* BListHost::swap(other), which operator= also ends with: the lists exchange their
\* ends and nothing else.  Nothing in the library calls either, so Next leaves it out.
SwapContents(L, x) ==
    /\ head' = [head EXCEPT ![L] = head[x], ![x] = head[L]]
    /\ tail' = [tail EXCEPT ![L] = tail[x], ![x] = tail[L]]
    /\ UNCHANGED <<linkVars, parentlink, live, iter>>

SwapSpec == Init /\ [][Next \/ \E L, x \in List : SwapContents(L, x)]_vars

-----------------------------------------------------------------------------
\* Every pointer has the type the headers declare: a list's ends are links, a
\* link's list is a list, an object's _parentlink is a link.
TypeOK ==
    /\ head \in [List -> Link \cup {NULL}] /\ tail \in [List -> Link \cup {NULL}]
    /\ next \in [Link -> Link \cup {NULL}] /\ prev \in [Link -> Link \cup {NULL}]
    /\ parentlist \in [Link -> List \cup {NULL}]
    /\ element \in [Link -> Obj \cup {NULL}]
    /\ parentlink \in [Obj -> Link \cup {NULL}]
    /\ live \in SUBSET Obj
    /\ iter \in Link \cup {NULL}

\* Link and element know each other: an allocated link holds a live object whose
\* _parentlink is that link, and an object's _parentlink is a link that holds it.
\* So no object is in two links, and none of the insertions, removals, swaps and
\* assignments through an iterator leaves a dangling _parentlink.
ElementsExact ==
    /\ \A l \in Allocated : element[l] \in live /\ parentlink[element[l]] = l
    /\ \A l \in Free : element[l] = NULL /\ next[l] = NULL /\ prev[l] = NULL
    /\ \A o \in Obj : parentlink[o] # NULL =>
          parentlink[o] \in Allocated /\ element[parentlink[o]] = o

\* next and prev mirror each other and never leave the list.
LinksMirror ==
    \A l \in Allocated :
        /\ next[l] # NULL => prev[next[l]] = l /\ parentlist[next[l]] = parentlist[l]
        /\ prev[l] # NULL => next[prev[l]] = l /\ parentlist[prev[l]] = parentlist[l]

\* _head and _tail are the links of the list with no predecessor and no
\* successor, and are NULL together.
EndsExact ==
    /\ \A L \in List :
        /\ head[L] # NULL => parentlist[head[L]] = L /\ prev[head[L]] = NULL
        /\ tail[L] # NULL => parentlist[tail[L]] = L /\ next[tail[L]] = NULL
        /\ head[L] = NULL <=> tail[L] = NULL
    /\ \A l \in Allocated :
        /\ prev[l] = NULL => head[parentlist[l]] = l
        /\ next[l] = NULL => tail[parentlist[l]] = l

\* A walk from _head reaches every link of the list: no link that is still
\* somebody's _parentlink has been cut off, by a merge or by an erase in the
\* middle of a loop.
WalkComplete == \A l \in Allocated : l \in ChainOf(parentlist[l])

\* The iterator stands at the end or on an allocated link, whatever was erased,
\* removed or assigned under it: a loop `i = i.erase()' never reads freed memory.
IteratorValid == iter # NULL => iter \in Allocated

\* "Returns the BList containing the object" (Object.hpp on getBList()): the elements a
\* walk of list L meets have L as their list.
GetBListExact == \A L \in List : \A l \in ChainOf(L) : parentlist[l] = L

\* A list is whole at every moment: the five together, the invariant that every
\* operation keeps.
ListInv == ElementsExact /\ LinksMirror /\ EndsExact /\ WalkComplete /\ IteratorValid

-----------------------------------------------------------------------------
(***************************************************************************)
(* BList implements ObjectLists: reading the links of each list from _head *)
(* along next gives the sequence the client sees, and the link under the   *)
(* iterator gives the element its cursor stands on.                        *)
(***************************************************************************)
\* The links of L in the order of a walk from _head along next.
Walk(L) ==
    LET at[n \in 1 .. Cardinality(ChainOf(L))] == IF n = 1 THEN head[L] ELSE next[at[n - 1]]
    IN  at

Content(L) == LET s == Walk(L) IN [i \in DOMAIN s |-> element[s[i]]]
Contents   == [L \in List |-> Content(L)]
Cursor     == IF iter = NULL THEN NULL ELSE element[iter]

Abstract == INSTANCE ObjectLists
                WITH lists <- Contents, cur <- Cursor

\* Every operation of the pointer structure has the effect its sequence
\* operation has, on the lists and on the element the client's iterator is on:
\* in particular erase() and remove() leave it on the following element,
\* rerase() and rremove() on the preceding one, and merge() appends in order.
ImplementsLists == Abstract!Spec

\* Which operation has which effect: the two ends, the two sides of the iterator, and
\* the neighbour erase() and rerase() leave it on are not confused.
OperationsExact ==
    [][/\ \A L \in List, o \in Obj :
             /\ PushFront(L, o) => Content(L)' = <<o>> \o Content(L)
             /\ PushBack(L, o) => Content(L)' = Append(Content(L), o)
       /\ \A o \in Obj :
             /\ InsertAfter(o) => Abstract!After(Cursor)' = o
             /\ InsertBefore(o) => Abstract!Before(Cursor)' = o
       /\ IterErase \/ IterRemove => Cursor' = Abstract!After(Cursor)
       /\ IterRErase \/ IterRRemove => Cursor' = Abstract!Before(Cursor)]_vars
=============================================================================
