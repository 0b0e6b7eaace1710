----------------------------- MODULE ListLoops -----------------------------
(***************************************************************************)
(* The operations of BListHost and Object that change a list inside a loop *)
(* over it: splicing a list in after or before an iterator,                *)
(* replaceWithList, remove_dopplegangers, removeSubTree, eraseSubTree, and *)
(* insert at a position.  Here a list is the sequence of its elements      *)
(* (BList shows that the links implement sequences) and one turn of a loop *)
(* is one step, so that what an iterator stands on after a removal or an   *)
(* insertion is explicit.                                                  *)
(*                                                                         *)
(* The elements of the list are numbered 1 .. size, those of the list that *)
(* is spliced in size + 1 and on.                                          *)
(***************************************************************************)
EXTENDS Naturals, SequencesExt

CONSTANTS MaxList, MaxSrc       \* bounds on the two lists

ASSUME LoopAssumption == MaxList \in Nat /\ MaxSrc \in Nat

Classes == 1 .. MaxList         \* enough to make any elements equal

Ops == {"insert_after", "insert_before", "replaceWithList", "remove_dopplegangers",
        "removeSubTree", "eraseSubTree", "insert"}

VARIABLES
    op,          \* the operation
    old, oldSrc, \* history: the lists before
    list, src,   \* the list that is changed, and the one that is spliced in
    place,       \* where the operation was called: the iterator, this, the element that
                 \* holds the subtree (0: none does), or the position (from 0)
    class,       \* hif::equals: the elements of one class are equal
    i, j,        \* the loops' iterators: positions in list; past the last is end()
    status       \* "run", "done", or "exit": messageError

inputs == <<op, old, oldSrc, place, class>>
vars   == <<op, old, oldSrc, list, src, place, class, i, j, status>>

Splices == {"insert_after", "insert_before", "replaceWithList"}

Init ==
    /\ op \in Ops
    /\ \E n \in 0 .. MaxList, m \in 0 .. MaxSrc :
          /\ old = [k \in 1 .. n |-> k] /\ oldSrc = [k \in 1 .. m |-> n + k]
          /\ op \in Splices => n > 0
          /\ op = "insert" => m = 1
          /\ op \notin Splices \cup {"insert"} => m = 0
          /\ place \in (CASE op \in Splices             -> 1 .. n
                          [] op = "insert"              -> 0 .. n + 1
                          [] op = "remove_dopplegangers" -> {0}
                          [] OTHER                      -> 0 .. n)
          /\ class \in (IF op = "remove_dopplegangers" THEN [1 .. n -> Classes]
                        ELSE {[k \in 1 .. n |-> 1]})
    /\ list = old /\ src = oldSrc
    /\ i = (IF op \in Splices THEN place ELSE 1)
    /\ j = 2
    /\ status = "run"

Running(o) == status = "run" /\ op = o
Finish     == status' = "done" /\ UNCHANGED <<inputs, list, src, i, j>>

-----------------------------------------------------------------------------
\* Mutant: the element is not removed from src.
SpliceCopy ==
    /\ src # <<>>
    /\ list' = InsertAt(list, i + 1, Last(src))
    /\ UNCHANGED <<inputs, src, i, j, status>>

\* iterator::insert_after(list): the back of src goes after the iterator.
SpliceAfter ==
    /\ src # <<>>
    /\ list' = InsertAt(list, i + 1, Last(src)) /\ src' = Front(src)
    /\ UNCHANGED <<inputs, i, j, status>>

InsertAfter == Running("insert_after") /\ (SpliceAfter \/ (src = <<>> /\ Finish))

\* Mutant: the iterator does not move with its element.
InsertBeforeStays ==
    /\ Running("insert_before")
    /\ \/ /\ src # <<>>
          /\ list' = InsertAt(list, i, Head(src)) /\ src' = Tail(src)
          /\ UNCHANGED <<inputs, i, j, status>>
       \/ src = <<>> /\ Finish

\* iterator::insert_before(list): the front of src goes before the iterator.
InsertBefore ==
    /\ Running("insert_before")
    /\ \/ /\ src # <<>>
          /\ list' = InsertAt(list, i, Head(src)) /\ src' = Tail(src)
          /\ i' = i + 1
          /\ UNCHANGED <<inputs, j, status>>
       \/ src = <<>> /\ Finish

\* Object::replaceWithList: the front of src takes the place of this, the others are
\* inserted after it, from the back; an empty src removes this.
ReplaceWithList ==
    /\ Running("replaceWithList")
    /\ \/ /\ list[i] = old[i] /\ src # <<>>
          /\ list' = [list EXCEPT ![i] = Head(src)] /\ src' = Tail(src)
          /\ UNCHANGED <<inputs, i, j, status>>
       \/ /\ list[i] = old[i] /\ src = <<>>
          /\ list' = RemoveAt(list, i) /\ status' = "done"
          /\ UNCHANGED <<inputs, src, i, j>>
       \/ list[i] # old[i] /\ (SpliceAfter \/ (src = <<>> /\ Finish))

\* Mutant: j moves on after a removal, past the element that took the place.
RemoveDopplegangersSkips ==
    /\ Running("remove_dopplegangers")
    /\ \/ /\ i <= Len(list) /\ j <= Len(list)
          /\ list' = (IF class[list[i]] = class[list[j]] THEN RemoveAt(list, j) ELSE list)
          /\ j' = j + 1
          /\ UNCHANGED <<inputs, src, i, status>>
       \/ /\ i <= Len(list) /\ j > Len(list)
          /\ i' = i + 1 /\ j' = i + 2
          /\ UNCHANGED <<inputs, list, src, status>>
       \/ i > Len(list) /\ Finish

\* Mutant: the outer loop does not advance.
RemoveDopplegangersStuck ==
    /\ Running("remove_dopplegangers")
    /\ \/ /\ i <= Len(list) /\ j <= Len(list)
          /\ j' = j + 1
          /\ UNCHANGED <<inputs, list, src, i, status>>
       \/ /\ i <= Len(list) /\ j > Len(list)
          /\ j' = i + 1
          /\ UNCHANGED <<inputs, list, src, i, status>>
       \/ i > Len(list) /\ Finish

\* remove_dopplegangers: every element after i that equals it is erased.
RemoveDopplegangers ==
    /\ Running("remove_dopplegangers")
    /\ \/ /\ i <= Len(list) /\ j <= Len(list)
          /\ \/ class[list[i]] = class[list[j]] /\ list' = RemoveAt(list, j) /\ j' = j
             \/ class[list[i]] # class[list[j]] /\ list' = list /\ j' = j + 1
          /\ UNCHANGED <<inputs, src, i, status>>
       \/ /\ i <= Len(list) /\ j > Len(list)
          /\ i' = i + 1 /\ j' = i + 2
          /\ UNCHANGED <<inputs, list, src, status>>
       \/ i > Len(list) /\ Finish

\* Mutant: the iterator is moved before the removal.
RemoveSubTreeNext ==
    /\ Running("removeSubTree")
    /\ \/ /\ i < Len(list) /\ i = place
          /\ list' = RemoveAt(list, i + 1) /\ status' = "done"
          /\ UNCHANGED <<inputs, src, i, j>>
       \/ /\ i <= Len(list) /\ (i # place \/ i = Len(list))
          /\ i' = i + 1
          /\ UNCHANGED <<inputs, list, src, j, status>>
       \/ i > Len(list) /\ Finish

\* removeSubTree(a): the element above a leaves the list.
RemoveSubTree ==
    /\ Running("removeSubTree")
    /\ \/ /\ i <= Len(list) /\ i = place
          /\ list' = RemoveAt(list, i) /\ status' = "done"
          /\ UNCHANGED <<inputs, src, i, j>>
       \/ /\ i <= Len(list) /\ i # place
          /\ i' = i + 1
          /\ UNCHANGED <<inputs, list, src, j, status>>
       \/ i > Len(list) /\ Finish

\* eraseSubTree(a): i.erase() moves the iterator to the next element, and the loop's ++i
\* moves it again, or exits at the end.  After the erase a is deleted: what isSubNode
\* then reads is undefined, and any answer is possible.
Erased == Len(list) < Len(old)

EraseSubTree ==
    /\ Running("eraseSubTree")
    /\ \/ /\ i <= Len(list) /\ (Erased \/ i = place)
          /\ list' = RemoveAt(list, i)
          /\ i' = i + 1
          /\ status' = (IF i > Len(list') THEN "exit" ELSE "run")
          /\ UNCHANGED <<inputs, src, j>>
       \/ /\ i <= Len(list) /\ (Erased \/ i # place)
          /\ i' = i + 1
          /\ UNCHANGED <<inputs, list, src, j, status>>
       \/ i > Len(list) /\ Finish

\* insert(o, place, true) before begin() + place, or push_back at end().  The default
\* build, a debug build, exits when begin() + place goes beyond end().
Insert ==
    /\ Running("insert")
    /\ \/ /\ place <= Len(list)
          /\ list' = InsertAt(list, place + 1, Head(src)) /\ src' = Tail(src)
          /\ status' = "done"
          /\ UNCHANGED <<inputs, i, j>>
       \/ /\ place > Len(list)
          /\ status' = "exit"
          /\ UNCHANGED <<inputs, list, src, i, j>>

Next == \/ InsertAfter \/ InsertBefore \/ ReplaceWithList \/ RemoveDopplegangers
        \/ RemoveSubTree \/ EraseSubTree \/ Insert

\* The loops are sequential code: they go on.
Spec == Init /\ [][Next]_vars /\ WF_vars(Next)
-----------------------------------------------------------------------------
\* No loop drops or doubles an element while it moves it: at every step the elements
\* are in one of the two lists, except the one replaceWithList has replaced.
NothingLost ==
    op \in Splices =>
       /\ IsInjective(list \o src)
       /\ ToSet(old \o oldSrc) \ ToSet(list \o src) \subseteq
             IF op = "replaceWithList" THEN {place} ELSE {}

\* A spliced list ends up in one piece, in its order, where it was asked to go, though
\* insert_after and replaceWithList take it from the back, one element at a time.
SpliceExact ==
    status = "done" /\ op \in Splices \cup {"insert"} =>
       list = CASE op = "insert_after"    -> SubSeq(old, 1, place) \o oldSrc \o SubSeq(old, place + 1, Len(old))
                [] op = "insert_before"   -> SubSeq(old, 1, place - 1) \o oldSrc \o SubSeq(old, place, Len(old))
                [] op = "replaceWithList" -> SubSeq(old, 1, place - 1) \o oldSrc \o SubSeq(old, place + 1, Len(old))
                [] op = "insert"          -> SubSeq(old, 1, place) \o oldSrc \o SubSeq(old, place + 1, Len(old))

\* remove_dopplegangers keeps the first element of every class, in order.
FirstsKept ==
    status = "done" /\ op = "remove_dopplegangers" =>
       /\ \A p, q \in 1 .. Len(list) : p < q => list[p] < list[q]
       /\ ToSet(list) = {e \in ToSet(old) : \A f \in 1 .. e - 1 : class[f] # class[e]}

\* removeSubTree takes out the element above a and no other.
SubTreeRemoved ==
    status = "done" /\ op = "removeSubTree" =>
       list = IF place = 0 THEN old ELSE RemoveAt(old, place)

\* What the five loops promise: the four together.
LoopsExact == NothingLost /\ SpliceExact /\ FirstsKept /\ SubTreeRemoved

\* Every loop ends, though the lists grow and shrink under it.
Ends == <>(status # "run")
=============================================================================
