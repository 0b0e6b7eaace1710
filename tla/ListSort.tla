------------------------------ MODULE ListSort ------------------------------
(***************************************************************************)
(* BListHost::sort (include/hif/classes/BListHost.hpp), the bubble sort    *)
(* that equals() and the sort manipulation run on lists.  The links are    *)
(* the places 1 .. N and stay where they are; a swap exchanges their       *)
(* elements, so the iterators i and high, which are links, keep their      *)
(* places too.  An element is named by its place before the sort, and the  *)
(* comparator by the ranks it orders.  One comparison is one step.         *)
(***************************************************************************)
EXTENDS Integers, TLAPS

CONSTANTS N,       \* the size of the list
          Rank     \* what the comparator can tell apart

ASSUME SortAssumption == N \in Nat /\ Rank \subseteq Int

VARIABLES rank,      \* of each element
          elem,      \* the element in each place
          i, high,   \* the iterators of the two loops
          changed

vars  == <<rank, elem, i, high, changed>>
Place == 1 .. N

Init ==
    /\ rank \in [Place -> Rank]
    /\ elem = [p \in Place |-> p]
    /\ i = 1 /\ high = N
    /\ changed = FALSE

\* high is rend() for an empty list, and begin() when the last pass has been made.
Done == high <= 1

\* Mutant: >= for >.
NotLess == rank[elem[i]] >= rank[elem[i + 1]]

\* c(*i, *next) > 0
OutOfOrder == rank[elem[i]] > rank[elem[i + 1]]

\* Mutant: one of the two writes of the swap is missing.
CompareHalfSwap ==
    /\ ~Done /\ i # high
    /\ elem' = (IF OutOfOrder THEN [elem EXCEPT ![i] = elem[i + 1]] ELSE elem)
    /\ changed' = (changed \/ OutOfOrder)
    /\ i' = i + 1
    /\ UNCHANGED <<rank, high>>

\* Mutant: changed says what the last comparison did.
CompareForgets ==
    /\ ~Done /\ i # high
    /\ elem' = (IF OutOfOrder THEN [elem EXCEPT ![i] = elem[i + 1], ![i + 1] = elem[i]] ELSE elem)
    /\ changed' = OutOfOrder
    /\ i' = i + 1
    /\ UNCHANGED <<rank, high>>

Compare ==
    /\ ~Done /\ i # high
    /\ \/ /\ OutOfOrder
          /\ elem' = [elem EXCEPT ![i] = elem[i + 1], ![i + 1] = elem[i]]
          /\ changed' = TRUE
       \/ /\ ~OutOfOrder
          /\ UNCHANGED <<elem, changed>>
    /\ i' = i + 1
    /\ UNCHANGED <<rank, high>>

\* Mutant: the pass goes one place too far the next time.
EndPassUp ==
    /\ ~Done /\ i = high
    /\ high' = high + 1 /\ i' = 1
    /\ UNCHANGED <<rank, elem, changed>>

\* Mutant: two places are taken as settled.
EndPassByTwo ==
    /\ ~Done /\ i = high
    /\ high' = high - 2 /\ i' = 1
    /\ UNCHANGED <<rank, elem, changed>>

\* Mutant: --high is missing.
EndPassSameHigh ==
    /\ ~Done /\ i = high
    /\ i' = 1
    /\ UNCHANGED <<rank, elem, changed, high>>

EndPass ==
    /\ ~Done /\ i = high
    /\ high' = high - 1 /\ i' = 1
    /\ UNCHANGED <<rank, elem, changed>>

Next == Compare \/ EndPass

\* The loops run to their end.
Spec == Init /\ [][Next]_vars /\ WF_vars(Next)
-----------------------------------------------------------------------------
TypeOK ==
    /\ rank \in [Place -> Rank] /\ elem \in [Place -> Place]
    /\ changed \in BOOLEAN
    /\ i \in Nat /\ high \in Nat /\ high <= N
    /\ N >= 1 => 1 <= i /\ i <= high

\* The list is a permutation of what it was: no element is lost or doubled.
NoneLost == \A p, q \in Place : elem[p] = elem[q] => p = q

\* Elements the comparator finds equal never overtake each other: the sort is
\* stable, at every moment.
Stable == \A p, q \in Place : p < q /\ rank[elem[p]] = rank[elem[q]] => elem[p] < elem[q]

\* At the end the list is in order.
SortedAtEnd == Done => \A p, q \in Place : p < q => rank[elem[p]] <= rank[elem[q]]

\* The value returned is true exactly when the list is not what it was: a caller
\* that repeats until nothing changes stops.
ChangedExact == changed <=> \E p \in Place : elem[p] # p

\* What a caller of sort() counts on: the four together.
SortExact == NoneLost /\ Stable /\ SortedAtEnd /\ ChangedExact

\* The sort ends.
Ends == <>Done

-----------------------------------------------------------------------------
\* Why it works.  What the passes have put behind high is in its final place, and
\* the inner loop carries the greatest element so far.
Settled == \A p, q \in Place : p < q /\ high < q => rank[elem[p]] <= rank[elem[q]]
Carried == \A p \in Place : p < i /\ i <= N => rank[elem[p]] <= rank[elem[i]]

\* Once two elements have been swapped, some pair is inverted for good.
Inverted(p, q) == p < q /\ elem[q] < elem[p] /\ rank[elem[p]] < rank[elem[q]]
Witness == /\ changed => \E p, q \in Place : Inverted(p, q)
           /\ ~changed => \A p \in Place : elem[p] = p

SortInv == TypeOK /\ NoneLost /\ Stable /\ Settled /\ Carried /\ Witness

-----------------------------------------------------------------------------
(***************************************************************************)
(* The bubble sort of BListHost sorts, stably, every list with every       *)
(* comparator that ranks its elements, and says truly whether it changed   *)
(* anything.  SortInv is inductive: the elements behind high are in their  *)
(* final places, and i stands on the greatest of those before it.          *)
(***************************************************************************)

USE SortAssumption DEF Place, Done

\* A list before its first comparison.
LEMMA InitSort == Init => SortInv
<1> SUFFICES ASSUME Init PROVE SortInv
  OBVIOUS
<1>1. TypeOK
  <2>1. rank \in [Place -> Rank] /\ elem \in [Place -> Place]
    BY DEF Init
  <2>2. changed \in BOOLEAN
    BY DEF Init
  <2>3. i = 1 /\ high = N
    BY DEF Init
  <2> QED BY <2>1, <2>2, <2>3 DEF TypeOK
<1>2. NoneLost /\ Stable /\ Settled /\ Carried /\ Witness
  BY DEF Init, NoneLost, Stable, Settled, Carried, Witness
<1> QED BY <1>1, <1>2 DEF SortInv

\* What the comparator is given.
LEMMA Keys ==
    ASSUME TypeOK, NEW p \in Place
    PROVE  elem[p] \in Place /\ rank[elem[p]] \in Int
<1>1. elem[p] \in Place
  BY DEF TypeOK
<1>2. rank[elem[p]] \in Rank
  BY <1>1 DEF TypeOK
<1> QED BY <1>1, <1>2

\* What one comparison works on: two neighbouring places up to high.
LEMMA Neighbours ==
    ASSUME TypeOK, Compare
    PROVE  i \in Place /\ i + 1 \in Place /\ i + 1 <= high
BY DEF TypeOK, Compare

\* A step that leaves the elements alone: the next neighbours are in order.
LEMMA KeepStep ==
    ASSUME SortInv, Compare, ~OutOfOrder
    PROVE  SortInv'
<1> USE DEF SortInv, Compare
<1>1. i \in Place /\ i + 1 \in Place /\ i + 1 <= high
  BY Neighbours
<1>2. /\ elem' = elem /\ changed' = changed /\ i' = i + 1
      /\ rank' = rank /\ high' = high
  OBVIOUS
<1>3. TypeOK'
  BY <1>1, <1>2 DEF TypeOK
<1>4. rank[elem[i]] \in Int /\ rank[elem[i + 1]] \in Int /\ rank[elem[i]] <= rank[elem[i + 1]]
  BY <1>1, Keys DEF OutOfOrder
<1>5. Carried'
  <2> SUFFICES ASSUME NEW p \in Place, p < i + 1 PROVE rank[elem[p]] <= rank[elem[i + 1]]
    BY <1>2 DEF Carried
  <2>1. rank[elem[p]] \in Int
    BY DEF TypeOK
  <2>2. rank[elem[p]] <= rank[elem[i]]
    <3>1. p < i \/ p = i
      BY <1>1
    <3>2. CASE p < i
      BY <1>1, <3>2 DEF Carried
    <3> QED BY <1>4, <3>1, <3>2
  <2> QED BY <1>4, <2>1, <2>2
<1>6. NoneLost' /\ Stable' /\ Settled' /\ Witness'
  BY <1>2 DEF NoneLost, Stable, Settled, Witness, Inverted
<1> QED BY <1>3, <1>5, <1>6

\* A swap.  at(p) is the place the element now in p comes from.
LEMMA SwapStep ==
    ASSUME SortInv, Compare, OutOfOrder
    PROVE  SortInv'
<1> USE DEF SortInv, Compare
<1> DEFINE at(p) == IF p = i THEN i + 1 ELSE IF p = i + 1 THEN i ELSE p
<1>1. i \in Place /\ i + 1 \in Place /\ i + 1 <= high /\ i \in Nat /\ high \in Nat
  BY Neighbours DEF TypeOK
<1>2. /\ i' = i + 1 /\ rank' = rank /\ high' = high
      /\ elem \in [Place -> Place] /\ rank \in [Place -> Int]
      /\ changed' = TRUE
  BY DEF TypeOK, OutOfOrder
<1>3. \A p \in Place : at(p) \in Place /\ elem'[p] = elem[at(p)]
  BY <1>1, <1>2 DEF OutOfOrder
<1>4. rank[elem[i]] > rank[elem[i + 1]]
  BY DEF OutOfOrder
<1>at. at(i) = i + 1 /\ at(i + 1) = i /\ \A p \in Place \ {i, i + 1} : at(p) = p
  BY <1>1
<1>5. elem' \in [Place -> Place]
  BY <1>1, <1>2 DEF OutOfOrder
<1>6. TypeOK'
  <2>1. rank' \in [Place -> Rank] /\ i' \in Nat /\ i' <= high'
    BY <1>1, <1>2 DEF TypeOK
  <2>2. changed' \in BOOLEAN
    BY <1>2
  <2>3. high' \in Nat /\ high' <= N /\ 1 <= i'
    BY <1>1, <1>2 DEF TypeOK
  <2> QED BY <1>5, <2>1, <2>2, <2>3 DEF TypeOK
<1>7. NoneLost'
  BY <1>1, <1>3 DEF NoneLost
<1>8. Stable'
  <2> SUFFICES ASSUME NEW p \in Place, NEW q \in Place, p < q,
                      rank[elem[at(p)]] = rank[elem[at(q)]]
               PROVE  elem[at(p)] < elem[at(q)]
    BY <1>2, <1>3 DEF Stable
  <2>1. ASSUME p = i, q = i + 1 PROVE FALSE
    <3>1. rank[elem[i + 1]] = rank[elem[i]]
      BY <2>1, <1>at
    <3> QED BY <1>1, <1>4, <3>1, Keys
  <2>2. at(p) < at(q)
    BY <1>1, <1>at, <2>1
  <2> QED BY <1>3, <2>2 DEF Stable
<1>9. Settled'
  <2> SUFFICES ASSUME NEW p \in Place, NEW q \in Place, p < q, high < q
               PROVE  rank[elem[at(p)]] <= rank[elem[at(q)]]
    <3>1. SUFFICES ASSUME NEW p \in Place, NEW q \in Place, p < q, high' < q
                   PROVE  rank'[elem'[p]] <= rank'[elem'[q]]
      BY DEF Settled
    <3> QED BY <1>2, <1>3, <3>1
  <2>1. at(q) = q /\ at(p) < q
    BY <1>1
  <2> QED BY <1>3, <2>1 DEF Settled
<1>10. Carried'
  <2> SUFFICES ASSUME NEW p \in Place, p < i + 1
               PROVE  rank[elem[at(p)]] <= rank[elem[at(i + 1)]]
    BY <1>1, <1>2, <1>3 DEF Carried
  <2>1. at(i + 1) = i /\ (at(p) < i \/ at(p) = i + 1)
    BY <1>1
  <2>2. CASE at(p) < i
    BY <1>1, <1>3, <2>1, <2>2 DEF Carried
  <2>3. CASE at(p) = i + 1
    BY <1>1, <1>2, <1>4, <2>1, <2>3
  <2> QED BY <2>1, <2>2, <2>3
<1>11. \E p, q \in Place : Inverted(p, q)'
  <2>1. CASE changed
    <3>1. PICK p \in Place, q \in Place : Inverted(p, q)
      BY <2>1 DEF Witness
    <3>2. at(p) \in Place /\ at(q) \in Place /\ at(at(p)) = p /\ at(at(q)) = q
      BY <1>1
    <3>3. at(p) < at(q)
      <4>1. ASSUME p = i, q = i + 1 PROVE FALSE
        BY <1>1, <1>4, <3>1, <4>1, Keys DEF Inverted
      <4> QED BY <1>1, <1>at, <3>1, <4>1 DEF Inverted
    <3>4. elem'[at(p)] = elem[p] /\ elem'[at(q)] = elem[q]
      BY <1>3, <3>2
    <3> HIDE DEF at
    <3>5. PICK v \in Place, w \in Place : v = at(p) /\ w = at(q)
      BY <3>2
    <3>6. Inverted(v, w)'
      BY <1>2, <3>1, <3>3, <3>4, <3>5 DEF Inverted
    <3> QED BY <3>6
  <2>2. CASE ~changed
    <3>1. elem[i] = i /\ elem[i + 1] = i + 1
      BY <1>1, <2>2 DEF Witness
    <3>2. at(i) = i + 1 /\ at(i + 1) = i
      BY <1>1
    <3>3. elem'[i] = i + 1 /\ elem'[i + 1] = i
      BY <1>1, <1>3, <3>1, <3>2
    <3>4. i < i + 1 /\ rank[elem[i + 1]] < rank[elem[i]]
      BY <1>1, <1>2, <1>4, <3>1
    <3>5. PICK p \in Place, q \in Place : p = i /\ q = i + 1
      BY <1>1
    <3>6. Inverted(p, q)'
      BY <1>2, <3>1, <3>3, <3>4, <3>5 DEF Inverted
    <3> QED BY <3>6
  <2> QED BY <1>2, <2>1, <2>2 DEF TypeOK
<1>12. Witness'
  BY <1>2, <1>11 DEF Witness
<1> QED BY <1>6, <1>7, <1>8, <1>9, <1>10, <1>12

\* At the end of a pass the element carried to high is in its final place.
LEMMA EndPassStep ==
    ASSUME SortInv, EndPass
    PROVE  SortInv'
<1> USE DEF SortInv, EndPass
<1>1. high \in Place /\ high >= 2 /\ i = high /\ N >= 1
  BY DEF TypeOK
<1>2. /\ high' = high - 1 /\ i' = 1 /\ elem' = elem /\ rank' = rank /\ changed' = changed
  OBVIOUS
<1>3. TypeOK'
  BY <1>1, <1>2 DEF TypeOK
<1>4. Settled'
  <2> SUFFICES ASSUME NEW p \in Place, NEW q \in Place, p < q, high - 1 < q
               PROVE  rank[elem[p]] <= rank[elem[q]]
    BY <1>2 DEF Settled
  <2>1. CASE q = high
    BY <1>1, <2>1 DEF Carried
  <2>2. CASE high < q
    BY <2>2 DEF Settled
  <2> QED BY <1>1, <2>1, <2>2
<1>5. Carried' /\ NoneLost' /\ Stable' /\ Witness'
  BY <1>2 DEF Carried, NoneLost, Stable, Witness, Inverted
<1> QED BY <1>3, <1>4, <1>5

\* Every step keeps SortInv.
LEMMA NextSort == SortInv /\ [Next]_vars => SortInv'
<1> SUFFICES ASSUME SortInv, [Next]_vars PROVE SortInv'
  OBVIOUS
<1>1. CASE Compare
  BY <1>1, KeepStep, SwapStep
<1>2. CASE EndPass
  BY <1>2, EndPassStep
<1>3. CASE UNCHANGED vars
  BY <1>3 DEF vars, SortInv, TypeOK, NoneLost, Stable, Settled, Carried, Witness, Inverted
<1> QED BY <1>1, <1>2, <1>3 DEF Next

\* SortInv is inductive.
LEMMA Inductive == Spec => []SortInv
<1> QED BY InitSort, NextSort, PTL DEF Spec

\* The variables keep their types: the iterators never leave the list.
THEOREM TypeCorrect == Spec => []TypeOK
<1>1. SortInv => TypeOK
  BY DEF SortInv
<1> QED BY <1>1, Inductive, PTL

\* sort() loses no element and doubles none, for every list and comparator.
THEOREM SortPermutes == Spec => []NoneLost
<1>1. SortInv => NoneLost
  BY DEF SortInv
<1> QED BY <1>1, Inductive, PTL

\* sort() is stable, as BListHost.hpp says.
THEOREM SortIsStable == Spec => []Stable
<1>1. SortInv => Stable
  BY DEF SortInv
<1> QED BY <1>1, Inductive, PTL

\* When sort() returns the list is in order.
THEOREM SortSorts == Spec => []SortedAtEnd
<1>1. SortInv => SortedAtEnd
  BY DEF SortInv, SortedAtEnd, Settled, TypeOK
<1> QED BY <1>1, Inductive, PTL

\* The value returned says whether the list was changed.
THEOREM SortReportsChange == Spec => []ChangedExact
<1>1. SortInv => ChangedExact
  BY DEF SortInv, ChangedExact, Witness, Inverted, TypeOK
<1> QED BY <1>1, Inductive, PTL

\* The result of sort() is what its callers count on, for every list and comparator.
THEOREM SortIsExact == Spec => []SortExact
<1>1. NoneLost /\ Stable /\ SortedAtEnd /\ ChangedExact => SortExact
  BY DEF SortExact
<1> QED BY <1>1, SortPermutes, SortIsStable, SortSorts, SortReportsChange, PTL
=============================================================================
