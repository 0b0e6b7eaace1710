---------------------------- MODULE BList_proofs ----------------------------
(***************************************************************************)
(* The list structure of BList is an invariant, whatever the numbers of    *)
(* lists, links and objects.  TypeOK /\ ListInv is inductive.  Every       *)
(* operation is one of six changes of the structure: a link is inserted    *)
(* between two neighbours, a link leaves, a whole chain is dropped, a      *)
(* chain is handed to another list, two links exchange their elements, a   *)
(* link changes its element.  There is one lemma per change, and the       *)
(* theorem maps each operation to its change.                              *)
(***************************************************************************)
EXTENDS BList, TLAPS

USE NullAssumption DEF Allocated, Free

\* The initial structure: no list has a link.
LEMMA InitInv == Init => TypeOK /\ ListInv
BY DEF Init, TypeOK, ListInv, ElementsExact, LinksMirror, EndsExact, WalkComplete, IteratorValid

\* The links of a list are exactly those a walk from its head visits, so the
\* loops over a chain (clear, merge, removeAll, remove, erase) see all of them.
LEMMA ChainExact ==
    ASSUME TypeOK, ListInv, NEW L \in List
    PROVE  ChainOf(L) = {l \in Link : parentlist[l] = L}
<1> DEFINE M == {l \in Link : parentlist[l] = L}
<1> USE DEF ListInv, TypeOK
<1>1. ASSUME NEW l \in M PROVE l \in ChainOf(L)
  BY <1>1 DEF WalkComplete
<1>2. ASSUME NEW l \in ChainOf(L) PROVE l \in M
  <2>1. head[L] # NULL /\ l \in Chain(L)
    BY <1>2 DEF ChainOf
  <2>2. M \in SUBSET Link /\ head[L] \in M
    BY <2>1 DEF EndsExact
  <2>3. Closed(M)
    BY DEF Closed, LinksMirror
  <2> QED BY <2>1, <2>2, <2>3 DEF Chain
<1> QED BY <1>1, <1>2

\* A new link goes in between the neighbours p and n: push_front, push_back,
\* insert_after, insert_before.
LEMMA InsertStep ==
    ASSUME TypeOK, ListInv,
           NEW L \in List, NEW o \in Detached, NEW l \in Free,
           NEW p \in Link \cup {NULL}, NEW n \in Link \cup {NULL},
           p = NULL => n = head[L],
           p # NULL => parentlist[p] = L /\ n = next[p],
           NewLink(l, o, L, p, n),
           head' = IF p = NULL THEN [head EXCEPT ![L] = l] ELSE head,
           tail' = IF n = NULL THEN [tail EXCEPT ![L] = l] ELSE tail,
           iter' = iter
    PROVE  TypeOK' /\ ListInv'
<1> USE DEF ListInv, NewLink, Detached
<1>0. /\ l \in Link /\ l # p /\ l # n /\ parentlist[l] = NULL /\ o \in live /\ o \in Obj
      /\ p \notin Free /\ n \notin Free
  BY DEF TypeOK, EndsExact, LinksMirror
<1>1. TypeOK'
  BY <1>0 DEF TypeOK
<1>2. ElementsExact'
  <2>1. Allocated' = Allocated \cup {l} /\ Free' = Free \ {l}
    BY <1>0 DEF TypeOK
  <2>2. \A k \in Allocated : element[k] # o
    BY <1>0 DEF ElementsExact, TypeOK
  <2>3. ASSUME NEW k \in Allocated' PROVE element'[k] \in live' /\ parentlink'[element'[k]] = k
    BY <1>0, <2>1, <2>2, <2>3 DEF ElementsExact, TypeOK
  <2>4. ASSUME NEW k \in Free' PROVE element'[k] = NULL /\ next'[k] = NULL /\ prev'[k] = NULL
    BY <1>0, <2>1, <2>4 DEF ElementsExact, EndsExact, TypeOK
  <2>5. ASSUME NEW q \in Obj, parentlink'[q] # NULL
        PROVE  parentlink'[q] \in Allocated' /\ element'[parentlink'[q]] = q
    BY <1>0, <2>1, <2>5 DEF ElementsExact, TypeOK
  <2> QED BY <2>3, <2>4, <2>5 DEF ElementsExact
<1>3. LinksMirror'
  BY <1>0 DEF TypeOK, LinksMirror, EndsExact, ElementsExact
<1>4. EndsExact'
  BY <1>0 DEF TypeOK, LinksMirror, EndsExact, ElementsExact
<1>5. WalkComplete'
  <2>1. SUFFICES ASSUME NEW M \in List, NEW S \in SUBSET Link, head'[M] \in S, Closed(S)',
                        NEW k \in Link, parentlist'[k] = M
                 PROVE  k \in S
    BY <1>1, <1>4, <1>0 DEF WalkComplete, ChainOf, Chain, TypeOK, EndsExact, LinksMirror
  <2> DEFINE T == S \ {l}
  <2>2. ASSUME NEW x \in T, next[x] # NULL PROVE next[x] \in T
    <3>1. next[x] # l /\ x # l
      BY <1>0, <2>2 DEF ElementsExact, LinksMirror, TypeOK
    <3>2. CASE x = p
      BY <1>0, <2>1, <2>2, <3>1, <3>2 DEF Closed, TypeOK
    <3>3. CASE x # p
      BY <1>0, <2>1, <2>2, <3>1, <3>3 DEF Closed, TypeOK
    <3> QED BY <3>2, <3>3
  <2>3. head[M] # NULL => head[M] \in T
    <3>1. CASE M = L /\ p = NULL
      <4>1. head'[M] = l /\ n = head[M] /\ next'[l] = n
        BY <1>0, <3>1 DEF TypeOK
      <4>2. ASSUME n # NULL PROVE n \in S /\ n # l
        BY <1>0, <2>1, <4>1, <4>2 DEF Closed
      <4> QED BY <4>1, <4>2
    <3>2. CASE ~(M = L /\ p = NULL)
      BY <1>0, <2>1, <3>2 DEF TypeOK, EndsExact
    <3> QED BY <3>1, <3>2
  <2>4. \A j \in Link : parentlist[j] = M => j \in T
    BY <2>2, <2>3 DEF WalkComplete, ChainOf, Chain, Closed
  <2>5. CASE k # l
    BY <1>0, <2>1, <2>4, <2>5 DEF TypeOK
  <2>6. CASE k = l
    <3>1. M = L
      BY <1>0, <2>1, <2>6 DEF TypeOK
    <3>2. CASE p = NULL
      BY <1>0, <2>1, <2>6, <3>1, <3>2 DEF TypeOK
    <3>3. CASE p # NULL
      BY <1>0, <2>1, <2>4, <2>6, <3>1, <3>3 DEF TypeOK, Closed
    <3> QED BY <3>2, <3>3
  <2> QED BY <2>5, <2>6
<1>6. IteratorValid'
  BY <1>0 DEF TypeOK, IteratorValid
<1> QED BY <1>1, <1>2, <1>3, <1>4, <1>5, <1>6

\* No link is its own neighbour.
LEMMA NoSelfLoop ==
    ASSUME TypeOK, ListInv, NEW l \in Allocated
    PROVE  next[l] # l /\ prev[l] # l
<1> DEFINE T == {k \in Link : k # l}
<1> USE DEF ListInv
<1>1. l \in Link /\ parentlist[l] \in List
  BY DEF TypeOK
<1>2. SUFFICES ASSUME next[l] = l PROVE FALSE
  BY <1>1 DEF LinksMirror
<1>3. prev[l] = l
  BY <1>1, <1>2 DEF LinksMirror
<1>4. head[parentlist[l]] # NULL /\ head[parentlist[l]] # l
  BY <1>1, <1>3 DEF WalkComplete, ChainOf, EndsExact
<1>5. Closed(T)
  BY <1>1, <1>3 DEF Closed, LinksMirror, ElementsExact, TypeOK
<1>6. head[parentlist[l]] \in T
  BY <1>1, <1>4 DEF TypeOK
<1> QED BY <1>1, <1>4, <1>5, <1>6 DEF WalkComplete, ChainOf, Chain

\* A link leaves and is deleted, with its element or without it: remove, erase
\* and the four erasing and removing moves of the iterator.
LEMMA RemoveStep ==
    ASSUME TypeOK, ListInv, NEW l \in Allocated,
           RemoveFromList(l),
           parentlink' = [parentlink EXCEPT ![element[l]] = NULL],
           live' = live \/ live' = live \ {element[l]},
           iter' = NULL \/ iter' \in Allocated \ {l}
    PROVE  TypeOK' /\ ListInv'
<1> USE DEF ListInv, RemoveFromList, NextWithout, PrevWithout, HeadWithout, TailWithout
<1>0. /\ l \in Link /\ parentlist[l] \in List /\ element[l] \in live /\ element[l] \in Obj
      /\ next[l] # l /\ prev[l] # l
  <2>1. l \in Link /\ parentlist[l] \in List /\ element[l] \in live /\ element[l] \in Obj
    BY DEF TypeOK, ElementsExact
  <2> QED BY <2>1, NoSelfLoop
<1>1. TypeOK'
  BY <1>0 DEF TypeOK
<1>2. Allocated' = Allocated \ {l} /\ Free' = Free \cup {l}
  BY <1>0 DEF TypeOK
<1>3. ElementsExact'
  <2>1. ASSUME NEW k \in Allocated' PROVE element'[k] \in live' /\ parentlink'[element'[k]] = k
    BY <1>0, <1>2, <2>1 DEF ElementsExact, TypeOK
  <2>2. ASSUME NEW k \in Free' PROVE element'[k] = NULL /\ next'[k] = NULL /\ prev'[k] = NULL
    BY <1>0, <1>2, <2>2 DEF ElementsExact, LinksMirror, TypeOK
  <2>3. ASSUME NEW q \in Obj, parentlink'[q] # NULL
        PROVE  parentlink'[q] \in Allocated' /\ element'[parentlink'[q]] = q
    BY <1>0, <1>2, <2>3 DEF ElementsExact, TypeOK
  <2> QED BY <2>1, <2>2, <2>3 DEF ElementsExact
<1>4. LinksMirror'
  <2> SUFFICES ASSUME NEW k \in Allocated'
               PROVE  /\ next'[k] # NULL => prev'[next'[k]] = k /\ parentlist'[next'[k]] = parentlist'[k]
                      /\ prev'[k] # NULL => next'[prev'[k]] = k /\ parentlist'[prev'[k]] = parentlist'[k]
    BY DEF LinksMirror
  <2>1. next'[k] # NULL => prev'[next'[k]] = k /\ parentlist'[next'[k]] = parentlist'[k]
    BY <1>0, <1>2 DEF TypeOK, LinksMirror, ElementsExact
  <2>2. prev'[k] # NULL => next'[prev'[k]] = k /\ parentlist'[prev'[k]] = parentlist'[k]
    BY <1>0, <1>2 DEF TypeOK, LinksMirror, ElementsExact
  <2> QED BY <2>1, <2>2
<1>5. EndsExact'
  <2>1. ASSUME NEW L \in List
        PROVE  /\ head'[L] # NULL => parentlist'[head'[L]] = L /\ prev'[head'[L]] = NULL
               /\ tail'[L] # NULL => parentlist'[tail'[L]] = L /\ next'[tail'[L]] = NULL
               /\ head'[L] = NULL <=> tail'[L] = NULL
    BY <1>0, <1>2 DEF TypeOK, LinksMirror, EndsExact, ElementsExact
  <2>2. ASSUME NEW k \in Allocated'
        PROVE  /\ prev'[k] = NULL => head'[parentlist'[k]] = k
               /\ next'[k] = NULL => tail'[parentlist'[k]] = k
    BY <1>0, <1>2 DEF TypeOK, LinksMirror, EndsExact, ElementsExact
  <2> QED BY <2>1, <2>2 DEF EndsExact
<1>6. WalkComplete'
  <2>0. \A k \in Allocated' : head'[parentlist'[k]] # NULL
    <3>1. SUFFICES ASSUME NEW k \in Allocated, k # l PROVE head'[parentlist[k]] # NULL
      BY <1>0, <1>2 DEF TypeOK
    <3>2. head[parentlist[k]] # NULL /\ parentlist[k] \in List /\ k \in Chain(parentlist[k])
      BY DEF WalkComplete, ChainOf, TypeOK
    <3>3. CASE head[parentlist[k]] = l /\ next[l] = NULL
      <4>1. {l} \in SUBSET Link /\ Closed({l})
        BY <1>0, <3>3 DEF Closed
      <4> QED BY <3>1, <3>2, <3>3, <4>1 DEF Chain
    <3>4. CASE ~(head[parentlist[k]] = l /\ next[l] = NULL)
      BY <1>0, <3>2, <3>4 DEF TypeOK, EndsExact
    <3> QED BY <3>3, <3>4
  <2>1. SUFFICES ASSUME NEW M \in List, NEW S \in SUBSET Link, head'[M] \in S, Closed(S)',
                        NEW k \in Link, parentlist'[k] = M
                 PROVE  k \in S
    BY <1>1, <2>0 DEF WalkComplete, ChainOf, Chain, TypeOK
  <2> DEFINE T == IF next[l] = NULL \/ next[l] \in S THEN S \cup {l} ELSE S \ {l}
  <2>2. ASSUME NEW x \in T, next[x] # NULL PROVE next[x] \in T
    <3>1. x \in Link
      BY <1>0, <2>1, <2>2
    <3>2. CASE x = l
      BY <1>0, <2>1, <2>2, <3>2
    <3>3. CASE x # l /\ next[x] = l
      <4>1. x = prev[l] /\ next'[x] = next[l] /\ x \in S
        BY <1>0, <2>1, <2>2, <3>1, <3>3 DEF LinksMirror, ElementsExact, TypeOK
      <4> QED BY <2>1, <4>1, <3>3 DEF Closed
    <3>4. CASE x # l /\ next[x] # l
      <4>1. next'[x] = next[x] /\ x \in S
        BY <1>0, <2>1, <2>2, <3>1, <3>4 DEF LinksMirror, ElementsExact, TypeOK
      <4> QED BY <2>1, <2>2, <4>1, <3>4 DEF Closed
    <3> QED BY <3>2, <3>3, <3>4
  <2>3. head[M] # NULL => head[M] \in T
    BY <1>0, <2>1 DEF TypeOK, EndsExact
  <2>4. \A j \in Link : parentlist[j] = M => j \in T
    BY <1>0, <2>2, <2>3 DEF WalkComplete, ChainOf, Chain, Closed
  <2> QED BY <1>0, <2>1, <2>4 DEF TypeOK
<1>7. IteratorValid'
  BY <1>0, <1>2 DEF TypeOK, IteratorValid
<1> QED BY <1>1, <1>3, <1>4, <1>5, <1>6, <1>7

\* Every link of a list is deleted: clear (with the elements) and removeAll.
LEMMA DropStep ==
    ASSUME TypeOK, ListInv, NEW L \in List, DropChain(L),
           live' = live \/ live' = {o \in live : parentlink[o] \notin ChainOf(L)}
    PROVE  TypeOK' /\ ListInv'
<1> DEFINE C == {l \in Link : parentlist[l] = L}
<1> USE DEF ListInv
<1>0. ChainOf(L) = C
  BY ChainExact
<1>1. /\ iter \notin C /\ iter' = iter
      /\ next' = [l \in Link |-> IF l \in C THEN NULL ELSE next[l]]
      /\ prev' = [l \in Link |-> IF l \in C THEN NULL ELSE prev[l]]
      /\ parentlist' = [l \in Link |-> IF l \in C THEN NULL ELSE parentlist[l]]
      /\ element' = [l \in Link |-> IF l \in C THEN NULL ELSE element[l]]
      /\ parentlink' = [o \in Obj |-> IF parentlink[o] \in C THEN NULL ELSE parentlink[o]]
      /\ head' = [head EXCEPT ![L] = NULL] /\ tail' = [tail EXCEPT ![L] = NULL]
      /\ live' = live \/ live' = {o \in live : parentlink[o] \notin C}
  BY <1>0, Zenon DEF DropChain
<1>2. TypeOK'
  BY <1>1 DEF TypeOK
<1>3. Allocated' = Allocated \ C /\ Free' = Free \cup C
  BY <1>1 DEF TypeOK
<1>4. ElementsExact'
  <2>1. ASSUME NEW k \in Allocated' PROVE element'[k] \in live' /\ parentlink'[element'[k]] = k
    BY <1>1, <1>3, <2>1 DEF ElementsExact, TypeOK
  <2>2. ASSUME NEW k \in Free' PROVE element'[k] = NULL /\ next'[k] = NULL /\ prev'[k] = NULL
    BY <1>1, <1>3, <2>2 DEF ElementsExact, TypeOK
  <2>3. ASSUME NEW q \in Obj, parentlink'[q] # NULL
        PROVE  parentlink'[q] \in Allocated' /\ element'[parentlink'[q]] = q
    BY <1>1, <1>3, <2>3 DEF ElementsExact, TypeOK
  <2> QED BY <2>1, <2>2, <2>3 DEF ElementsExact
<1>5. LinksMirror'
  BY <1>1, <1>3 DEF TypeOK, LinksMirror
<1>6. EndsExact'
  BY <1>1, <1>3 DEF TypeOK, LinksMirror, EndsExact
<1>7. WalkComplete'
  <2>1. SUFFICES ASSUME NEW M \in List, NEW S \in SUBSET Link, head'[M] \in S, Closed(S)',
                        NEW k \in Link, parentlist'[k] = M
                 PROVE  k \in S
    BY <1>1, <1>2, <1>3 DEF WalkComplete, ChainOf, Chain, TypeOK
  <2> DEFINE T == {j \in S : parentlist[j] = M}
  <2>2. M # L /\ head[M] \in T /\ k \notin C /\ parentlist[k] = M
    BY <1>1, <2>1 DEF TypeOK, EndsExact
  <2>3. Closed(T)
    BY <1>1, <2>1, <2>2 DEF Closed, LinksMirror, TypeOK
  <2> QED BY <2>2, <2>3 DEF WalkComplete, ChainOf, Chain
<1>8. IteratorValid'
  BY <1>1, <1>3 DEF IteratorValid, TypeOK
<1> QED BY <1>2, <1>4, <1>5, <1>6, <1>7, <1>8

\* The chain of x goes to the end of L.
LEMMA MergeStep ==
    ASSUME TypeOK, ListInv, NEW L \in List, NEW x \in List, Merge(L, x)
    PROVE  TypeOK' /\ ListInv'
<1> DEFINE C == {l \in Link : parentlist[l] = x}
<1> USE DEF ListInv
<1>0. ChainOf(x) = C
  BY ChainExact
<1>1. /\ L # x
      /\ parentlist' = [l \in Link |-> IF l \in C THEN L ELSE parentlist[l]]
      /\ next' = (IF tail[L] = NULL THEN next ELSE [next EXCEPT ![tail[L]] = head[x]])
      /\ prev' = (IF tail[L] = NULL \/ head[x] = NULL THEN prev
                  ELSE [prev EXCEPT ![head[x]] = tail[L]])
      /\ head' = [head EXCEPT ![L] = IF tail[L] = NULL THEN head[x] ELSE head[L], ![x] = NULL]
      /\ tail' = [tail EXCEPT ![L] = IF head[x] = NULL THEN tail[L] ELSE tail[x], ![x] = NULL]
      /\ element' = element /\ parentlink' = parentlink /\ live' = live /\ iter' = iter
  BY <1>0 DEF Merge
<1>2. TypeOK'
  BY <1>1 DEF TypeOK
<1>3. Allocated' = Allocated /\ Free' = Free
  BY <1>1 DEF TypeOK
<1>3a. /\ tail[L] # NULL => tail[L] \in Allocated /\ parentlist[tail[L]] = L /\ tail[L] \notin C
       /\ head[x] # NULL => head[x] \in Allocated /\ head[x] \in C
  BY <1>1 DEF EndsExact, TypeOK
<1>4. ElementsExact'
  BY <1>1, <1>3, <1>3a DEF ElementsExact, TypeOK
<1>5. LinksMirror'
  <2> SUFFICES ASSUME NEW k \in Allocated
               PROVE  /\ next'[k] # NULL => prev'[next'[k]] = k /\ parentlist'[next'[k]] = parentlist'[k]
                      /\ prev'[k] # NULL => next'[prev'[k]] = k /\ parentlist'[prev'[k]] = parentlist'[k]
    BY <1>3 DEF LinksMirror
  <2>1. next'[k] # NULL => prev'[next'[k]] = k /\ parentlist'[next'[k]] = parentlist'[k]
    BY <1>1, <1>3a DEF TypeOK, LinksMirror, EndsExact
  <2>2. prev'[k] # NULL => next'[prev'[k]] = k /\ parentlist'[prev'[k]] = parentlist'[k]
    BY <1>1, <1>3a DEF TypeOK, LinksMirror, EndsExact
  <2> QED BY <2>1, <2>2
<1>6. EndsExact'
  <2>1. ASSUME NEW M \in List
        PROVE  /\ head'[M] # NULL => parentlist'[head'[M]] = M /\ prev'[head'[M]] = NULL
               /\ tail'[M] # NULL => parentlist'[tail'[M]] = M /\ next'[tail'[M]] = NULL
               /\ head'[M] = NULL <=> tail'[M] = NULL
    BY <1>1, <1>3a DEF TypeOK, EndsExact
  <2>2. ASSUME NEW k \in Allocated
        PROVE  /\ prev'[k] = NULL => head'[parentlist'[k]] = k
               /\ next'[k] = NULL => tail'[parentlist'[k]] = k
    BY <1>1, <1>3a DEF TypeOK, EndsExact, LinksMirror, WalkComplete, ChainOf
  <2> QED BY <2>1, <2>2, <1>3 DEF EndsExact
<1>7. WalkComplete'
  <2>0. \A k \in Allocated : head'[parentlist'[k]] # NULL
    BY <1>1, <1>3a DEF TypeOK, EndsExact, WalkComplete, ChainOf
  <2>1. SUFFICES ASSUME NEW M \in List, NEW S \in SUBSET Link, head'[M] \in S, Closed(S)',
                        NEW k \in Link, parentlist'[k] = M
                 PROVE  k \in S
    BY <1>2, <1>3, <2>0 DEF WalkComplete, ChainOf, Chain, TypeOK
  <2>2. ASSUME NEW N \in List, head[N] \in S
        PROVE  \A j \in Link : parentlist[j] = N => j \in S
    <3> DEFINE T == {j \in S : parentlist[j] = N}
    <3>1. head[N] \in T
      BY <2>1, <2>2 DEF EndsExact, TypeOK
    <3>2. Closed(T)
      BY <1>1, <1>3a, <2>1 DEF Closed, LinksMirror, EndsExact, TypeOK
    <3> QED BY <3>1, <3>2 DEF WalkComplete, ChainOf, Chain
  <2>3. CASE M # L
    BY <1>1, <2>1, <2>2, <2>3 DEF TypeOK
  <2>4. CASE M = L /\ tail[L] = NULL
    <3>1. head[x] \in S /\ head[L] = NULL
      BY <1>1, <2>1, <2>4 DEF TypeOK, EndsExact
    <3>2. parentlist[k] # L
      BY <3>1, <1>1 DEF WalkComplete, ChainOf
    <3> QED BY <1>1, <2>1, <2>2, <2>4, <3>1, <3>2 DEF TypeOK
  <2>5. CASE M = L /\ tail[L] # NULL
    <3>1. head[L] \in S
      BY <1>1, <2>1, <2>5 DEF TypeOK
    <3>2. tail[L] \in S /\ next'[tail[L]] = head[x]
      BY <1>1, <1>3a, <2>2, <2>5, <3>1 DEF TypeOK
    <3>3. head[x] # NULL => head[x] \in S
      BY <2>1, <3>2 DEF Closed
    <3>4. parentlist[k] = L \/ (parentlist[k] = x /\ head[x] # NULL)
      BY <1>1, <2>1, <2>5 DEF TypeOK, WalkComplete, ChainOf
    <3> QED BY <2>2, <3>1, <3>3, <3>4
  <2> QED BY <2>3, <2>4, <2>5
<1>8. IteratorValid'
  BY <1>1, <1>3 DEF IteratorValid
<1> QED BY <1>2, <1>4, <1>5, <1>6, <1>7, <1>8

\* Two links exchange their elements: the chains do not change.
LEMMA SwapStep ==
    ASSUME TypeOK, ListInv, NEW a \in Link, NEW b \in Link, Swap(a, b)
    PROVE  TypeOK' /\ ListInv'
<1> USE DEF ListInv, Swap, listVars
<1>1. TypeOK'
  BY DEF TypeOK, ElementsExact
<1>2. ElementsExact'
  BY DEF TypeOK, ElementsExact
<1>3. LinksMirror' /\ EndsExact' /\ WalkComplete' /\ IteratorValid'
  BY DEF LinksMirror, EndsExact, WalkComplete, ChainOf, Chain, Closed, IteratorValid
<1> QED BY <1>1, <1>2, <1>3

\* The link under the iterator changes its element.
LEMMA AssignStep ==
    ASSUME TypeOK, ListInv, NEW o \in Obj, IterAssign(o)
    PROVE  TypeOK' /\ ListInv'
<1> USE DEF ListInv, IterAssign, listVars
<1>1. TypeOK'
  BY DEF TypeOK, ElementsExact, IteratorValid
<1>2. ElementsExact'
  BY DEF TypeOK, ElementsExact, IteratorValid, Detached
<1>3. LinksMirror' /\ EndsExact' /\ WalkComplete' /\ IteratorValid'
  BY DEF LinksMirror, EndsExact, WalkComplete, ChainOf, Chain, Closed, IteratorValid
<1> QED BY <1>1, <1>2, <1>3

\* What moves only the iterator, or only allocates and deletes detached objects.
LEMMA LinksUntouched ==
    ASSUME TypeOK, ListInv, UNCHANGED <<listVars, linkVars, parentlink>>,
           live' \in SUBSET Obj, \A o \in live : parentlink[o] # NULL => o \in live',
           iter' = NULL \/ iter' \in Allocated
    PROVE  TypeOK' /\ ListInv'
<1> USE DEF ListInv, listVars, linkVars
<1>1. TypeOK'
  BY DEF TypeOK
<1>2. ElementsExact'
  BY DEF TypeOK, ElementsExact
<1>3. LinksMirror' /\ EndsExact' /\ WalkComplete' /\ IteratorValid'
  BY DEF LinksMirror, EndsExact, WalkComplete, ChainOf, Chain, Closed, IteratorValid
<1> QED BY <1>1, <1>2, <1>3

\* TypeOK /\ ListInv is preserved by every step: one case per operation, each of
\* them an instance of one of the changes above.
LEMMA NextInv == TypeOK /\ ListInv /\ [Next]_vars => TypeOK' /\ ListInv'
<1> SUFFICES ASSUME TypeOK, ListInv, [Next]_vars PROVE TypeOK' /\ ListInv'
  OBVIOUS
<1>1. ASSUME NEW o \in Obj, New(o) PROVE TypeOK' /\ ListInv'
  BY <1>1, LinksUntouched DEF New, TypeOK, ListInv, IteratorValid
<1>2. ASSUME NEW o \in Obj, Delete(o) PROVE TypeOK' /\ ListInv'
  BY <1>2, LinksUntouched DEF Delete, Detached, TypeOK, ListInv, IteratorValid
<1>3. ASSUME NEW o \in Obj, IteratorOf(o) PROVE TypeOK' /\ ListInv'
  BY <1>3, LinksUntouched DEF IteratorOf, TypeOK, ListInv, ElementsExact
<1>4. ASSUME NEW o \in Obj, IterAssign(o) PROVE TypeOK' /\ ListInv'
  BY <1>4, AssignStep
<1>5. ASSUME NEW o \in Obj, InsertAfter(o) PROVE TypeOK' /\ ListInv'
  <2>1. PICK l \in Free :
          /\ NewLink(l, o, parentlist[iter], iter, next[iter])
          /\ tail' = (IF tail[parentlist[iter]] = iter
                      THEN [tail EXCEPT ![parentlist[iter]] = l] ELSE tail)
    BY <1>5 DEF InsertAfter
  <2>2. /\ iter \in Allocated /\ iter \in Link /\ parentlist[iter] \in List
        /\ o \in Detached /\ head' = head /\ iter' = iter
    BY <1>5 DEF InsertAfter, ListInv, IteratorValid, TypeOK
  <2>3. next[iter] \in Link \cup {NULL} /\ (next[iter] = NULL <=> tail[parentlist[iter]] = iter)
    BY <2>2 DEF ListInv, EndsExact, TypeOK
  <2> QED BY <2>1, <2>2, <2>3, InsertStep
<1>6. ASSUME NEW o \in Obj, InsertBefore(o) PROVE TypeOK' /\ ListInv'
  <2>1. PICK l \in Free :
          /\ NewLink(l, o, parentlist[iter], prev[iter], iter)
          /\ head' = (IF head[parentlist[iter]] = iter
                      THEN [head EXCEPT ![parentlist[iter]] = l] ELSE head)
    BY <1>6 DEF InsertBefore
  <2>2. /\ iter \in Allocated /\ iter \in Link /\ parentlist[iter] \in List
        /\ o \in Detached /\ tail' = tail /\ iter' = iter
    BY <1>6 DEF InsertBefore, ListInv, IteratorValid, TypeOK
  <2>3. /\ prev[iter] \in Link \cup {NULL}
        /\ prev[iter] = NULL <=> head[parentlist[iter]] = iter
        /\ prev[iter] # NULL => parentlist[prev[iter]] = parentlist[iter] /\ next[prev[iter]] = iter
    BY <2>2 DEF ListInv, EndsExact, LinksMirror, TypeOK
  <2> QED BY <2>1, <2>2, <2>3, InsertStep
<1>7. ASSUME NEW L \in List, NEW o \in Obj, PushFront(L, o) PROVE TypeOK' /\ ListInv'
  <2>1. PICK l \in Free :
          /\ NewLink(l, o, L, NULL, head[L])
          /\ head' = [head EXCEPT ![L] = l]
          /\ tail' = (IF head[L] = NULL THEN [tail EXCEPT ![L] = l] ELSE tail)
    BY <1>7 DEF PushFront
  <2>2. o \in Detached /\ iter' = iter /\ head[L] \in Link \cup {NULL}
    BY <1>7 DEF PushFront, TypeOK
  <2> QED BY <2>1, <2>2, InsertStep
<1>8. ASSUME NEW L \in List, NEW o \in Obj, PushBack(L, o) PROVE TypeOK' /\ ListInv'
  <2>1. PICK l \in Free :
          /\ NewLink(l, o, L, tail[L], NULL)
          /\ tail' = [tail EXCEPT ![L] = l]
          /\ head' = (IF tail[L] = NULL THEN [head EXCEPT ![L] = l] ELSE head)
    BY <1>8 DEF PushBack
  <2>2. /\ o \in Detached /\ iter' = iter /\ tail[L] \in Link \cup {NULL}
        /\ tail[L] = NULL => head[L] = NULL
        /\ tail[L] # NULL => parentlist[tail[L]] = L /\ next[tail[L]] = NULL
    BY <1>8 DEF PushBack, TypeOK, ListInv, EndsExact
  <2> QED BY <2>1, <2>2, InsertStep
<1>9. ASSUME NEW L \in List, NEW o \in Obj, Remove(L, o) \/ Erase(L, o) PROVE TypeOK' /\ ListInv'
  <2>1. PICK l \in ChainOf(L) : l # iter /\ (RemoveLink(l) \/ EraseLink(l)) /\ iter' = iter
    BY <1>9 DEF Remove, Erase
  <2>2. l \in Allocated
    BY ChainExact
  <2>3. iter' = NULL \/ iter' \in Allocated \ {l}
    BY <2>1 DEF ListInv, IteratorValid
  <2> QED BY <2>1, <2>2, <2>3, RemoveStep DEF RemoveLink, EraseLink
<1>10. ASSUME NEW L \in List, RemoveAll(L) \/ Clear(L) PROVE TypeOK' /\ ListInv'
  BY <1>10, DropStep DEF RemoveAll, Clear
<1>11. ASSUME NEW L \in List, Begin(L) \/ RBegin(L) PROVE TypeOK' /\ ListInv'
  BY <1>11, LinksUntouched DEF Begin, RBegin, TypeOK, ListInv, EndsExact
<1>12. ASSUME NEW L \in List, NEW x \in List, Merge(L, x) PROVE TypeOK' /\ ListInv'
  BY <1>12, MergeStep
<1>13. ASSUME NEW a \in Link, NEW b \in Link, Swap(a, b) PROVE TypeOK' /\ ListInv'
  BY <1>13, SwapStep
<1>14. ASSUME Increment \/ Decrement PROVE TypeOK' /\ ListInv'
  BY <1>14, LinksUntouched DEF Increment, Decrement, TypeOK, ListInv, IteratorValid, LinksMirror
<1>15. ASSUME IterErase \/ IterRErase \/ IterRemove \/ IterRRemove PROVE TypeOK' /\ ListInv'
  <2>1. /\ iter \in Allocated
        /\ RemoveLink(iter) \/ EraseLink(iter)
        /\ iter' = next[iter] \/ iter' = prev[iter]
    BY <1>15 DEF IterErase, IterRErase, IterRemove, IterRRemove, ListInv, IteratorValid
  <2>2. next[iter] # iter /\ prev[iter] # iter
    BY <2>1, NoSelfLoop
  <2>3. iter' = NULL \/ iter' \in Allocated \ {iter}
    BY <2>1, <2>2 DEF ListInv, LinksMirror, TypeOK
  <2> QED BY <2>1, <2>3, RemoveStep DEF RemoveLink, EraseLink
<1>16. CASE UNCHANGED vars
  BY <1>16, LinksUntouched DEF vars, listVars, linkVars, ListInv, IteratorValid, TypeOK
<1> QED BY <1>1, <1>2, <1>3, <1>4, <1>5, <1>6, <1>7, <1>8, <1>9, <1>10, <1>11, <1>12, <1>13,
           <1>14, <1>15, <1>16 DEF Next

LEMMA Inductive == Spec => [](TypeOK /\ ListInv)
BY InitInv, NextInv, PTL DEF Spec

\* Every pointer keeps its declared type in every run of the list code.
THEOREM TypeCorrect == Spec => []TypeOK
BY Inductive, PTL

\* A list is whole after every sequence of operations: its links mirror each other from
\* end to end and know their elements, and the iterator stands on one of them.
THEOREM ListsKept == Spec => []ListInv
BY Inductive, PTL

\* Link and element always know each other, after every insertion, removal, swap and
\* assignment through an iterator.
THEOREM ElementsKept == Spec => []ElementsExact
<1>1. ListInv => ElementsExact
  BY DEF ListInv
<1> QED BY <1>1, Inductive, PTL

\* The list is doubly linked from end to end: neighbours mirror each other, _head and
\* _tail are its ends, and a walk from _head misses no link.
THEOREM StructureKept == Spec => [](LinksMirror /\ EndsExact /\ WalkComplete)
<1>1. ListInv => LinksMirror /\ EndsExact /\ WalkComplete
  BY DEF ListInv
<1> QED BY <1>1, Inductive, PTL

\* The iterator never stands on a deleted link.
THEOREM IteratorKept == Spec => []IteratorValid
<1>1. ListInv => IteratorValid
  BY DEF ListInv
<1> QED BY <1>1, Inductive, PTL

\* getBList() of every element of a list is that list, as long as no two lists swap
\* their contents.
THEOREM GetBListKept == Spec => []GetBListExact
<1>1. TypeOK /\ ListInv => GetBListExact
  BY ChainExact DEF GetBListExact
<1> QED BY <1>1, Inductive, PTL
=============================================================================
