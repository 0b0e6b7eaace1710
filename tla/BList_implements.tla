-------------------------- MODULE BList_implements --------------------------
(***************************************************************************)
(* The lists of BList implement the sequences of ObjectLists, whatever the *)
(* numbers of lists, links and objects.  ObjectLists says what a list      *)
(* contains, BList follows pointers, and what joins them is a walk:        *)
(* IsWalk(n, s, L) says that s is the n links met from _head of L along    *)
(* next.  Four steps:                                                      *)
(*                                                                         *)
(*   - in a state of ListInv, Content(L) is what any walk of L reads       *)
(*     (WalkIs, ContentIs);                                                *)
(*   - each change of the pointers changes a walk as it should: a place is *)
(*     put in, cut out, the walk is emptied, two walks are joined;         *)
(*   - each operation therefore has its effect on the sequences, and every *)
(*     list still has a walk (WalksFinite, the invariant this adds);       *)
(*   - the two theorems follow.                                            *)
(*                                                                         *)
(* SequencesExt writes InsertAt and RemoveAt with SubSeq; the first lemmas *)
(* give them, and concatenation, as functions.                             *)
(***************************************************************************)
EXTENDS BList_proofs, SequenceTheorems, FiniteSetTheorems

USE NullAssumption DEF Allocated, Free

\* The operators of SequencesExt that ObjectLists is written with, as functions.

\* A concatenation, element by element.
LEMMA ConcatIs ==
    ASSUME NEW a \in Seq(Obj), NEW b \in Seq(Obj), NEW c, c = a \o b
    PROVE  /\ c \in Seq(Obj) /\ Len(c) = Len(a) + Len(b)
           /\ \A k \in 1 .. Len(c) : c[k] = IF k <= Len(a) THEN a[k] ELSE b[k - Len(a)]
BY ConcatProperties

\* A part of a sequence, element by element.
LEMMA PartIs ==
    ASSUME NEW s \in Seq(Obj), NEW f \in Nat \ {0}, NEW t \in Nat, f <= t + 1, t <= Len(s),
           NEW c, c = SubSeq(s, f, t)
    PROVE  /\ c \in Seq(Obj) /\ Len(c) = t + 1 - f
           /\ \A k \in 1 .. Len(c) : c[k] = s[f + k - 1]
<1>1. Len(s) \in Nat
  BY LenProperties
<1>2. \A k \in f .. t : s[k] \in Obj
  <2> SUFFICES ASSUME NEW k \in f .. t PROVE s[k] \in Obj
    OBVIOUS
  <2>1. k \in 1 .. Len(s)
    BY <1>1
  <2> QED BY <2>1, ElementOfSeq
<1>3. /\ c \in Seq(Obj) /\ Len(c) = IF f <= t THEN t - f + 1 ELSE 0
      /\ \A k \in 1 .. t - f + 1 : c[k] = s[f + k - 1]
  BY <1>2, SubSeqProperties
<1>4. Len(c) = t + 1 - f
  BY <1>3
<1> QED BY <1>3, <1>4

\* InsertAt moves what stands at the place and after it one further.
LEMMA InsertAtIs ==
    ASSUME NEW s \in Seq(Obj), NEW p \in 1 .. Len(s) + 1, NEW e \in Obj
    PROVE  /\ Abstract!InsertAt(s, p, e) \in Seq(Obj) /\ Len(Abstract!InsertAt(s, p, e)) = Len(s) + 1
           /\ \A k \in 1 .. Len(s) + 1 :
                 Abstract!InsertAt(s, p, e)[k] = IF k < p THEN s[k] ELSE IF k = p THEN e ELSE s[k - 1]
<1>1. PICK a : a = SubSeq(s, 1, p - 1)
  OBVIOUS
<1>2. PICK b : b = <<e>>
  OBVIOUS
<1>3. PICK c : c = SubSeq(s, p, Len(s))
  OBVIOUS
<1>4. PICK d : d = a \o b
  OBVIOUS
<1>5. PICK r : r = d \o c
  OBVIOUS
<1>6. Len(s) \in Nat /\ p \in Nat \ {0} /\ p - 1 \in Nat /\ p <= Len(s) + 1
  BY LenProperties
<1>7. a \in Seq(Obj) /\ Len(a) = p - 1 /\ \A k \in 1 .. p - 1 : a[k] = s[k]
  <2>1. /\ a \in Seq(Obj) /\ Len(a) = (p - 1) + 1 - 1
        /\ \A k \in 1 .. Len(a) : a[k] = s[1 + k - 1]
    BY <1>1, <1>6, PartIs
  <2> QED BY <1>6, <2>1
<1>8. b \in Seq(Obj) /\ Len(b) = 1 /\ b[1] = e
  BY <1>2
<1>9. /\ c \in Seq(Obj) /\ Len(c) = Len(s) + 1 - p
      /\ \A k \in 1 .. Len(c) : c[k] = s[p + k - 1]
  BY <1>3, <1>6, PartIs
<1>10. /\ d \in Seq(Obj) /\ Len(d) = Len(a) + Len(b)
       /\ \A k \in 1 .. Len(d) : d[k] = IF k <= Len(a) THEN a[k] ELSE b[k - Len(a)]
  <2>1. a \in Seq(Obj) /\ b \in Seq(Obj)
    BY <1>7, <1>8
  <2> QED BY <1>4, <2>1, ConcatIs
<1>11. /\ r \in Seq(Obj) /\ Len(r) = Len(d) + Len(c)
       /\ \A k \in 1 .. Len(r) : r[k] = IF k <= Len(d) THEN d[k] ELSE c[k - Len(d)]
  <2>1. d \in Seq(Obj) /\ c \in Seq(Obj)
    BY <1>9, <1>10
  <2> QED BY <1>5, <2>1, ConcatIs
<1>12. Len(d) = p /\ Len(r) = Len(s) + 1
  BY <1>6, <1>7, <1>8, <1>9, <1>10, <1>11
<1>13. ASSUME NEW k \in 1 .. Len(s) + 1
       PROVE  r[k] = IF k < p THEN s[k] ELSE IF k = p THEN e ELSE s[k - 1]
  <2>1. CASE k < p
    <3>1. k \in 1 .. Len(r) /\ k \in 1 .. Len(d) /\ k \in 1 .. p - 1 /\ k <= Len(d) /\ k <= Len(a)
      BY <1>6, <1>7, <1>12, <2>1
    <3> QED BY <1>7, <1>10, <1>11, <2>1, <3>1
  <2>2. CASE k = p
    BY <1>6, <1>7, <1>8, <1>10, <1>11, <1>12, <2>2
  <2>3. CASE k > p
    <3>1. r[k] = c[k - p] /\ k - p \in 1 .. Len(c) /\ p + (k - p) - 1 = k - 1
      BY <1>6, <1>9, <1>11, <1>12, <2>3
    <3> QED BY <1>6, <1>9, <2>3, <3>1
  <2>4. k \in Int /\ p \in Int
    BY <1>6
  <2>5. k < p \/ k = p \/ k > p
    BY <2>4
  <2> QED BY <2>1, <2>2, <2>3, <2>4, <2>5
<1>14. Abstract!InsertAt(s, p, e) = r
  BY <1>1, <1>2, <1>3, <1>4, <1>5 DEF Abstract!InsertAt
<1> QED BY <1>11, <1>12, <1>13, <1>14

\* RemoveAt moves what stands after the place one back.
LEMMA RemoveAtIs ==
    ASSUME NEW s \in Seq(Obj), NEW p \in 1 .. Len(s)
    PROVE  /\ Abstract!RemoveAt(s, p) \in Seq(Obj) /\ Len(Abstract!RemoveAt(s, p)) = Len(s) - 1
           /\ \A k \in 1 .. Len(s) - 1 : Abstract!RemoveAt(s, p)[k] = IF k < p THEN s[k] ELSE s[k + 1]
<1>1. PICK a : a = SubSeq(s, 1, p - 1)
  OBVIOUS
<1>2. PICK c : c = SubSeq(s, p + 1, Len(s))
  OBVIOUS
<1>3. PICK r : r = a \o c
  OBVIOUS
<1>4. /\ Len(s) \in Nat /\ p \in Nat \ {0} /\ p - 1 \in Nat /\ p <= Len(s)
      /\ p + 1 \in Nat \ {0} /\ p + 1 <= Len(s) + 1
  BY LenProperties
<1>5. a \in Seq(Obj) /\ Len(a) = p - 1 /\ \A k \in 1 .. p - 1 : a[k] = s[k]
  <2>1. /\ a \in Seq(Obj) /\ Len(a) = (p - 1) + 1 - 1
        /\ \A k \in 1 .. Len(a) : a[k] = s[1 + k - 1]
    BY <1>1, <1>4, PartIs
  <2> QED BY <1>4, <2>1
<1>6. /\ c \in Seq(Obj) /\ Len(c) = Len(s) + 1 - (p + 1)
      /\ \A k \in 1 .. Len(c) : c[k] = s[(p + 1) + k - 1]
  BY <1>2, <1>4, PartIs
<1>7. /\ r \in Seq(Obj) /\ Len(r) = Len(a) + Len(c)
      /\ \A k \in 1 .. Len(r) : r[k] = IF k <= Len(a) THEN a[k] ELSE c[k - Len(a)]
  <2>1. a \in Seq(Obj) /\ c \in Seq(Obj)
    BY <1>5, <1>6
  <2> QED BY <1>3, <2>1, ConcatIs
<1>8. Len(r) = Len(s) - 1
  BY <1>4, <1>5, <1>6, <1>7
<1>9. ASSUME NEW k \in 1 .. Len(s) - 1 PROVE r[k] = IF k < p THEN s[k] ELSE s[k + 1]
  <2>1. CASE k < p
    <3>1. k \in 1 .. Len(r) /\ k \in 1 .. p - 1 /\ k <= Len(a)
      BY <1>4, <1>5, <1>8, <2>1
    <3> QED BY <1>5, <1>7, <2>1, <3>1
  <2>2. CASE k >= p
    <3>1. /\ r[k] = c[k - (p - 1)] /\ k - (p - 1) \in 1 .. Len(c)
          /\ (p + 1) + (k - (p - 1)) - 1 = k + 1
      BY <1>4, <1>5, <1>6, <1>7, <1>8, <2>2
    <3> QED BY <1>4, <1>6, <2>2, <3>1
  <2> QED BY <1>4, <2>1, <2>2
<1>10. Abstract!RemoveAt(s, p) = r
  BY <1>1, <1>2, <1>3 DEF Abstract!RemoveAt
<1> QED BY <1>7, <1>8, <1>9, <1>10

\* A function on 1 .. n is a sequence of n elements.
LEMMA SeqIs ==
    ASSUME NEW n \in Nat, NEW s \in [1 .. n -> Obj]
    PROVE  s \in Seq(Obj) /\ Len(s) = n
<1>1. s \in Seq(Obj)
  BY SeqDef
<1>2. DOMAIN s = 1 .. n /\ DOMAIN s = 1 .. Len(s) /\ Len(s) \in Nat
  BY <1>1, LenProperties
<1> QED BY <1>1, <1>2

\* The same of sequences that are given as functions.
LEMMA AppendedAs ==
    ASSUME NEW s \in Seq(Obj), NEW t \in Seq(Obj)
    PROVE  s \o t = [k \in 1 .. Len(s) + Len(t) |-> IF k <= Len(s) THEN s[k] ELSE t[k - Len(s)]]
<1>1. PICK r : r = s \o t
  OBVIOUS
<1>2. /\ r \in Seq(Obj) /\ Len(r) = Len(s) + Len(t)
      /\ \A k \in 1 .. Len(r) : r[k] = IF k <= Len(s) THEN s[k] ELSE t[k - Len(s)]
  BY <1>1, ConcatIs
<1>3. r \in [1 .. Len(s) + Len(t) -> Obj]
  BY <1>2, LenProperties
<1> QED BY <1>1, <1>2, <1>3

\* s and then t.
Joined(m, s, n, t) == [k \in 1 .. m + n |-> IF k <= m THEN s[k] ELSE t[k - m]]

\* A concatenation of functions on 1 .. m and 1 .. n.
LEMMA AppendedIs ==
    ASSUME NEW m \in Nat, NEW n \in Nat, NEW s \in [1 .. m -> Obj], NEW t \in [1 .. n -> Obj]
    PROVE  s \o t = Joined(m, s, n, t)
<1>1. s \in Seq(Obj) /\ Len(s) = m /\ t \in Seq(Obj) /\ Len(t) = n
  BY SeqIs
<1>2. s \o t = [k \in 1 .. Len(s) + Len(t) |-> IF k <= Len(s) THEN s[k] ELSE t[k - Len(s)]]
  BY <1>1, AppendedAs
<1> QED BY <1>1, <1>2 DEF Joined

\* InsertAt as a function.
LEMMA InsertedAs ==
    ASSUME NEW s \in Seq(Obj), NEW p \in 1 .. Len(s) + 1, NEW e \in Obj
    PROVE  Abstract!InsertAt(s, p, e) =
              [k \in 1 .. Len(s) + 1 |-> IF k < p THEN s[k] ELSE IF k = p THEN e ELSE s[k - 1]]
<1>1. /\ Abstract!InsertAt(s, p, e) \in Seq(Obj) /\ Len(Abstract!InsertAt(s, p, e)) = Len(s) + 1
      /\ \A k \in 1 .. Len(s) + 1 :
            Abstract!InsertAt(s, p, e)[k] = IF k < p THEN s[k] ELSE IF k = p THEN e ELSE s[k - 1]
  BY InsertAtIs
<1>2. Abstract!InsertAt(s, p, e) \in [1 .. Len(s) + 1 -> Obj]
  BY <1>1, LenProperties
<1> QED BY <1>1, <1>2

\* The same, of a function on 1 .. n.
LEMMA InsertedIs ==
    ASSUME NEW n \in Nat, NEW s \in [1 .. n -> Obj], NEW p \in 1 .. n + 1, NEW e \in Obj
    PROVE  Abstract!InsertAt(s, p, e) =
              [k \in 1 .. n + 1 |-> IF k < p THEN s[k] ELSE IF k = p THEN e ELSE s[k - 1]]
<1>1. s \in Seq(Obj) /\ Len(s) = n
  BY SeqIs
<1>2. p \in 1 .. Len(s) + 1
  BY <1>1
<1>3. Abstract!InsertAt(s, p, e) =
              [k \in 1 .. Len(s) + 1 |-> IF k < p THEN s[k] ELSE IF k = p THEN e ELSE s[k - 1]]
  BY <1>1, <1>2, InsertedAs
<1> QED BY <1>1, <1>3

\* RemoveAt as a function, of a function on 1 .. n.
LEMMA RemovedIs ==
    ASSUME NEW n \in Nat, NEW s \in [1 .. n -> Obj], NEW p \in 1 .. n
    PROVE  Abstract!RemoveAt(s, p) = [k \in 1 .. n - 1 |-> IF k < p THEN s[k] ELSE s[k + 1]]
<1>1. s \in Seq(Obj) /\ Len(s) = n
  BY SeqIs
<1>2. PICK r : r = Abstract!RemoveAt(s, p)
  OBVIOUS
<1>3. /\ r \in Seq(Obj) /\ Len(r) = n - 1
      /\ \A k \in 1 .. n - 1 : r[k] = IF k < p THEN s[k] ELSE s[k + 1]
  BY <1>1, <1>2, RemoveAtIs
<1>4. r \in [1 .. Len(r) -> Obj]
  BY <1>3, LenProperties
<1> QED BY <1>2, <1>3, <1>4

-----------------------------------------------------------------------------
\* The n links of list L in the order of a walk.
IsWalk(n, s, L) ==
    /\ \A i \in 1 .. n : parentlist[s[i]] = L
    /\ \A i, j \in 1 .. n : s[i] = s[j] => i = j
    /\ head[L] = IF n = 0 THEN NULL ELSE s[1]
    /\ \A i \in 1 .. n : next[s[i]] = IF i = n THEN NULL ELSE s[i + 1]

\* The set S holds the first of n places and, with a place, the next.
Covers(S, n) == S \subseteq 1 .. n /\ (n # 0 => 1 \in S) /\ \A i \in S : i # n => i + 1 \in S

\* A walk meets every link of its list: no such set misses any.
LEMMA WalkReaches ==
    ASSUME TypeOK, ListInv, NEW L \in List, NEW n \in Nat, NEW s \in [1 .. n -> Link],
           IsWalk(n, s, L),
           NEW S, Covers(S, n)
    PROVE  /\ (\A i \in 1 .. n : i \in S)
           /\ \A l \in Link : parentlist[l] = L => \E i \in S : l = s[i]
<1> DEFINE T == {s[i] : i \in S}
<1>1. T \in SUBSET Link
  BY DEF Covers
<1>2. ASSUME NEW l \in T, next[l] # NULL PROVE next[l] \in T
  <2>1. PICK i \in S : l = s[i]
    OBVIOUS
  <2>2. i # n /\ next[l] = s[i + 1]
    BY <1>2, <2>1 DEF IsWalk, Covers
  <2> QED BY <2>1, <2>2 DEF Covers
<1>3. Closed(T)
  BY <1>2 DEF Closed
<1>4. head[L] # NULL => head[L] \in T
  BY DEF IsWalk, Covers
<1>5. \A l \in Link : parentlist[l] = L => l \in T
  <2> HIDE DEF T
  <2> QED BY <1>1, <1>3, <1>4 DEF ListInv, WalkComplete, ChainOf, Chain
<1>6. \A i \in 1 .. n : i \in S
  <2> SUFFICES ASSUME NEW i \in 1 .. n PROVE i \in S
    OBVIOUS
  <2>1. s[i] \in T
    BY <1>5 DEF IsWalk
  <2>2. PICK j \in S : s[i] = s[j]
    BY <2>1
  <2> QED BY <2>2 DEF IsWalk, Covers
<1> QED BY <1>5, <1>6

\* The places of a walk are the links of the list.
LEMMA WalkCovers ==
    ASSUME TypeOK, ListInv, NEW L \in List, NEW n \in Nat, NEW s \in [1 .. n -> Link],
           IsWalk(n, s, L)
    PROVE  \A l \in Link : parentlist[l] = L <=> \E i \in 1 .. n : l = s[i]
<1>1. Covers(1 .. n, n)
  BY DEF Covers
<1>2. \A l \in Link : parentlist[l] = L => \E i \in 1 .. n : l = s[i]
  BY <1>1, WalkReaches
<1>3. \A i \in 1 .. n : parentlist[s[i]] = L
  BY DEF IsWalk
<1> QED BY <1>2, <1>3

\* The walk that Walk computes.
LEMMA WalkIs ==
    ASSUME TypeOK, ListInv, NEW L \in List, NEW n \in Nat, NEW s \in [1 .. n -> Link],
           IsWalk(n, s, L)
    PROVE  Walk(L) = s
<1>1. ChainOf(L) = {s[i] : i \in 1 .. n}
  BY ChainExact, WalkCovers
<1>2. s \in Bijection(1 .. n, ChainOf(L))
  BY <1>1 DEF IsWalk, Bijection, Injection, Surjection, IsInjective
<1>3. Cardinality(ChainOf(L)) = n
  BY <1>2, FS_CountingElements DEF ExistsBijection
<1> DEFINE Turns(at) == [k \in 1 .. n |-> IF k = 1 THEN head[L] ELSE next[at[k - 1]]]
<1>4. Walk(L) = CHOOSE at : at = Turns(at)
  BY <1>3 DEF Walk
<1>5. s = Turns(s)
  BY DEF IsWalk
<1>6. PICK at : at = Walk(L)
  OBVIOUS
<1>7. at = Turns(at)
  BY <1>4, <1>5, <1>6
<1>8. PICK S : S = {i \in 1 .. n : at[i] = s[i]}
  OBVIOUS
<1>9. n # 0 => 1 \in S
  BY <1>7, <1>8 DEF IsWalk
<1>10. ASSUME NEW i \in S, i # n PROVE i + 1 \in S
  <2>1. i \in 1 .. n /\ at[i] = s[i]
    BY <1>8
  <2>2. i + 1 \in 1 .. n /\ i + 1 # 1 /\ (i + 1) - 1 = i
    BY <1>10, <2>1
  <2>3. s[i + 1] = next[s[i]]
    BY <1>5, <2>2
  <2>4. at[i + 1] = next[at[i]]
    BY <1>7, <2>2
  <2> QED BY <1>8, <2>1, <2>2, <2>3, <2>4
<1>11. Covers(S, n)
  BY <1>8, <1>9, <1>10 DEF Covers
<1>12. \A i \in 1 .. n : i \in S
  BY <1>11, WalkReaches
<1> QED BY <1>6, <1>7, <1>8, <1>12

-----------------------------------------------------------------------------
\* What a walk of n links meets.
Reads(n, s) == [i \in 1 .. n |-> element[s[i]]]

\* Content(L) is what any walk of L reads, and it reads objects.
ContentsRead ==
    \A L \in List : \A n \in Nat : \A s \in [1 .. n -> Link] :
        IsWalk(n, s, L) => Content(L) = Reads(n, s) /\ Reads(n, s) \in [1 .. n -> Obj]

\* Content reads the elements along any walk of the list: there is only one.
LEMMA ContentIs == TypeOK /\ ListInv => ContentsRead
<1> SUFFICES ASSUME TypeOK, ListInv, NEW L \in List, NEW n \in Nat, NEW s \in [1 .. n -> Link],
                    IsWalk(n, s, L)
             PROVE  Content(L) = Reads(n, s) /\ Reads(n, s) \in [1 .. n -> Obj]
  BY DEF ContentsRead
<1>1. Walk(L) = s
  BY WalkIs
<1>2. ASSUME NEW i \in 1 .. n PROVE element[s[i]] \in Obj
  <2>1. parentlist[s[i]] = L
    BY DEF IsWalk
  <2>2. s[i] \in Allocated
    BY <2>1
  <2> QED BY <2>2 DEF ListInv, ElementsExact, TypeOK
<1> QED BY <1>1, <1>2 DEF Content, Reads

-----------------------------------------------------------------------------
\* The walks of a list an operation does not touch.
LEMMA StaysWalk ==
    ASSUME TypeOK, NEW K \in List, NEW n \in Nat, NEW s \in [1 .. n -> Link], IsWalk(n, s, K),
           head'[K] = head[K],
           \A l \in Link : parentlist[l] = K => parentlist'[l] = K /\ next'[l] = next[l]
    PROVE  IsWalk(n, s, K)'
BY DEF IsWalk

\* A new link l for o at place q of the walk s of list L.
NewAt(L, n, s, q, l, o) ==
    /\ NewLink(l, o, L, IF q = 1 THEN NULL ELSE s[q - 1], IF q = n + 1 THEN NULL ELSE s[q])
    /\ head' = IF q = 1 THEN [head EXCEPT ![L] = l] ELSE head

\* The walk s with e at place q.
PutAt(n, s, q, e) == [k \in 1 .. n + 1 |-> IF k < q THEN s[k] ELSE IF k = q THEN e ELSE s[k - 1]]

\* The walk after the insertion.
LEMMA InsertWalk ==
    ASSUME TypeOK, NEW L \in List, NEW n \in Nat, NEW s \in [1 .. n -> Link], IsWalk(n, s, L),
           NEW q \in 1 .. n + 1, NEW l \in Free, NEW o \in Obj, NewAt(L, n, s, q, l, o)
    PROVE  PutAt(n, s, q, l) \in [1 .. n + 1 -> Link] /\ IsWalk(n + 1, PutAt(n, s, q, l), L)'
<1> PICK t : t = PutAt(n, s, q, l)
  OBVIOUS
<1>a. t = [k \in 1 .. n + 1 |-> IF k < q THEN s[k] ELSE IF k = q THEN l ELSE s[k - 1]]
  BY DEF PutAt
<1>b. next' = [k \in Link |-> IF k = l THEN (IF q = n + 1 THEN NULL ELSE s[q])
                                 ELSE IF q # 1 /\ k = s[q - 1] THEN l ELSE next[k]]
  <2>1. next' = [k \in Link |-> IF k = l THEN (IF q = n + 1 THEN NULL ELSE s[q])
                                 ELSE IF k = (IF q = 1 THEN NULL ELSE s[q - 1]) THEN l ELSE next[k]]
    BY DEF NewAt, NewLink
  <2> QED BY <2>1
<1>c. parentlist' = [parentlist EXCEPT ![l] = L] /\ head'[L] = IF q = 1 THEN l ELSE head[L]
  BY DEF NewAt, NewLink, TypeOK
<1> l \in Link /\ parentlist[l] = NULL /\ L # NULL
  OBVIOUS
<1>1. ASSUME NEW k \in 1 .. n + 1
      PROVE  /\ k < q => k \in 1 .. n /\ t[k] = s[k]
             /\ k = q => t[k] = l
             /\ k > q => k - 1 \in 1 .. n /\ t[k] = s[k - 1]
  BY <1>a
<1>2. t \in [1 .. n + 1 -> Link]
  BY <1>a
<1>3. \A k \in 1 .. n : s[k] # l /\ parentlist[s[k]] = L
  BY DEF IsWalk
<1>4. \A k \in 1 .. n + 1 : parentlist'[t[k]] = L
  BY <1>1, <1>3, <1>c DEF TypeOK
<1>5. ASSUME NEW i \in 1 .. n + 1, NEW j \in 1 .. n + 1, t[i] = t[j] PROVE i = j
  BY <1>1, <1>3, <1>5 DEF IsWalk
<1>6. head'[L] = t[1]
  BY <1>1, <1>c DEF IsWalk
<1>7. ASSUME NEW k \in 1 .. n + 1 PROVE next'[t[k]] = IF k = n + 1 THEN NULL ELSE t[k + 1]
  <2>1. CASE k = q
    <3>1. k # n + 1 => k + 1 \in 1 .. n + 1 /\ t[k + 1] = s[q]
      BY <1>1, <2>1
    <3> QED BY <1>1, <1>b, <2>1, <3>1
  <2>2. CASE k < q
    <3>1. k + 1 \in 1 .. n + 1 /\ k # n + 1 /\ k \in 1 .. n /\ t[k] = s[k] /\ s[k] # l
      BY <1>1, <1>3, <2>2
    <3>2. CASE k + 1 = q
      BY <1>1, <1>b, <3>1, <3>2
    <3>3. CASE k + 1 < q
      <4>1. q # 1 /\ q - 1 \in 1 .. n /\ k # q - 1
        BY <3>3
      <4>2. s[k] # s[q - 1]
        BY <3>1, <4>1 DEF IsWalk
      <4>3. next'[t[k]] = next[s[k]] /\ k # n /\ next[s[k]] = s[k + 1]
        BY <1>b, <3>1, <3>3, <4>1, <4>2 DEF IsWalk
      <4> QED BY <1>1, <3>1, <3>3, <4>3
    <3> QED BY <2>2, <3>2, <3>3
  <2>3. CASE k > q
    <3>1. k - 1 \in 1 .. n /\ t[k] = s[k - 1] /\ s[k - 1] # l
      BY <1>1, <1>3, <2>3
    <3>2. q # 1 => s[k - 1] # s[q - 1]
      <4>1. q # 1 => q - 1 \in 1 .. n /\ q - 1 # k - 1
        BY <2>3
      <4> QED BY <3>1, <4>1 DEF IsWalk
    <3>3. next'[t[k]] = next[s[k - 1]]
      BY <1>b, <3>1, <3>2
    <3>4. next[s[k - 1]] = IF k - 1 = n THEN NULL ELSE s[(k - 1) + 1]
      BY <3>1 DEF IsWalk
    <3>5. k # n + 1 => k + 1 \in 1 .. n + 1 /\ t[k + 1] = s[k] /\ (k - 1) + 1 = k
      <4> SUFFICES ASSUME k # n + 1 PROVE k + 1 \in 1 .. n + 1 /\ t[k + 1] = s[k] /\ (k - 1) + 1 = k
        OBVIOUS
      <4>1. k + 1 \in 1 .. n + 1 /\ k + 1 > q /\ (k + 1) - 1 = k
        BY <2>3
      <4> QED BY <1>1, <4>1
    <3> QED BY <3>3, <3>4, <3>5
  <2> QED BY <2>1, <2>2, <2>3
<1>8. n + 1 # 0
  OBVIOUS
<1> QED BY <1>2, <1>4, <1>5, <1>6, <1>7, <1>8 DEF IsWalk

\* A walk read backwards.
LEMMA BackIs ==
    ASSUME TypeOK, ListInv, NEW L \in List, NEW n \in Nat, NEW s \in [1 .. n -> Link],
           IsWalk(n, s, L)
    PROVE  /\ \A i \in 1 .. n : prev[s[i]] = IF i = 1 THEN NULL ELSE s[i - 1]
           /\ tail[L] = IF n = 0 THEN NULL ELSE s[n]
<1> USE DEF ListInv
<1>1. ASSUME NEW i \in 1 .. n PROVE prev[s[i]] = IF i = 1 THEN NULL ELSE s[i - 1]
  <2>1. CASE i = 1
    BY <2>1 DEF IsWalk, EndsExact
  <2>2. CASE i # 1
    <3>1. i - 1 \in 1 .. n /\ i - 1 # n /\ (i - 1) + 1 = i
      BY <2>2
    <3>2. next[s[i - 1]] = s[i] /\ s[i - 1] \in Allocated /\ s[i] # NULL
      BY <3>1 DEF IsWalk
    <3> QED BY <2>2, <3>2 DEF LinksMirror
  <2> QED BY <2>1, <2>2
<1>2. tail[L] = IF n = 0 THEN NULL ELSE s[n]
  <2>1. CASE n = 0
    BY <2>1 DEF IsWalk, EndsExact
  <2>2. CASE n # 0
    <3>1. n \in 1 .. n
      BY <2>2
    <3>2. next[s[n]] = NULL /\ s[n] \in Allocated /\ parentlist[s[n]] = L
      BY <3>1 DEF IsWalk
    <3> QED BY <2>2, <3>2 DEF EndsExact
  <2> QED BY <2>1, <2>2
<1> QED BY <1>1, <1>2

\* The walk s without its place q.
CutAt(n, s, q) == [k \in 1 .. n - 1 |-> IF k < q THEN s[k] ELSE s[k + 1]]

\* The walk after the removal.
LEMMA RemoveWalk ==
    ASSUME TypeOK, ListInv, NEW L \in List, NEW n \in Nat, NEW s \in [1 .. n -> Link],
           IsWalk(n, s, L),
           NEW q \in 1 .. n, RemoveFromList(s[q])
    PROVE  CutAt(n, s, q) \in [1 .. n - 1 -> Link] /\ IsWalk(n - 1, CutAt(n, s, q), L)'
<1> PICK t : t = CutAt(n, s, q)
  OBVIOUS
<1>1. ASSUME NEW k \in 1 .. n - 1
      PROVE  /\ k < q => k \in 1 .. n /\ t[k] = s[k]
             /\ k >= q => k + 1 \in 1 .. n /\ t[k] = s[k + 1]
  BY DEF CutAt
<1>2. t \in [1 .. n - 1 -> Link]
  BY DEF CutAt
<1>3. ASSUME NEW k \in 1 .. n, k # q PROVE s[k] # s[q]
  BY <1>3 DEF IsWalk
<1>4. \A k \in 1 .. n : s[k] \in Link /\ parentlist[s[k]] = L
  BY DEF IsWalk
<1>5. parentlist' = [parentlist EXCEPT ![s[q]] = NULL] /\ parentlist[s[q]] = L
  BY <1>4 DEF RemoveFromList
<1>6. ASSUME NEW k \in 1 .. n - 1 PROVE parentlist'[t[k]] = L
  BY <1>1, <1>3, <1>4, <1>5 DEF TypeOK
<1>7. ASSUME NEW i \in 1 .. n - 1, NEW j \in 1 .. n - 1, t[i] = t[j] PROVE i = j
  BY <1>1, <1>7 DEF IsWalk
<1>8. prev[s[q]] = IF q = 1 THEN NULL ELSE s[q - 1]
  BY BackIs
<1>9. next[s[q]] = IF q = n THEN NULL ELSE s[q + 1]
  BY DEF IsWalk
<1>10. head'[L] = IF n - 1 = 0 THEN NULL ELSE t[1]
  <2>1. head[L] = s[1] /\ head' = IF s[1] = s[q] THEN [head EXCEPT ![L] = next[s[q]]] ELSE head
    <3>1. head[L] = s[1]
      BY DEF IsWalk
    <3>2. head' = IF head[L] = s[q] THEN [head EXCEPT ![L] = next[s[q]]] ELSE head
      BY <1>5 DEF RemoveFromList, HeadWithout
    <3> QED BY <3>1, <3>2
  <2>2. CASE q = 1
    <3>1. head'[L] = next[s[q]]
      BY <2>1, <2>2 DEF TypeOK
    <3> QED BY <1>1, <1>9, <2>2, <3>1
  <2>3. CASE q # 1
    BY <1>1, <1>3, <2>1, <2>3
  <2> QED BY <2>2, <2>3
<1>11. next' = [k \in Link |-> IF k = s[q] THEN NULL
                               ELSE IF k = prev[s[q]] THEN next[s[q]] ELSE next[k]]
  BY DEF RemoveFromList, NextWithout
<1>12. ASSUME NEW k \in 1 .. n - 1 PROVE next'[t[k]] = IF k = n - 1 THEN NULL ELSE t[k + 1]
  <2>1. CASE k >= q
    <3>1. k + 1 \in 1 .. n /\ t[k] = s[k + 1] /\ s[k + 1] # s[q]
      BY <1>1, <1>3, <2>1
    <3>2. q # 1 => s[k + 1] # s[q - 1]
      <4>1. q # 1 => q - 1 \in 1 .. n /\ q - 1 # k + 1
        BY <2>1
      <4> QED BY <3>1, <4>1 DEF IsWalk
    <3>3. next'[t[k]] = next[s[k + 1]]
      BY <1>4, <1>8, <1>11, <3>1, <3>2
    <3>4. next[s[k + 1]] = IF k + 1 = n THEN NULL ELSE s[(k + 1) + 1]
      BY <3>1 DEF IsWalk
    <3>5. k # n - 1 => t[k + 1] = s[(k + 1) + 1]
      <4> SUFFICES ASSUME k # n - 1 PROVE t[k + 1] = s[(k + 1) + 1]
        OBVIOUS
      <4>1. k + 1 \in 1 .. n - 1 /\ k + 1 >= q
        BY <2>1
      <4> QED BY <1>1, <4>1
    <3> QED BY <3>3, <3>4, <3>5
  <2>2. CASE k + 1 = q
    <3>1. k \in 1 .. n /\ t[k] = s[k] /\ q # 1 /\ q - 1 = k /\ s[k] # s[q]
      BY <1>1, <1>3, <2>2
    <3>2. next'[t[k]] = next[s[q]]
      BY <1>4, <1>8, <1>11, <3>1
    <3>3. k # n - 1 => t[k + 1] = s[q + 1]
      <4> SUFFICES ASSUME k # n - 1 PROVE t[k + 1] = s[q + 1]
        OBVIOUS
      <4>1. k + 1 \in 1 .. n - 1 /\ k + 1 >= q
        BY <2>2
      <4> QED BY <1>1, <2>2, <4>1
    <3> QED BY <1>9, <2>2, <3>2, <3>3
  <2>3. CASE k + 1 < q
    <3>1. k \in 1 .. n /\ t[k] = s[k] /\ k # n /\ s[k] # s[q]
      BY <1>1, <1>3, <2>3
    <3>2. q # 1 => s[k] # s[q - 1]
      <4>1. q # 1 => q - 1 \in 1 .. n /\ q - 1 # k
        BY <2>3
      <4> QED BY <3>1, <4>1 DEF IsWalk
    <3>3. next'[t[k]] = next[s[k]]
      BY <1>4, <1>8, <1>11, <3>1, <3>2
    <3>4. next[s[k]] = s[k + 1]
      BY <3>1 DEF IsWalk
    <3>5. k + 1 \in 1 .. n - 1 /\ k # n - 1 /\ t[k + 1] = s[k + 1]
      <4>1. k + 1 \in 1 .. n - 1 /\ k + 1 < q /\ k # n - 1
        BY <2>3
      <4> QED BY <1>1, <4>1
    <3> QED BY <3>3, <3>4, <3>5
  <2> QED BY <2>1, <2>2, <2>3
<1> QED BY <1>2, <1>6, <1>7, <1>10, <1>12 DEF IsWalk

\* Two lists joined.
\* The walk after a merge: that of L and then that of x.
LEMMA MergeWalk ==
    ASSUME TypeOK, ListInv, NEW L \in List, NEW x \in List, Merge(L, x),
           NEW m \in Nat, NEW s \in [1 .. m -> Link], IsWalk(m, s, L),
           NEW n \in Nat, NEW t \in [1 .. n -> Link], IsWalk(n, t, x)
    PROVE  Joined(m, s, n, t) \in [1 .. m + n -> Link] /\ IsWalk(m + n, Joined(m, s, n, t), L)'
<1> PICK u : u = Joined(m, s, n, t)
  OBVIOUS
<1>1. ASSUME NEW k \in 1 .. m + n
      PROVE  /\ k <= m => k \in 1 .. m /\ u[k] = s[k]
             /\ k > m => k - m \in 1 .. n /\ u[k] = t[k - m]
  BY DEF Joined
<1>2. u \in [1 .. m + n -> Link]
  BY DEF Joined
<1>3. \A k \in 1 .. m : s[k] \in Link /\ parentlist[s[k]] = L
  BY DEF IsWalk
<1>4. \A k \in 1 .. n : t[k] \in Link /\ parentlist[t[k]] = x
  BY DEF IsWalk
<1>5. L # x
  BY DEF Merge
<1>6. \A i \in 1 .. m : \A j \in 1 .. n : s[i] # t[j]
  BY <1>3, <1>4, <1>5
<1>7. ASSUME NEW k \in 1 .. m + n PROVE parentlist'[u[k]] = L
  <2>1. parentlist' = [l \in Link |-> IF l \in ChainOf(x) THEN L ELSE parentlist[l]]
    BY DEF Merge
  <2>2. ChainOf(x) = {l \in Link : parentlist[l] = x}
    BY ChainExact
  <2> QED BY <1>1, <1>3, <1>4, <2>1, <2>2
<1>8. ASSUME NEW i \in 1 .. m + n, NEW j \in 1 .. m + n, u[i] = u[j] PROVE i = j
  <2>1. CASE i <= m /\ j <= m
    BY <1>1, <1>8, <2>1 DEF IsWalk
  <2>2. CASE i > m /\ j > m
    <3>1. i - m \in 1 .. n /\ j - m \in 1 .. n /\ t[i - m] = t[j - m]
      BY <1>1, <1>8, <2>2
    <3>2. i - m = j - m
      BY <3>1 DEF IsWalk
    <3> QED BY <3>2
  <2>3. CASE i <= m /\ j > m
    BY <1>1, <1>6, <1>8, <2>3
  <2>4. CASE i > m /\ j <= m
    BY <1>1, <1>6, <1>8, <2>4
  <2> QED BY <2>1, <2>2, <2>3, <2>4
<1>9. tail[L] = (IF m = 0 THEN NULL ELSE s[m]) /\ head[x] = (IF n = 0 THEN NULL ELSE t[1])
  <2>1. tail[L] = IF m = 0 THEN NULL ELSE s[m]
    BY BackIs
  <2> QED BY <2>1 DEF IsWalk
<1>10. head'[L] = IF m + n = 0 THEN NULL ELSE u[1]
  <2>1. head' = [head EXCEPT ![L] = IF tail[L] = NULL THEN head[x] ELSE @, ![x] = NULL]
    BY DEF Merge
  <2>2. head'[L] = IF tail[L] = NULL THEN head[x] ELSE head[L]
    BY <1>5, <2>1 DEF TypeOK
  <2>3. CASE m = 0
    BY <1>1, <1>9, <2>2, <2>3
  <2>4. CASE m # 0
    <3>1. 1 \in 1 .. m + n /\ 1 <= m /\ m \in 1 .. m
      BY <2>4
    <3>2. head[L] = s[1] /\ tail[L] # NULL
      BY <1>3, <1>9, <2>4, <3>1 DEF IsWalk
    <3> QED BY <1>1, <2>2, <3>1, <3>2
  <2> QED BY <2>3, <2>4
<1>11. ASSUME NEW k \in 1 .. m + n PROVE next'[u[k]] = IF k = m + n THEN NULL ELSE u[k + 1]
  <2>1. next' = IF tail[L] = NULL THEN next ELSE [next EXCEPT ![tail[L]] = head[x]]
    BY DEF Merge
  <2>2. CASE k < m
    <3>1. k \in 1 .. m /\ u[k] = s[k] /\ m \in 1 .. m /\ s[k] # s[m] /\ tail[L] = s[m]
      BY <1>1, <1>9, <2>2 DEF IsWalk
    <3>2. next'[u[k]] = next[s[k]]
      BY <2>1, <3>1 DEF TypeOK
    <3>3. next[s[k]] = s[k + 1]
      BY <2>2, <3>1 DEF IsWalk
    <3>4. u[k + 1] = s[k + 1] /\ k # m + n
      <4>1. k + 1 \in 1 .. m + n /\ k + 1 <= m /\ k # m + n
        BY <2>2
      <4> QED BY <1>1, <4>1
    <3> QED BY <3>2, <3>3, <3>4
  <2>3. CASE k = m
    <3>1. k \in 1 .. m /\ u[k] = s[m] /\ tail[L] = s[m] /\ s[m] \in Link
      BY <1>1, <1>3, <1>9, <2>3
    <3>2. next'[u[k]] = head[x]
      BY <2>1, <3>1 DEF TypeOK
    <3>3. k # m + n => u[k + 1] = t[1] /\ n # 0
      <4> SUFFICES ASSUME k # m + n PROVE u[k + 1] = t[1] /\ n # 0
        OBVIOUS
      <4>1. k + 1 \in 1 .. m + n /\ k + 1 > m /\ n # 0 /\ (k + 1) - m = 1
        BY <2>3
      <4> QED BY <1>1, <4>1
    <3> QED BY <1>9, <2>3, <3>2, <3>3
  <2>4. CASE k > m
    <3>1. k - m \in 1 .. n /\ u[k] = t[k - m]
      BY <1>1, <2>4
    <3>2. m # 0 => tail[L] # t[k - m]
      BY <1>6, <1>9, <3>1
    <3>3. next'[u[k]] = next[t[k - m]]
      BY <1>9, <2>1, <3>1, <3>2 DEF TypeOK
    <3>4. next[t[k - m]] = IF k - m = n THEN NULL ELSE t[(k - m) + 1]
      BY <3>1 DEF IsWalk
    <3>5. k # m + n => u[k + 1] = t[(k - m) + 1]
      <4> SUFFICES ASSUME k # m + n PROVE u[k + 1] = t[(k - m) + 1]
        OBVIOUS
      <4>1. k + 1 \in 1 .. m + n /\ k + 1 > m /\ (k + 1) - m = (k - m) + 1
        BY <2>4
      <4> QED BY <1>1, <4>1
    <3> QED BY <2>4, <3>3, <3>4, <3>5
  <2> QED BY <2>2, <2>3, <2>4
<1> QED BY <1>2, <1>7, <1>8, <1>10, <1>11 DEF IsWalk

-----------------------------------------------------------------------------
\* List K can be walked from end to end in finitely many steps.
HasWalk(K) == \E n \in Nat : \E s \in [1 .. n -> Link] : IsWalk(n, s, K)
WalksFinite == \A K \in List : HasWalk(K)

\* A step leaves the links of list K as they are.
Untouched(K) ==
    /\ head'[K] = head[K]
    /\ \A l \in Link : parentlist[l] = K =>
          parentlist'[l] = K /\ next'[l] = next[l] /\ element'[l] = element[l]

\* A list whose links a step leaves alone keeps its content.
LEMMA StaysContent ==
    ASSUME TypeOK, ContentsRead, ContentsRead', NEW K \in List, HasWalk(K), Untouched(K)
    PROVE  HasWalk(K)' /\ Content(K)' = Content(K)
<1>0. PICK n \in Nat : \E s \in [1 .. n -> Link] : IsWalk(n, s, K)
  BY DEF HasWalk
<1>1. PICK s \in [1 .. n -> Link] : IsWalk(n, s, K)
  BY <1>0
<1>2. IsWalk(n, s, K)'
  BY <1>1, StaysWalk DEF Untouched
<1>3. Content(K) = Reads(n, s) /\ Content(K)' = Reads(n, s)'
  BY <1>1, <1>2 DEF ContentsRead
<1>4. Reads(n, s)' = Reads(n, s)
  BY <1>1 DEF Reads, IsWalk, Untouched
<1> QED BY <1>2, <1>3, <1>4 DEF HasWalk

\* A step that changes one list.
LEMMA OneList ==
    ASSUME TypeOK, ContentsRead, ContentsRead', WalksFinite, NEW L \in List, NEW c,
           HasWalk(L)', Content(L)' = c, \A K \in List \ {L} : Untouched(K)
    PROVE  WalksFinite' /\ Contents' = [Contents EXCEPT ![L] = c]
<1>1. \A K \in List \ {L} : HasWalk(K)' /\ Content(K)' = Content(K)
  BY StaysContent DEF WalksFinite
<1>2. WalksFinite'
  BY <1>1 DEF WalksFinite
<1> QED BY <1>1, <1>2 DEF Contents

\* A step that changes no list.
LEMMA NoList ==
    ASSUME TypeOK, ContentsRead, ContentsRead', WalksFinite, \A K \in List : Untouched(K)
    PROVE  WalksFinite' /\ Contents' = Contents
<1>1. \A K \in List : HasWalk(K)' /\ Content(K)' = Content(K)
  BY StaysContent DEF WalksFinite
<1> QED BY <1>1 DEF WalksFinite, Contents

\* A new link at place q inserts its element at q of the sequence.
LEMMA InsertContent ==
    ASSUME TypeOK, ContentsRead, ContentsRead', WalksFinite,
           NEW L \in List, NEW n \in Nat, NEW s \in [1 .. n -> Link], IsWalk(n, s, L),
           NEW q \in 1 .. n + 1, NEW l \in Free, NEW o \in Obj, NewAt(L, n, s, q, l, o)
    PROVE  WalksFinite' /\ Contents' = Abstract!With(L, q, o)
<1>1. PICK t : t = PutAt(n, s, q, l)
  OBVIOUS
<1>2. /\ next' = [k \in Link |-> IF k = l THEN (IF q = n + 1 THEN NULL ELSE s[q])
                                 ELSE IF q # 1 /\ k = s[q - 1] THEN l ELSE next[k]]
      /\ parentlist' = [parentlist EXCEPT ![l] = L]
      /\ element' = [element EXCEPT ![l] = o]
      /\ head'[L] = IF q = 1 THEN l ELSE head[L]
      /\ \A K \in List \ {L} : head'[K] = head[K]
  <2>1. next' = [k \in Link |-> IF k = l THEN (IF q = n + 1 THEN NULL ELSE s[q])
                                 ELSE IF k = (IF q = 1 THEN NULL ELSE s[q - 1]) THEN l ELSE next[k]]
    BY DEF NewAt, NewLink
  <2>2. next' = [k \in Link |-> IF k = l THEN (IF q = n + 1 THEN NULL ELSE s[q])
                                 ELSE IF q # 1 /\ k = s[q - 1] THEN l ELSE next[k]]
    BY <2>1
  <2> QED BY <2>2 DEF NewAt, NewLink, TypeOK
<1>3. t \in [1 .. n + 1 -> Link] /\ IsWalk(n + 1, t, L)'
  BY <1>1, InsertWalk
<1>4. n + 1 \in Nat
  OBVIOUS
<1>5. HasWalk(L)'
  BY <1>3, <1>4 DEF HasWalk
<1>6. Content(L) = Reads(n, s) /\ Reads(n, s) \in [1 .. n -> Obj]
  BY DEF ContentsRead
<1>7. Content(L)' = Reads(n + 1, t)'
  BY <1>3, <1>4 DEF ContentsRead
<1>8. PICK r : r = Reads(n, s)
  OBVIOUS
<1>9. Abstract!InsertAt(r, q, o) =
         [k \in 1 .. n + 1 |-> IF k < q THEN r[k] ELSE IF k = q THEN o ELSE r[k - 1]]
  BY <1>6, <1>8, InsertedIs
<1>10. Reads(n + 1, t)' = [k \in 1 .. n + 1 |-> IF k < q THEN r[k] ELSE IF k = q THEN o ELSE r[k - 1]]
  <2>1. ASSUME NEW k \in 1 .. n + 1
        PROVE  element'[t[k]] = IF k < q THEN r[k] ELSE IF k = q THEN o ELSE r[k - 1]
    <3>1. \A j \in 1 .. n : r[j] = element[s[j]] /\ s[j] \in Link /\ s[j] # l
      BY <1>8 DEF Reads, IsWalk
    <3>2. CASE k < q
      <4>1. k \in 1 .. n /\ t[k] = s[k]
        BY <1>1, <3>2 DEF PutAt
      <4> QED BY <1>2, <3>1, <3>2, <4>1 DEF TypeOK
    <3>3. CASE k = q
      BY <1>1, <1>2, <3>3 DEF TypeOK, PutAt
    <3>4. CASE k > q
      <4>1. k - 1 \in 1 .. n /\ t[k] = s[k - 1]
        BY <1>1, <3>4 DEF PutAt
      <4> QED BY <1>2, <3>1, <3>4, <4>1 DEF TypeOK
    <3> QED BY <3>2, <3>3, <3>4
  <2> QED BY <2>1 DEF Reads
<1>11. \A K \in List \ {L} : Untouched(K)
  <2> SUFFICES ASSUME NEW K \in List \ {L} PROVE Untouched(K)
    OBVIOUS
  <2>1. ASSUME NEW k \in Link, parentlist[k] = K
        PROVE  parentlist'[k] = K /\ next'[k] = next[k] /\ element'[k] = element[k]
    <3>1. k # l
      BY <2>1
    <3>2. q # 1 => k # s[q - 1]
      <4>1. q # 1 => q - 1 \in 1 .. n
        OBVIOUS
      <4> QED BY <2>1, <4>1 DEF IsWalk
    <3> QED BY <1>2, <2>1, <3>1, <3>2 DEF TypeOK
  <2> QED BY <1>2, <2>1 DEF Untouched
<1>12. Content(L)' = Abstract!InsertAt(Content(L), q, o)
  BY <1>6, <1>7, <1>8, <1>9, <1>10
<1>13. WalksFinite' /\ Contents' = [Contents EXCEPT ![L] = Abstract!InsertAt(Content(L), q, o)]
  BY <1>5, <1>11, <1>12, OneList
<1>14. Contents[L] = Content(L)
  BY DEF Contents
<1> QED BY <1>13, <1>14 DEF Abstract!With

\* What the removal of the link at place q does to the content.
LEMMA RemoveContent ==
    ASSUME TypeOK, ListInv, ContentsRead, ContentsRead', WalksFinite,
           NEW L \in List, NEW n \in Nat, NEW s \in [1 .. n -> Link], IsWalk(n, s, L),
           NEW q \in 1 .. n, RemoveFromList(s[q])
    PROVE  WalksFinite' /\ Contents' = [Contents EXCEPT ![L] = Abstract!RemoveAt(Content(L), q)]
<1>1. PICK t : t = CutAt(n, s, q)
  OBVIOUS
<1>2. t \in [1 .. n - 1 -> Link] /\ IsWalk(n - 1, t, L)'
  BY <1>1, RemoveWalk
<1>3. n - 1 \in Nat
  OBVIOUS
<1>4. HasWalk(L)'
  BY <1>2, <1>3 DEF HasWalk
<1>5. Content(L) = Reads(n, s) /\ Reads(n, s) \in [1 .. n -> Obj]
  BY DEF ContentsRead
<1>6. Content(L)' = Reads(n - 1, t)'
  BY <1>2, <1>3 DEF ContentsRead
<1>7. PICK r : r = Reads(n, s)
  OBVIOUS
<1>8. Abstract!RemoveAt(r, q) = [k \in 1 .. n - 1 |-> IF k < q THEN r[k] ELSE r[k + 1]]
  BY <1>5, <1>7, RemovedIs
<1>9. element' = [element EXCEPT ![s[q]] = NULL] /\ parentlist' = [parentlist EXCEPT ![s[q]] = NULL]
  BY DEF RemoveFromList
<1>10. \A j \in 1 .. n : s[j] \in Link /\ parentlist[s[j]] = L /\ (s[j] = s[q] => j = q)
  BY DEF IsWalk
<1>11. Reads(n - 1, t)' = [k \in 1 .. n - 1 |-> IF k < q THEN r[k] ELSE r[k + 1]]
  <2>1. ASSUME NEW k \in 1 .. n - 1 PROVE element'[t[k]] = IF k < q THEN r[k] ELSE r[k + 1]
    <3>1. \A j \in 1 .. n : r[j] = element[s[j]]
      BY <1>7 DEF Reads
    <3>2. CASE k < q
      <4>1. k \in 1 .. n /\ t[k] = s[k] /\ k # q
        BY <1>1, <3>2 DEF CutAt
      <4> QED BY <1>9, <1>10, <3>1, <3>2, <4>1 DEF TypeOK
    <3>3. CASE k >= q
      <4>1. k + 1 \in 1 .. n /\ t[k] = s[k + 1] /\ k + 1 # q
        BY <1>1, <3>3 DEF CutAt
      <4> QED BY <1>9, <1>10, <3>1, <3>3, <4>1 DEF TypeOK
    <3> QED BY <3>2, <3>3
  <2> QED BY <2>1 DEF Reads
<1>12. \A K \in List \ {L} : Untouched(K)
  <2> SUFFICES ASSUME NEW K \in List \ {L} PROVE Untouched(K)
    OBVIOUS
  <2>1. head'[K] = head[K]
    BY <1>10 DEF RemoveFromList, HeadWithout, TypeOK
  <2>2. ASSUME NEW k \in Link, parentlist[k] = K
        PROVE  parentlist'[k] = K /\ next'[k] = next[k] /\ element'[k] = element[k]
    <3>1. k # s[q]
      BY <1>10, <2>2
    <3>2. k # prev[s[q]]
      <4>1. prev[s[q]] = IF q = 1 THEN NULL ELSE s[q - 1]
        BY BackIs
      <4>2. q # 1 => q - 1 \in 1 .. n
        OBVIOUS
      <4> QED BY <1>10, <2>2, <4>1, <4>2
    <3>3. next'[k] = next[k]
      BY <3>1, <3>2 DEF RemoveFromList, NextWithout
    <3> QED BY <1>9, <2>2, <3>1, <3>3 DEF TypeOK
  <2> QED BY <2>1, <2>2 DEF Untouched
<1>13. Content(L)' = Abstract!RemoveAt(Content(L), q)
  BY <1>5, <1>6, <1>7, <1>8, <1>11
<1> QED BY <1>4, <1>12, <1>13, OneList

\* The empty list.
LEMMA EmptyReads ==
    ASSUME ContentsRead, NEW L \in List, head[L] = NULL
    PROVE  HasWalk(L) /\ Content(L) = << >>
<1>1. PICK s : s = [i \in 1 .. 0 |-> NULL]
  OBVIOUS
<1>2. s \in [1 .. 0 -> Link] /\ 0 \in Nat
  BY <1>1
<1>3. IsWalk(0, s, L)
  BY DEF IsWalk
<1>4. Content(L) = Reads(0, s)
  BY <1>2, <1>3 DEF ContentsRead
<1>5. Reads(0, s) = << >>
  BY DEF Reads
<1> QED BY <1>2, <1>3, <1>4, <1>5 DEF HasWalk

\* A list without a head reads as the empty sequence.
EmptyOnes == \A L \in List : head[L] = NULL => HasWalk(L) /\ Content(L) = << >>

\* EmptyReads for every list, in a form that can be primed.
LEMMA EmptyOnesRead == ContentsRead => EmptyOnes
BY EmptyReads DEF EmptyOnes

\* What emptying a list does.
LEMMA DropContent ==
    ASSUME TypeOK, ListInv, ContentsRead, ContentsRead', WalksFinite, NEW L \in List, DropChain(L)
    PROVE  WalksFinite' /\ Contents' = [Contents EXCEPT ![L] = << >>]
<1>1. ChainOf(L) = {l \in Link : parentlist[l] = L}
  BY ChainExact
<1>2. /\ next' = [l \in Link |-> IF parentlist[l] = L THEN NULL ELSE next[l]]
      /\ parentlist' = [l \in Link |-> IF parentlist[l] = L THEN NULL ELSE parentlist[l]]
      /\ element' = [l \in Link |-> IF parentlist[l] = L THEN NULL ELSE element[l]]
      /\ head' = [head EXCEPT ![L] = NULL]
  BY <1>1 DEF DropChain
<1>3. \A K \in List \ {L} : Untouched(K)
  BY <1>2 DEF Untouched, TypeOK
<1>4. head'[L] = NULL
  BY <1>2 DEF TypeOK
<1>5. EmptyOnes'
  BY EmptyOnesRead, PTL
<1>6. HasWalk(L)' /\ Content(L)' = << >>
  BY <1>4, <1>5 DEF EmptyOnes
<1> QED BY <1>3, <1>6, OneList

\* What a merge does: the contents one after the other, the source empty.
LEMMA MergeContent ==
    ASSUME TypeOK, ListInv, ContentsRead, ContentsRead', WalksFinite,
           NEW L \in List, NEW x \in List, Merge(L, x)
    PROVE  /\ WalksFinite'
           /\ Contents' = [Contents EXCEPT ![L] = Content(L) \o Content(x), ![x] = << >>]
<1>1. PICK m \in Nat : \E s \in [1 .. m -> Link] : IsWalk(m, s, L)
  BY DEF WalksFinite, HasWalk
<1>2. PICK s \in [1 .. m -> Link] : IsWalk(m, s, L)
  BY <1>1
<1>3. PICK n \in Nat : \E t \in [1 .. n -> Link] : IsWalk(n, t, x)
  BY DEF WalksFinite, HasWalk
<1>4. PICK t \in [1 .. n -> Link] : IsWalk(n, t, x)
  BY <1>3
<1>5. PICK u : u = Joined(m, s, n, t)
  OBVIOUS
<1>6. u \in [1 .. m + n -> Link] /\ IsWalk(m + n, u, L)'
  BY <1>2, <1>4, <1>5, MergeWalk
<1>7. m + n \in Nat
  OBVIOUS
<1>8. HasWalk(L)' /\ Content(L)' = Reads(m + n, u)'
  BY <1>6, <1>7 DEF HasWalk, ContentsRead
<1>9. /\ Content(L) = Reads(m, s) /\ Reads(m, s) \in [1 .. m -> Obj]
      /\ Content(x) = Reads(n, t) /\ Reads(n, t) \in [1 .. n -> Obj]
  BY <1>2, <1>4 DEF ContentsRead
<1>a. PICK a : a = Reads(m, s)
  OBVIOUS
<1>b. PICK b : b = Reads(n, t)
  OBVIOUS
<1>10. a \o b = Joined(m, a, n, b)
  <2>1. a \in [1 .. m -> Obj] /\ b \in [1 .. n -> Obj]
    BY <1>9, <1>a, <1>b
  <2> QED BY <2>1, AppendedIs
<1>11. Reads(m + n, u)' = [k \in 1 .. m + n |-> IF k <= m THEN a[k] ELSE b[k - m]]
  <2>1. ASSUME NEW k \in 1 .. m + n
        PROVE  element'[u[k]] = IF k <= m THEN a[k] ELSE b[k - m]
    <3>1. element' = element
      BY DEF Merge
    <3>2. CASE k <= m
      BY <1>5, <1>a, <3>1, <3>2 DEF Joined, Reads
    <3>3. CASE k > m
      <4>1. k - m \in 1 .. n
        BY <3>3
      <4> QED BY <1>5, <1>b, <3>1, <3>3, <4>1 DEF Joined, Reads
    <3> QED BY <3>2, <3>3
  <2> QED BY <2>1 DEF Reads
<1>12. Content(L)' = Content(L) \o Content(x)
  BY <1>8, <1>9, <1>10, <1>11, <1>a, <1>b DEF Joined
<1>13. L # x /\ head' = [head EXCEPT ![L] = IF tail[L] = NULL THEN head[x] ELSE @, ![x] = NULL]
  BY DEF Merge
<1>14. EmptyOnes'
  BY EmptyOnesRead, PTL
<1>15. HasWalk(x)' /\ Content(x)' = << >>
  <2>1. head'[x] = NULL
    BY <1>13 DEF TypeOK
  <2> QED BY <1>14, <2>1 DEF EmptyOnes
<1>16. ASSUME NEW K \in List \ {L, x} PROVE Untouched(K)
  <2>1. head'[K] = head[K]
    BY <1>13 DEF TypeOK
  <2>2. ASSUME NEW k \in Link, parentlist[k] = K
        PROVE  parentlist'[k] = K /\ next'[k] = next[k] /\ element'[k] = element[k]
    <3>1. ChainOf(x) = {l \in Link : parentlist[l] = x}
      BY ChainExact
    <3>2. parentlist' = [l \in Link |-> IF l \in ChainOf(x) THEN L ELSE parentlist[l]]
      BY DEF Merge
    <3>3. tail[L] # k
      <4>1. tail[L] = IF m = 0 THEN NULL ELSE s[m]
        BY <1>2, BackIs
      <4>2. m # 0 => parentlist[s[m]] = L
        BY <1>2 DEF IsWalk
      <4> QED BY <2>2, <4>1, <4>2
    <3>4. next'[k] = next[k]
      BY <3>3 DEF Merge, TypeOK
    <3> QED BY <2>2, <3>1, <3>2, <3>4 DEF Merge
  <2> QED BY <2>1, <2>2 DEF Untouched
<1>17. \A K \in List \ {L, x} : HasWalk(K)' /\ Content(K)' = Content(K)
  BY <1>16, StaysContent DEF WalksFinite
<1>18. WalksFinite'
  BY <1>8, <1>15, <1>17 DEF WalksFinite
<1> QED BY <1>12, <1>13, <1>15, <1>17, <1>18 DEF Contents

\* What a step does that leaves the links where they are.
LEMMA KeepsWalks ==
    ASSUME NEW L \in List, NEW n \in Nat, NEW s \in [1 .. n -> Link], IsWalk(n, s, L),
           UNCHANGED <<head, next, parentlist>>
    PROVE  IsWalk(n, s, L)'
BY DEF IsWalk

\* The walks are the same, and the contents read the new elements along them.
LEMMA KeepsPlaces ==
    ASSUME ContentsRead, ContentsRead', WalksFinite, UNCHANGED <<head, next, parentlist>>
    PROVE  /\ WalksFinite'
           /\ \A L \in List : \A n \in Nat : \A s \in [1 .. n -> Link] :
                 IsWalk(n, s, L) => Content(L)' = Reads(n, s)'
<1>1. ASSUME NEW L \in List PROVE HasWalk(L)'
  <2>1. PICK n \in Nat : \E s \in [1 .. n -> Link] : IsWalk(n, s, L)
    BY DEF WalksFinite, HasWalk
  <2>2. PICK s \in [1 .. n -> Link] : IsWalk(n, s, L)
    BY <2>1
  <2>3. IsWalk(n, s, L)'
    BY <2>2, KeepsWalks
  <2> QED BY <2>3 DEF HasWalk
<1>2. ASSUME NEW L \in List, NEW n \in Nat, NEW s \in [1 .. n -> Link], IsWalk(n, s, L)
      PROVE  Content(L)' = Reads(n, s)'
  <2>1. IsWalk(n, s, L)'
    BY <1>2, KeepsWalks
  <2> QED BY <2>1 DEF ContentsRead
<1> QED BY <1>1, <1>2 DEF WalksFinite

-----------------------------------------------------------------------------
\* The elements of a sequence are those of the links of its list.
LEMMA ElementsAre ==
    ASSUME TypeOK, ListInv, ContentsRead, WalksFinite, NEW L \in List, NEW o
    PROVE  o \in Abstract!Elements(L) <=> \E l \in Link : parentlist[l] = L /\ element[l] = o
<1>1. PICK n \in Nat : \E s \in [1 .. n -> Link] : IsWalk(n, s, L)
  BY DEF WalksFinite, HasWalk
<1>2. PICK s \in [1 .. n -> Link] : IsWalk(n, s, L)
  BY <1>1
<1>3. Contents[L] = Reads(n, s)
  BY <1>2 DEF ContentsRead, Contents
<1>4. o \in Abstract!Elements(L) <=> \E i \in 1 .. n : o = element[s[i]]
  BY <1>3 DEF Abstract!Elements, Reads
<1>5. \A l \in Link : parentlist[l] = L <=> \E i \in 1 .. n : l = s[i]
  BY <1>2, WalkCovers
<1> QED BY <1>4, <1>5

\* An object is attached when a link holds it: the two notions of detached agree.
LEMMA AttachedAre ==
    ASSUME TypeOK, ListInv, ContentsRead, WalksFinite
    PROVE  /\ \A o : o \in Abstract!Attached <=> \E l \in Allocated : element[l] = o
           /\ Abstract!Detached = Detached
<1>1. ASSUME NEW o PROVE o \in Abstract!Attached <=> \E l \in Allocated : element[l] = o
  <2>1. o \in Abstract!Attached <=> \E L \in List : o \in Abstract!Elements(L)
    BY DEF Abstract!Attached
  <2>2. \A L \in List : o \in Abstract!Elements(L)
                        <=> \E l \in Link : parentlist[l] = L /\ element[l] = o
    BY ElementsAre
  <2> QED BY <2>1, <2>2 DEF TypeOK
<1>2. ASSUME NEW o \in live PROVE o \in Abstract!Attached <=> parentlink[o] # NULL
  BY <1>1 DEF ListInv, ElementsExact, TypeOK
<1> QED BY <1>1, <1>2 DEF Abstract!Detached, Detached

\* Where the element of an attached link stands.
LEMMA PlaceIs ==
    ASSUME TypeOK, ListInv, ContentsRead, WalksFinite,
           NEW L \in List, NEW n \in Nat, NEW s \in [1 .. n -> Link], IsWalk(n, s, L),
           NEW q \in 1 .. n
    PROVE  /\ Abstract!ListOf(element[s[q]]) = L /\ Abstract!PosOf(element[s[q]]) = q
           /\ Abstract!After(element[s[q]]) = IF next[s[q]] = NULL THEN NULL ELSE element[next[s[q]]]
           /\ Abstract!Before(element[s[q]]) = IF prev[s[q]] = NULL THEN NULL ELSE element[prev[s[q]]]
<1>1. PICK o : o = element[s[q]]
  OBVIOUS
<1>2. s[q] \in Allocated /\ parentlist[s[q]] = L
  BY DEF IsWalk
<1>3. ASSUME NEW l \in Link, parentlist[l] # NULL, element[l] = o PROVE l = s[q]
  BY <1>1, <1>2, <1>3 DEF ListInv, ElementsExact
<1>4. Abstract!ListOf(o) = L
  <2>1. \A K \in List : o \in Abstract!Elements(K)
                        <=> \E l \in Link : parentlist[l] = K /\ element[l] = o
    BY ElementsAre
  <2>2. o \in Abstract!Elements(L)
    BY <1>1, <1>2, <2>1
  <2>3. ASSUME NEW K \in List, o \in Abstract!Elements(K) PROVE K = L
    BY <1>2, <1>3, <2>1, <2>3
  <2> QED BY <2>2, <2>3 DEF Abstract!ListOf
<1>5. Contents[L] = Reads(n, s) /\ Reads(n, s) \in [1 .. n -> Obj]
  BY DEF ContentsRead, Contents
<1>6. Abstract!PosOf(o) = q
  <2>1. Abstract!PosOf(o) = CHOOSE i \in 1 .. n : element[s[i]] = o
    BY <1>4, <1>5 DEF Abstract!PosOf, Reads
  <2>2. ASSUME NEW i \in 1 .. n, element[s[i]] = o PROVE i = q
    <3>1. parentlist[s[i]] # NULL
      BY DEF IsWalk
    <3> QED BY <1>3, <2>2, <3>1 DEF IsWalk
  <2> QED BY <1>1, <2>1, <2>2
<1>7. Len(Contents[L]) = n
  BY <1>5, SeqIs
<1>8. next[s[q]] = IF q = n THEN NULL ELSE s[q + 1]
  BY DEF IsWalk
<1>9. prev[s[q]] = IF q = 1 THEN NULL ELSE s[q - 1]
  BY BackIs
<1>10. Abstract!After(o) = IF next[s[q]] = NULL THEN NULL ELSE element[next[s[q]]]
  <2>1. Abstract!After(o) = IF q = n THEN NULL ELSE Reads(n, s)[q + 1]
    BY <1>4, <1>5, <1>6, <1>7 DEF Abstract!After
  <2>2. q # n => q + 1 \in 1 .. n /\ s[q + 1] # NULL
    OBVIOUS
  <2> QED BY <1>8, <2>1, <2>2 DEF Reads
<1>11. Abstract!Before(o) = IF prev[s[q]] = NULL THEN NULL ELSE element[prev[s[q]]]
  <2>1. Abstract!Before(o) = IF q = 1 THEN NULL ELSE Reads(n, s)[q - 1]
    BY <1>4, <1>5, <1>6 DEF Abstract!Before
  <2>2. q # 1 => q - 1 \in 1 .. n /\ s[q - 1] # NULL
    OBVIOUS
  <2> QED BY <1>9, <2>1, <2>2 DEF Reads
<1> QED BY <1>1, <1>4, <1>6, <1>10, <1>11

\* Every attached link has a place.
LEMMA PlaceOf ==
    ASSUME TypeOK, ListInv, WalksFinite, NEW l \in Allocated
    PROVE  /\ parentlist[l] \in List
           /\ \E n \in Nat : \E s \in [1 .. n -> Link] : IsWalk(n, s, parentlist[l])
                                                         /\ \E q \in 1 .. n : l = s[q]
<1>1. parentlist[l] \in List
  BY DEF TypeOK
<1>2. PICK n \in Nat : \E s \in [1 .. n -> Link] : IsWalk(n, s, parentlist[l])
  BY <1>1 DEF WalksFinite, HasWalk
<1>3. PICK s \in [1 .. n -> Link] : IsWalk(n, s, parentlist[l])
  BY <1>2
<1>4. PICK L : L = parentlist[l]
  OBVIOUS
<1>5. \E q \in 1 .. n : l = s[q]
  BY <1>1, <1>3, <1>4, WalkCovers
<1> QED BY <1>1, <1>3, <1>5

\* The neighbours of an attached link, as its client sees them.
LEMMA NeighboursAre ==
    ASSUME TypeOK, ListInv, ContentsRead, WalksFinite, NEW l \in Allocated
    PROVE  /\ Abstract!After(element[l]) = IF next[l] = NULL THEN NULL ELSE element[next[l]]
           /\ Abstract!Before(element[l]) = IF prev[l] = NULL THEN NULL ELSE element[prev[l]]
<1>1. PICK n \in Nat : \E s \in [1 .. n -> Link] : IsWalk(n, s, parentlist[l])
                                                   /\ \E q \in 1 .. n : l = s[q]
  BY PlaceOf
<1>2. PICK s \in [1 .. n -> Link] : IsWalk(n, s, parentlist[l]) /\ \E q \in 1 .. n : l = s[q]
  BY <1>1
<1>3. PICK q \in 1 .. n : l = s[q]
  BY <1>2
<1>4. PICK L \in List : L = parentlist[l]
  BY PlaceOf
<1> QED BY <1>2, <1>3, <1>4, PlaceIs

-----------------------------------------------------------------------------
\* A list seen through its walk: its length, and its ends.
LEMMA LengthIs ==
    ASSUME ContentsRead, NEW L \in List, NEW n \in Nat, NEW s \in [1 .. n -> Link], IsWalk(n,
           s, L)
    PROVE  Contents[L] = Reads(n, s) /\ Len(Contents[L]) = n
<1>1. Contents[L] = Reads(n, s) /\ Reads(n, s) \in [1 .. n -> Obj]
  BY DEF ContentsRead, Contents
<1> QED BY <1>1, SeqIs

\* The cursor stays when the iterator and its element do.
LEMMA CursorStays ==
    ASSUME TypeOK, UNCHANGED iter, iter # NULL => element'[iter] = element[iter]
    PROVE  Cursor' = Cursor
BY DEF Cursor

\* New creates.
LEMMA CreateStep ==
    ASSUME TypeOK, ContentsRead, ContentsRead', WalksFinite, NEW o \in Obj, New(o)
    PROVE  WalksFinite' /\ Abstract!Create(o)
<1>1. \A K \in List : Untouched(K)
  BY DEF New, Untouched, listVars, linkVars
<1>2. WalksFinite' /\ Contents' = Contents
  BY <1>1, NoList
<1>3. Cursor' = Cursor
  BY CursorStays DEF New, linkVars
<1> QED BY <1>2, <1>3 DEF New, Abstract!Create

\* Delete deletes an object that is in no sequence.
LEMMA DeleteStep ==
    ASSUME TypeOK, ListInv, ContentsRead, ContentsRead', WalksFinite, NEW o \in Obj, Delete(o)
    PROVE  WalksFinite' /\ Abstract!Delete(o)
<1>1. \A K \in List : Untouched(K)
  BY DEF Delete, Untouched, listVars, linkVars
<1>2. WalksFinite' /\ Contents' = Contents
  BY <1>1, NoList
<1>3. Cursor' = Cursor
  BY CursorStays DEF Delete, linkVars
<1>4. Abstract!Detached = Detached
  BY AttachedAre
<1> QED BY <1>2, <1>3, <1>4 DEF Delete, Abstract!Delete

\* The moves of the iterator.
LEMMA MoveStep ==
    ASSUME TypeOK, ListInv, ContentsRead, ContentsRead', WalksFinite,
           UNCHANGED <<listVars, linkVars, parentlink, live>>
    PROVE  /\ WalksFinite' /\ Contents' = Contents
           /\ Cursor' = IF iter' = NULL THEN NULL ELSE element[iter']
<1>1. \A K \in List : Untouched(K)
  BY DEF Untouched, listVars, linkVars
<1>2. WalksFinite' /\ Contents' = Contents
  BY <1>1, NoList
<1> QED BY <1>2 DEF Cursor, linkVars

\* iterator(o) puts the cursor on o when o is in a list, and at the end otherwise.
LEMMA AtStep ==
    ASSUME TypeOK, ListInv, ContentsRead, ContentsRead', WalksFinite, NEW o \in Obj, IteratorOf(o)
    PROVE  WalksFinite' /\ Abstract!At(o)
<1>1. /\ WalksFinite' /\ Contents' = Contents
      /\ Cursor' = IF iter' = NULL THEN NULL ELSE element[iter']
  BY MoveStep DEF IteratorOf
<1>2. o \in Abstract!Attached <=> \E l \in Allocated : element[l] = o
  BY AttachedAre
<1>3. o \in Abstract!Attached <=> parentlink[o] # NULL
  BY <1>2 DEF ListInv, ElementsExact, TypeOK
<1>4. Cursor' = IF o \in Abstract!Attached THEN o ELSE NULL
  BY <1>1, <1>3 DEF IteratorOf, ListInv, ElementsExact
<1> QED BY <1>1, <1>4 DEF IteratorOf, Abstract!At

\* begin() and rbegin() stand on the first and the last element.
LEMMA BeginStep ==
    ASSUME TypeOK, ListInv, ContentsRead, ContentsRead', WalksFinite, NEW L \in List
    PROVE  /\ Begin(L) => WalksFinite' /\ Abstract!First(L)
           /\ RBegin(L) => WalksFinite' /\ Abstract!Final(L)
<1>1. PICK n \in Nat : \E s \in [1 .. n -> Link] : IsWalk(n, s, L)
  BY DEF WalksFinite, HasWalk
<1>2. PICK s \in [1 .. n -> Link] : IsWalk(n, s, L)
  BY <1>1
<1>3. Contents[L] = Reads(n, s) /\ Len(Contents[L]) = n
  BY <1>2, LengthIs
<1>4. PICK c : c = Contents[L]
  OBVIOUS
<1>5. c \in Seq(Obj) /\ Len(c) = n /\ \A i \in 1 .. n : c[i] = element[s[i]]
  <2>1. c \in [1 .. n -> Obj]
    BY <1>2, <1>3, <1>4 DEF ContentsRead
  <2> QED BY <1>3, <1>4, <2>1, SeqIs DEF Reads
<1>6. c = << >> <=> n = 0
  BY <1>5, EmptySeq
<1>7. /\ n # 0 => Head(c) = element[s[1]] /\ Abstract!Last(c) = element[s[n]]
  <2> SUFFICES ASSUME n # 0 PROVE Head(c) = element[s[1]] /\ Abstract!Last(c) = element[s[n]]
    OBVIOUS
  <2>1. Head(c) = c[1]
    BY <1>5, <1>6, HeadTailProperties
  <2>2. Abstract!Last(c) = c[n]
    BY <1>5 DEF Abstract!Last
  <2> QED BY <1>5, <2>1, <2>2
<1>8. head[L] = IF n = 0 THEN NULL ELSE s[1]
  BY <1>2 DEF IsWalk
<1>9. tail[L] = IF n = 0 THEN NULL ELSE s[n]
  BY <1>2, BackIs
<1>10. n # 0 => s[1] # NULL /\ s[n] # NULL
  OBVIOUS
<1>11. ASSUME Begin(L) PROVE WalksFinite' /\ Abstract!First(L)
  <2>1. /\ WalksFinite' /\ Contents' = Contents
        /\ Cursor' = IF iter' = NULL THEN NULL ELSE element[iter']
    BY <1>11, MoveStep DEF Begin
  <2>2. Cursor' = IF c = << >> THEN NULL ELSE Head(c)
    BY <1>6, <1>7, <1>8, <1>10, <1>11, <2>1 DEF Begin
  <2> QED BY <1>4, <1>11, <2>1, <2>2 DEF Begin, Abstract!First
<1>12. ASSUME RBegin(L) PROVE WalksFinite' /\ Abstract!Final(L)
  <2>1. /\ WalksFinite' /\ Contents' = Contents
        /\ Cursor' = IF iter' = NULL THEN NULL ELSE element[iter']
    BY <1>12, MoveStep DEF RBegin
  <2>2. Cursor' = IF c = << >> THEN NULL ELSE Abstract!Last(c)
    BY <1>6, <1>7, <1>9, <1>10, <1>12, <2>1 DEF RBegin
  <2> QED BY <1>4, <1>12, <2>1, <2>2 DEF RBegin, Abstract!Final
<1> QED BY <1>11, <1>12

\* A valid iterator stands on a live element.
LEMMA CursorIs ==
    ASSUME TypeOK, ListInv, iter # NULL
    PROVE  /\ iter \in Allocated /\ Cursor = element[iter] /\ Cursor \in live /\ Cursor \in Obj
           /\ Cursor # NULL
BY DEF ListInv, IteratorValid, ElementsExact, TypeOK, Cursor

\* The iterator goes to the neighbours in the sequence.
LEMMA StepStep ==
    ASSUME TypeOK, ListInv, ContentsRead, ContentsRead', WalksFinite
    PROVE  /\ Increment => WalksFinite' /\ Abstract!Forth
           /\ Decrement => WalksFinite' /\ Abstract!Back
<1>1. iter # NULL =>
         /\ Abstract!After(Cursor) = IF next[iter] = NULL THEN NULL ELSE element[next[iter]]
         /\ Abstract!Before(Cursor) = IF prev[iter] = NULL THEN NULL ELSE element[prev[iter]]
         /\ Cursor # NULL
  BY CursorIs, NeighboursAre
<1>2. ASSUME Increment PROVE WalksFinite' /\ Abstract!Forth
  <2>1. /\ WalksFinite' /\ Contents' = Contents
        /\ Cursor' = IF iter' = NULL THEN NULL ELSE element[iter']
    BY <1>2, MoveStep DEF Increment
  <2> QED BY <1>1, <1>2, <2>1 DEF Increment, Abstract!Forth
<1>3. ASSUME Decrement PROVE WalksFinite' /\ Abstract!Back
  <2>1. /\ WalksFinite' /\ Contents' = Contents
        /\ Cursor' = IF iter' = NULL THEN NULL ELSE element[iter']
    BY <1>3, MoveStep DEF Decrement
  <2> QED BY <1>1, <1>3, <2>1 DEF Decrement, Abstract!Back
<1> QED BY <1>2, <1>3

-----------------------------------------------------------------------------
\* A new link at place q is an insertion at q, and the cursor stays.
LEMMA InsertAbstract ==
    ASSUME TypeOK, ListInv, ContentsRead, ContentsRead', WalksFinite,
           NEW L \in List, NEW n \in Nat, NEW s \in [1 .. n -> Link], IsWalk(n, s, L),
           NEW q \in 1 .. n + 1, NEW l \in Free, NEW o \in Detached, NewAt(L, n, s, q, l, o),
           UNCHANGED iter
    PROVE  WalksFinite' /\ Contents' = Abstract!With(L, q, o) /\ Abstract!Insert(o)
<1>1. o \in Obj
  BY DEF Detached, TypeOK
<1>2. WalksFinite' /\ Contents' = Abstract!With(L, q, o)
  BY <1>1, InsertContent
<1>3. q \in 1 .. Len(Contents[L]) + 1
  BY LengthIs
<1>4. Cursor' = Cursor
  <2>1. iter # NULL => iter # l
    BY DEF ListInv, IteratorValid
  <2> QED BY <2>1, CursorStays DEF NewAt, NewLink, TypeOK
<1>5. o \in Abstract!Detached
  BY AttachedAre
<1>6. live' = live
  BY DEF NewAt, NewLink
<1>7. Abstract!Insert(o)
  BY <1>2, <1>3, <1>4, <1>5, <1>6 DEF Abstract!Insert
<1> QED BY <1>2, <1>7

\* push_front inserts at the first place.
LEMMA PushFrontStep ==
    ASSUME TypeOK, ListInv, ContentsRead, ContentsRead', WalksFinite,
           NEW L \in List, NEW o \in Obj, PushFront(L, o)
    PROVE  WalksFinite' /\ Contents' = Abstract!With(L, 1, o) /\ Abstract!Insert(o)
<1>1. PICK n \in Nat : \E s \in [1 .. n -> Link] : IsWalk(n, s, L)
  BY DEF WalksFinite, HasWalk
<1>2. PICK s \in [1 .. n -> Link] : IsWalk(n, s, L)
  BY <1>1
<1>3. PICK l \in Free : NewLink(l, o, L, NULL, head[L]) /\ head' = [head EXCEPT ![L] = l]
  BY DEF PushFront
<1>4. head[L] = IF 1 = n + 1 THEN NULL ELSE s[1]
  BY <1>2 DEF IsWalk
<1>5. NewAt(L, n, s, 1, l, o)
  BY <1>3, <1>4 DEF NewAt
<1>6. 1 \in 1 .. n + 1 /\ o \in Detached /\ iter' = iter
  BY DEF PushFront
<1> QED BY <1>2, <1>5, <1>6, InsertAbstract

\* push_back inserts after the last one.
LEMMA PushBackStep ==
    ASSUME TypeOK, ListInv, ContentsRead, ContentsRead', WalksFinite,
           NEW L \in List, NEW o \in Obj, PushBack(L, o)
    PROVE  /\ WalksFinite' /\ Contents' = Abstract!With(L, Len(Contents[L]) + 1, o)
           /\ Abstract!Insert(o)
<1>1. PICK n \in Nat : \E s \in [1 .. n -> Link] : IsWalk(n, s, L)
  BY DEF WalksFinite, HasWalk
<1>2. PICK s \in [1 .. n -> Link] : IsWalk(n, s, L)
  BY <1>1
<1>3. PICK l \in Free : /\ NewLink(l, o, L, tail[L], NULL)
                        /\ head' = IF tail[L] = NULL THEN [head EXCEPT ![L] = l] ELSE head
  BY DEF PushBack
<1>4. PICK q : q = n + 1
  OBVIOUS
<1>5. tail[L] = IF n = 0 THEN NULL ELSE s[n]
  BY <1>2, BackIs
<1>6. tail[L] = IF q = 1 THEN NULL ELSE s[q - 1]
  BY <1>4, <1>5
<1>7. tail[L] = NULL <=> q = 1
  BY <1>4, <1>5
<1>8. NewAt(L, n, s, q, l, o)
  BY <1>3, <1>4, <1>6, <1>7 DEF NewAt
<1>9. q \in 1 .. n + 1 /\ o \in Detached /\ iter' = iter
  BY <1>4 DEF PushBack
<1>10. WalksFinite' /\ Contents' = Abstract!With(L, q, o) /\ Abstract!Insert(o)
  BY <1>2, <1>8, <1>9, InsertAbstract
<1>11. Len(Contents[L]) = n
  BY <1>2, LengthIs
<1> QED BY <1>4, <1>10, <1>11

\* The iterator's link has a place in a walk.
LEMMA InsertBesideStep ==
    ASSUME TypeOK, ListInv, ContentsRead, ContentsRead', WalksFinite, NEW o \in Obj
    PROVE  /\ InsertAfter(o) => /\ WalksFinite' /\ Abstract!Insert(o)
                                /\ element'[next'[iter]] = o /\ next'[iter] # NULL
           /\ InsertBefore(o) => /\ WalksFinite' /\ Abstract!Insert(o)
                                 /\ element'[prev'[iter]] = o /\ prev'[iter] # NULL
<1> SUFFICES ASSUME iter # NULL, o \in Detached, iter' = iter,
                    InsertAfter(o) \/ InsertBefore(o)
             PROVE  /\ InsertAfter(o) => /\ WalksFinite' /\ Abstract!Insert(o)
                                /\ element'[next'[iter]] = o /\ next'[iter] # NULL
                    /\ InsertBefore(o) => /\ WalksFinite' /\ Abstract!Insert(o)
                                 /\ element'[prev'[iter]] = o /\ prev'[iter] # NULL
  BY DEF InsertAfter, InsertBefore
<1>1. iter \in Allocated
  BY CursorIs
<1>2. PICK n \in Nat : \E s \in [1 .. n -> Link] :
                          IsWalk(n, s, parentlist[iter]) /\ \E i \in 1 .. n : iter = s[i]
  BY <1>1, PlaceOf
<1>3. PICK s \in [1 .. n -> Link] : IsWalk(n, s, parentlist[iter]) /\ \E i \in 1 .. n : iter = s[i]
  BY <1>2
<1>4. PICK i \in 1 .. n : iter = s[i]
  BY <1>3
<1>5. PICK L \in List : L = parentlist[iter]
  BY <1>1, PlaceOf
<1>6. IsWalk(n, s, L)
  BY <1>3, <1>5
<1>7. ASSUME InsertAfter(o)
      PROVE  WalksFinite' /\ Abstract!Insert(o) /\ element'[next'[iter]] = o /\ next'[iter] # NULL
  <2>1. PICK l \in Free : NewLink(l, o, L, iter, next[iter])
    BY <1>5, <1>7 DEF InsertAfter
  <2>2. PICK q : q = i + 1
    OBVIOUS
  <2>3. next[iter] = IF q = n + 1 THEN NULL ELSE s[q]
    BY <1>4, <1>6, <2>2 DEF IsWalk
  <2>4. iter = IF q = 1 THEN NULL ELSE s[q - 1]
    BY <1>4, <2>2
  <2>5. head' = IF q = 1 THEN [head EXCEPT ![L] = l] ELSE head
    BY <1>7, <2>2 DEF InsertAfter
  <2>6. NewAt(L, n, s, q, l, o)
    BY <2>1, <2>3, <2>4, <2>5 DEF NewAt
  <2>7. q \in 1 .. n + 1
    BY <2>2
  <2>8. WalksFinite' /\ Abstract!Insert(o)
    BY <1>6, <2>6, <2>7, InsertAbstract
  <2>9. next'[iter] = l /\ element'[l] = o /\ l # NULL
    BY <1>1, <2>1 DEF NewLink, TypeOK
  <2> QED BY <2>8, <2>9
<1>8. ASSUME InsertBefore(o)
      PROVE  WalksFinite' /\ Abstract!Insert(o) /\ element'[prev'[iter]] = o /\ prev'[iter] # NULL
  <2>1. PICK l \in Free : /\ NewLink(l, o, L, prev[iter], iter)
                          /\ head' = IF head[L] = iter THEN [head EXCEPT ![L] = l] ELSE head
    BY <1>5, <1>8 DEF InsertBefore
  <2>2. prev[iter] = IF i = 1 THEN NULL ELSE s[i - 1]
    BY <1>4, <1>6, BackIs
  <2>3. iter = IF i = n + 1 THEN NULL ELSE s[i]
    BY <1>4
  <2>4. head[L] = iter <=> i = 1
    <3>1. head[L] = s[1] /\ 1 \in 1 .. n
      BY <1>6 DEF IsWalk
    <3> QED BY <1>4, <1>6, <3>1 DEF IsWalk
  <2>5. NewAt(L, n, s, i, l, o)
    BY <2>1, <2>2, <2>3, <2>4 DEF NewAt
  <2>6. i \in 1 .. n + 1
    OBVIOUS
  <2>7. WalksFinite' /\ Abstract!Insert(o)
    BY <1>6, <2>5, <2>6, InsertAbstract
  <2>8. prev'[iter] = l /\ element'[l] = o /\ l # NULL
    BY <1>1, <2>1 DEF NewLink, TypeOK
  <2> QED BY <2>7, <2>8
<1> QED BY <1>7, <1>8

-----------------------------------------------------------------------------
\* A link that leaves its list.
LEMMA LeaveLists ==
    ASSUME TypeOK, ListInv, ContentsRead, ContentsRead', WalksFinite, NEW l \in Allocated,
           RemoveFromList(l)
    PROVE  /\ WalksFinite' /\ Contents' = Abstract!Without(element[l])
           /\ element[l] \in live /\ element[l] \in Abstract!Attached
           /\ \A k \in Allocated \ {l} : element'[k] = element[k] /\ element[k] # element[l]
<1>1. PICK n \in Nat : \E s \in [1 .. n -> Link] : IsWalk(n, s, parentlist[l])
                                                   /\ \E q \in 1 .. n : l = s[q]
  BY PlaceOf
<1>2. PICK s \in [1 .. n -> Link] : IsWalk(n, s, parentlist[l]) /\ \E q \in 1 .. n : l = s[q]
  BY <1>1
<1>3. PICK q \in 1 .. n : l = s[q]
  BY <1>2
<1>4. PICK L \in List : L = parentlist[l]
  BY PlaceOf
<1>5. IsWalk(n, s, L) /\ RemoveFromList(s[q])
  BY <1>2, <1>3, <1>4
<1>6. WalksFinite' /\ Contents' = [Contents EXCEPT ![L] = Abstract!RemoveAt(Content(L), q)]
  BY <1>5, RemoveContent
<1>7. Abstract!ListOf(element[l]) = L /\ Abstract!PosOf(element[l]) = q
  BY <1>3, <1>5, PlaceIs
<1>8. Content(L) = Contents[L]
  BY DEF Contents
<1>9. Contents' = Abstract!Without(element[l])
  BY <1>6, <1>7, <1>8 DEF Abstract!Without
<1>10. element[l] \in Abstract!Attached
  BY AttachedAre
<1>11. element' = [element EXCEPT ![l] = NULL]
  BY DEF RemoveFromList
<1>12. \A k \in Allocated \ {l} : element'[k] = element[k] /\ element[k] # element[l]
  BY <1>11 DEF TypeOK, ListInv, ElementsExact
<1>13. element[l] \in live
  BY DEF ListInv, ElementsExact
<1> QED BY <1>6, <1>9, <1>10, <1>12, <1>13

\* remove(o) and erase(o) take o out while the cursor stays where it is.
LEMMA ReleaseStep ==
    ASSUME TypeOK, ListInv, ContentsRead, ContentsRead', WalksFinite, NEW L \in List,
           NEW o \in Obj
    PROVE  /\ Remove(L, o) => WalksFinite' /\ Abstract!Release(o)
           /\ Erase(L, o) => WalksFinite' /\ Abstract!Destroy(o)
<1> SUFFICES ASSUME Remove(L, o) \/ Erase(L, o)
             PROVE  /\ Remove(L, o) => WalksFinite' /\ Abstract!Release(o)
                    /\ Erase(L, o) => WalksFinite' /\ Abstract!Destroy(o)
  OBVIOUS
<1>1. PICK l \in ChainOf(L) : /\ element[l] = o /\ l # iter /\ RemoveFromList(l)
                              /\ Remove(L, o) => live' = live
                              /\ Erase(L, o) => live' = live \ {o}
  <2>1. CASE Remove(L, o)
    <3>1. PICK l \in ChainOf(L) : element[l] = o /\ l # iter /\ RemoveFromList(l) /\ live' = live
      BY <2>1 DEF Remove, RemoveLink
    <3>2. o \in live
      <4>1. l \in Allocated
        BY ChainExact
      <4> QED BY <3>1, <4>1 DEF ListInv, ElementsExact
    <3>3. ~ Erase(L, o)
      BY <3>1, <3>2 DEF Erase, EraseLink
    <3> QED BY <3>1, <3>3
  <2>2. CASE Erase(L, o)
    <3>1. PICK l \in ChainOf(L) : element[l] = o /\ l # iter /\ RemoveFromList(l) /\ live' = live \ {o}
      BY <2>2 DEF Erase, EraseLink
    <3>2. o \in live
      <4>1. l \in Allocated
        BY ChainExact
      <4> QED BY <3>1, <4>1 DEF ListInv, ElementsExact
    <3>3. ~ Remove(L, o)
      BY <3>1, <3>2 DEF Remove, RemoveLink
    <3> QED BY <3>1, <3>3
  <2> QED BY <2>1, <2>2
<1>2. l \in Allocated
  BY ChainExact
<1>3. /\ WalksFinite' /\ Contents' = Abstract!Without(o) /\ o \in live /\ o \in Abstract!Attached
      /\ \A k \in Allocated \ {l} : element'[k] = element[k] /\ element[k] # o
  BY <1>1, <1>2, LeaveLists
<1>4. iter' = iter
  BY DEF Remove, Erase
<1>5. iter # NULL => iter \in Allocated \ {l}
  BY <1>1, CursorIs
<1>6. Cursor' = Cursor /\ Cursor # o
  BY <1>3, <1>4, <1>5 DEF Cursor
<1> QED BY <1>1, <1>3, <1>6 DEF Abstract!Release, Abstract!Destroy

\* The erasures and removals through the iterator leave it on a neighbour's element.
LEMMA IterLeaveStep ==
    ASSUME TypeOK, ListInv, ContentsRead, ContentsRead', WalksFinite,
           iter # NULL, RemoveFromList(iter), iter' \in {next[iter], prev[iter]},
           live' \in {live, live \ {element[iter]}}
    PROVE  /\ WalksFinite'
           /\ iter' = next[iter] => Cursor' = Abstract!After(Cursor)
                                    /\ Abstract!Leave(Abstract!After(Cursor), live')
           /\ iter' = prev[iter] => Cursor' = Abstract!Before(Cursor)
                                    /\ Abstract!Leave(Abstract!Before(Cursor), live')
<1>1. iter \in Allocated /\ Cursor = element[iter] /\ Cursor # NULL
  BY CursorIs
<1>2. /\ WalksFinite' /\ Contents' = Abstract!Without(Cursor)
      /\ \A k \in Allocated \ {iter} : element'[k] = element[k]
  BY <1>1, LeaveLists
<1>3. /\ Abstract!After(Cursor) = IF next[iter] = NULL THEN NULL ELSE element[next[iter]]
      /\ Abstract!Before(Cursor) = IF prev[iter] = NULL THEN NULL ELSE element[prev[iter]]
  BY <1>1, NeighboursAre
<1>4. /\ next[iter] # NULL => next[iter] \in Allocated \ {iter}
      /\ prev[iter] # NULL => prev[iter] \in Allocated \ {iter}
  BY <1>1, NoSelfLoop DEF ListInv, LinksMirror, TypeOK
<1>5. iter' = next[iter] => Cursor' = Abstract!After(Cursor)
  BY <1>2, <1>3, <1>4 DEF Cursor
<1>6. iter' = prev[iter] => Cursor' = Abstract!Before(Cursor)
  BY <1>2, <1>3, <1>4 DEF Cursor
<1> QED BY <1>1, <1>2, <1>5, <1>6 DEF Abstract!Leave

\* removeAll() and clear() empty the sequence; clear() deletes exactly its elements.
LEMMA EmptyStep ==
    ASSUME TypeOK, ListInv, ContentsRead, ContentsRead', WalksFinite, NEW L \in List
    PROVE  /\ RemoveAll(L) => WalksFinite' /\ Abstract!Empty(L, live)
           /\ Clear(L) => WalksFinite' /\ Abstract!Empty(L, live \ Abstract!Elements(L))
<1>1. ASSUME DropChain(L)
      PROVE  /\ WalksFinite' /\ Contents' = [Contents EXCEPT ![L] = << >>]
             /\ Cursor' = Cursor /\ Cursor \notin Abstract!Elements(L)
  <2>1. WalksFinite' /\ Contents' = [Contents EXCEPT ![L] = << >>]
    BY <1>1, DropContent
  <2>2. ChainOf(L) = {l \in Link : parentlist[l] = L}
    BY ChainExact
  <2>3. iter \notin ChainOf(L) /\ iter' = iter
        /\ element' = [l \in Link |-> IF l \in ChainOf(L) THEN NULL ELSE element[l]]
    BY <1>1 DEF DropChain
  <2>4. \A o : o \in Abstract!Elements(L) <=> \E l \in Link : parentlist[l] = L /\ element[l] = o
    BY ElementsAre
  <2>5. CASE iter = NULL
    <3>1. Cursor' = NULL /\ Cursor = NULL
      BY <2>3, <2>5 DEF Cursor
    <3>2. \A l \in Link : parentlist[l] = L => element[l] # NULL
      BY DEF ListInv, ElementsExact, TypeOK
    <3> QED BY <2>1, <2>4, <3>1, <3>2
  <2>6. CASE iter # NULL
    <3>1. iter \in Allocated /\ parentlist[iter] # L /\ Cursor = element[iter]
      BY <2>2, <2>3, <2>6, CursorIs
    <3>2. \A l \in Link : parentlist[l] = L => element[l] # element[iter]
      BY <3>1 DEF ListInv, ElementsExact
    <3>3. Cursor' = Cursor
      BY <2>2, <2>3, <2>6, <3>1 DEF Cursor
    <3> QED BY <2>1, <2>4, <3>1, <3>2, <3>3
  <2> QED BY <2>5, <2>6
<1>2. ASSUME RemoveAll(L) PROVE WalksFinite' /\ Abstract!Empty(L, live)
  BY <1>1, <1>2 DEF RemoveAll, Abstract!Empty
<1>3. ASSUME Clear(L) PROVE WalksFinite' /\ Abstract!Empty(L, live \ Abstract!Elements(L))
  <2>1. live' = {o \in live : parentlink[o] \notin ChainOf(L)} /\ DropChain(L)
    BY <1>3 DEF Clear
  <2>2. ChainOf(L) = {l \in Link : parentlist[l] = L}
    BY ChainExact
  <2>3. \A o : o \in Abstract!Elements(L) <=> \E l \in Link : parentlist[l] = L /\ element[l] = o
    BY ElementsAre
  <2>4. ASSUME NEW o \in live PROVE o \in Abstract!Elements(L) <=> parentlink[o] \in ChainOf(L)
    <3>1. \A l \in Link : parentlist[l] = L => parentlink[element[l]] = l
      BY DEF ListInv, ElementsExact
    <3>2. parentlink[o] \in ChainOf(L) => element[parentlink[o]] = o
      BY <2>2 DEF ListInv, ElementsExact, TypeOK
    <3> QED BY <2>2, <2>3, <3>1, <3>2
  <2>5. live' = live \ Abstract!Elements(L)
    BY <2>1, <2>4
  <2> QED BY <1>1, <2>1, <2>5 DEF Abstract!Empty
<1> QED BY <1>2, <1>3

\* merge() appends.
LEMMA MergeAbstract ==
    ASSUME TypeOK, ListInv, ContentsRead, ContentsRead', WalksFinite,
           NEW L \in List, NEW x \in List, Merge(L, x)
    PROVE  WalksFinite' /\ Abstract!Merge(L, x)
<1>1. WalksFinite' /\ Contents' = [Contents EXCEPT ![L] = Content(L) \o Content(x), ![x] = << >>]
  BY MergeContent
<1>2. Cursor' = Cursor
  BY CursorStays DEF Merge
<1>3. Contents[L] = Content(L) /\ Contents[x] = Content(x)
  BY DEF Contents
<1>4. L # x /\ live' = live
  BY DEF Merge
<1> QED BY <1>1, <1>2, <1>3, <1>4 DEF Abstract!Merge

\* The contents after a step that leaves the links where they are.
LEMMA ElementsMoved ==
    ASSUME ContentsRead, ContentsRead', WalksFinite, UNCHANGED <<head, next, parentlist>>,
           NEW L \in List, NEW n \in Nat, NEW s \in [1 .. n -> Link], IsWalk(n, s, L)
    PROVE  WalksFinite' /\ Contents[L] = Reads(n, s) /\ Contents'[L] = Reads(n, s)'
<1>1. WalksFinite' /\ Content(L)' = Reads(n, s)'
  BY KeepsPlaces
<1>2. Contents[L] = Reads(n, s)
  BY LengthIs
<1> QED BY <1>1, <1>2 DEF Contents

\* swap() exchanges two elements in their sequences, and the cursor keeps its place.
LEMMA ExchangeStep ==
    ASSUME TypeOK, ListInv, ContentsRead, ContentsRead', WalksFinite,
           NEW a \in Link, NEW b \in Link, Swap(a, b)
    PROVE  /\ WalksFinite' /\ element[a] \in Obj /\ element[b] \in Obj
           /\ Abstract!Exchange(element[a], element[b])
<1> DEFINE swapped(e) == CASE e = element[a] -> element[b] [] e = element[b] -> element[a]
        [] OTHER -> e
<1>1. a \in Allocated /\ b \in Allocated /\ iter' = iter /\ live' = live
      /\ element' = [element EXCEPT ![a] = element[b], ![b] = element[a]]
  BY DEF Swap
<1>2. UNCHANGED <<head, next, parentlist>>
  BY DEF Swap, listVars
<1>3. element[a] \in Obj /\ element[b] \in Obj
  BY <1>1 DEF ListInv, ElementsExact, TypeOK
<1>4. ASSUME NEW k \in Allocated PROVE element'[k] = swapped(element[k])
  BY <1>1, <1>4 DEF ListInv, ElementsExact, TypeOK
<1> HIDE DEF swapped
<1>5. ASSUME NEW L \in List
      PROVE  WalksFinite' /\ Contents'[L] = [i \in DOMAIN Contents[L] |-> swapped(Contents[L][i])]
  <2>1. PICK n \in Nat : \E s \in [1 .. n -> Link] : IsWalk(n, s, L)
    BY DEF WalksFinite, HasWalk
  <2>2. PICK s \in [1 .. n -> Link] : IsWalk(n, s, L)
    BY <2>1
  <2>3. WalksFinite' /\ Contents[L] = Reads(n, s) /\ Contents'[L] = Reads(n, s)'
    BY <1>2, <2>2, ElementsMoved
  <2>4. \A i \in 1 .. n : element'[s[i]] = swapped(element[s[i]])
    BY <1>4, <2>2 DEF IsWalk
  <2> QED BY <2>3, <2>4 DEF Reads
<1>6. Contents' = [L \in List |-> [i \in DOMAIN Contents[L] |-> swapped(Contents[L][i])]]
  BY <1>5 DEF Contents
<1>7. {element[a], element[b]} \subseteq Abstract!Attached
  BY <1>1, AttachedAre
<1>8. Cursor' = swapped(Cursor)
  <2>1. CASE iter = NULL
    <3>1. element[a] # NULL /\ element[b] # NULL /\ Cursor = NULL /\ Cursor' = NULL
      BY <1>1, <1>3, <2>1 DEF Cursor
    <3> QED BY <3>1 DEF swapped
  <2>2. CASE iter # NULL
    BY <1>1, <1>4, <2>2, CursorIs DEF Cursor
  <2> QED BY <2>1, <2>2
<1>9. WalksFinite'
  BY <1>2, KeepsPlaces
<1> QED BY <1>1, <1>3, <1>6, <1>7, <1>8, <1>9 DEF swapped, Abstract!Exchange

\* An assignment through the iterator replaces the element at its place.
LEMMA AssignAbstract ==
    ASSUME TypeOK, ListInv, ContentsRead, ContentsRead', WalksFinite, NEW o \in Obj, IterAssign(o)
    PROVE  WalksFinite' /\ Abstract!Assign(o)
<1>1. /\ iter # NULL /\ o \in Detached /\ iter' = iter /\ live' = live
      /\ element' = [element EXCEPT ![iter] = o]
  BY DEF IterAssign
<1>2. UNCHANGED <<head, next, parentlist>>
  BY DEF IterAssign, listVars
<1>3. iter \in Allocated /\ Cursor = element[iter] /\ Cursor # NULL
  BY <1>1, CursorIs
<1>4. PICK n \in Nat : \E s \in [1 .. n -> Link] :
                          IsWalk(n, s, parentlist[iter]) /\ \E q \in 1 .. n : iter = s[q]
  BY <1>3, PlaceOf
<1>5. PICK s \in [1 .. n -> Link] : IsWalk(n, s, parentlist[iter]) /\ \E q \in 1 .. n : iter = s[q]
  BY <1>4
<1>6. PICK q \in 1 .. n : iter = s[q]
  BY <1>5
<1>7. PICK L \in List : L = parentlist[iter]
  BY <1>3, PlaceOf
<1>8. IsWalk(n, s, L)
  BY <1>5, <1>7
<1>9. Abstract!ListOf(Cursor) = L /\ Abstract!PosOf(Cursor) = q
  BY <1>3, <1>6, <1>8, PlaceIs
<1>10. WalksFinite' /\ Contents[L] = Reads(n, s) /\ Contents'[L] = Reads(n, s)'
  BY <1>2, <1>8, ElementsMoved
<1>11. Contents'[L] = [Contents[L] EXCEPT ![q] = o]
  <2>1. \A i \in 1 .. n : element'[s[i]] = IF i = q THEN o ELSE element[s[i]]
    BY <1>1, <1>6, <1>8 DEF IsWalk, TypeOK
  <2> QED BY <1>10, <2>1 DEF Reads
<1>12. ASSUME NEW K \in List, K # L PROVE Contents'[K] = Contents[K]
  <2>1. PICK m \in Nat : \E t \in [1 .. m -> Link] : IsWalk(m, t, K)
    BY DEF WalksFinite, HasWalk
  <2>2. PICK t \in [1 .. m -> Link] : IsWalk(m, t, K)
    BY <2>1
  <2>3. WalksFinite' /\ Contents[K] = Reads(m, t) /\ Contents'[K] = Reads(m, t)'
    BY <1>2, <2>2, ElementsMoved
  <2>4. \A i \in 1 .. m : element'[t[i]] = element[t[i]]
    BY <1>1, <1>7, <1>12, <2>2 DEF IsWalk, TypeOK
  <2> QED BY <2>3, <2>4 DEF Reads
<1>13. Contents' = [Contents EXCEPT ![L] = [Contents[L] EXCEPT ![q] = o]]
  BY <1>11, <1>12 DEF Contents
<1>14. Cursor' = o
  BY <1>1, <1>3 DEF Cursor, TypeOK
<1>15. o \in Abstract!Detached
  BY <1>1, AttachedAre
<1> QED BY <1>1, <1>3, <1>9, <1>10, <1>13, <1>14, <1>15 DEF Abstract!Assign

-----------------------------------------------------------------------------
\* At the start every list is the empty sequence.
LEMMA InitImplements == Init => WalksFinite /\ Abstract!Init
<1> SUFFICES ASSUME Init PROVE WalksFinite /\ Abstract!Init
  OBVIOUS
<1>1. ContentsRead
  BY InitInv, ContentIs
<1>2. \A L \in List : HasWalk(L) /\ Content(L) = << >>
  BY <1>1, EmptyOnesRead DEF EmptyOnes, Init
<1> QED BY <1>2 DEF WalksFinite, Contents, Cursor, Init, Abstract!Init

\* Every step has an effect the sequences know.
LEMMA StepImplements ==
    ASSUME TypeOK, ListInv, ContentsRead, ContentsRead', WalksFinite, [Next]_vars
    PROVE  WalksFinite' /\ [Abstract!Next]_<<live, Contents, Cursor>>
<1>1. ASSUME NEW o \in Obj, New(o) PROVE WalksFinite' /\ Abstract!Next
  <2>1. WalksFinite' /\ Abstract!Create(o)
    BY <1>1, CreateStep
  <2> QED BY <2>1 DEF Abstract!Next
<1>2. ASSUME NEW o \in Obj, Delete(o) PROVE WalksFinite' /\ Abstract!Next
  <2>1. WalksFinite' /\ Abstract!Delete(o)
    BY <1>2, DeleteStep
  <2> QED BY <2>1 DEF Abstract!Next
<1>3. ASSUME NEW o \in Obj, IteratorOf(o) PROVE WalksFinite' /\ Abstract!Next
  <2>1. WalksFinite' /\ Abstract!At(o)
    BY <1>3, AtStep
  <2> QED BY <2>1 DEF Abstract!Next
<1>4. ASSUME NEW o \in Obj, IterAssign(o) PROVE WalksFinite' /\ Abstract!Next
  <2>1. WalksFinite' /\ Abstract!Assign(o)
    BY <1>4, AssignAbstract
  <2> QED BY <2>1 DEF Abstract!Next
<1>5. ASSUME NEW o \in Obj, InsertAfter(o) \/ InsertBefore(o) PROVE WalksFinite' /\ Abstract!Next
  <2>1. WalksFinite' /\ Abstract!Insert(o)
    BY <1>5, InsertBesideStep
  <2> QED BY <2>1 DEF Abstract!Next
<1>6. ASSUME NEW L \in List, NEW o \in Obj, PushFront(L, o) \/ PushBack(L, o)
      PROVE  WalksFinite' /\ Abstract!Next
  <2>1. WalksFinite' /\ Abstract!Insert(o)
    BY <1>6, PushFrontStep, PushBackStep
  <2> QED BY <2>1 DEF Abstract!Next
<1>7. ASSUME NEW L \in List, NEW o \in Obj, Remove(L, o) PROVE WalksFinite' /\ Abstract!Next
  <2>1. WalksFinite' /\ Abstract!Release(o)
    BY <1>7, ReleaseStep
  <2> QED BY <2>1 DEF Abstract!Next
<1>8. ASSUME NEW L \in List, NEW o \in Obj, Erase(L, o) PROVE WalksFinite' /\ Abstract!Next
  <2>1. WalksFinite' /\ Abstract!Destroy(o)
    BY <1>8, ReleaseStep
  <2> QED BY <2>1 DEF Abstract!Next
<1>9. ASSUME NEW L \in List, RemoveAll(L) PROVE WalksFinite' /\ Abstract!Next
  <2>1. WalksFinite' /\ Abstract!Empty(L, live)
    BY <1>9, EmptyStep
  <2> QED BY <2>1 DEF Abstract!Next
<1>10. ASSUME NEW L \in List, Clear(L) PROVE WalksFinite' /\ Abstract!Next
  <2>1. WalksFinite' /\ Abstract!Empty(L, live \ Abstract!Elements(L))
    BY <1>10, EmptyStep
  <2> QED BY <2>1 DEF Abstract!Next
<1>11. ASSUME NEW L \in List, Begin(L) PROVE WalksFinite' /\ Abstract!Next
  <2>1. WalksFinite' /\ Abstract!First(L)
    BY <1>11, BeginStep
  <2> QED BY <2>1 DEF Abstract!Next
<1>12. ASSUME NEW L \in List, RBegin(L) PROVE WalksFinite' /\ Abstract!Next
  <2>1. WalksFinite' /\ Abstract!Final(L)
    BY <1>12, BeginStep
  <2> QED BY <2>1 DEF Abstract!Next
<1>13. ASSUME NEW L \in List, NEW x \in List, Merge(L, x) PROVE WalksFinite' /\ Abstract!Next
  <2>1. WalksFinite' /\ Abstract!Merge(L, x)
    BY <1>13, MergeAbstract
  <2> QED BY <2>1 DEF Abstract!Next
<1>14. ASSUME NEW a \in Link, NEW b \in Link, Swap(a, b) PROVE WalksFinite' /\ Abstract!Next
  <2>1. WalksFinite' /\ element[a] \in Obj /\ element[b] \in Obj
          /\ Abstract!Exchange(element[a], element[b])
    BY <1>14, ExchangeStep
  <2> QED BY <2>1 DEF Abstract!Next
<1>15. ASSUME Increment \/ Decrement PROVE WalksFinite' /\ Abstract!Next
  <2>1. WalksFinite' /\ (Abstract!Forth \/ Abstract!Back)
    BY <1>15, StepStep
  <2> QED BY <2>1 DEF Abstract!Next
<1>16. ASSUME IterErase \/ IterRErase \/ IterRemove \/ IterRRemove PROVE WalksFinite' /\ Abstract!Next
  <2>1. /\ iter # NULL /\ RemoveFromList(iter) /\ iter' \in {next[iter], prev[iter]}
        /\ live' \in {live, live \ {element[iter]}}
    BY <1>16 DEF IterErase, IterRErase, IterRemove, IterRRemove, EraseLink, RemoveLink
  <2>2. WalksFinite' /\ (\/ Abstract!Leave(Abstract!After(Cursor), live')
                         \/ Abstract!Leave(Abstract!Before(Cursor), live'))
    BY <2>1, IterLeaveStep
  <2>3. Cursor = element[iter] /\ Cursor # NULL
    BY <2>1, CursorIs
  <2>4. PICK alive \in {live, live \ {Cursor}} : alive = live'
    BY <2>1, <2>3
  <2> QED BY <2>2, <2>3, <2>4 DEF Abstract!Next
<1>17. ASSUME UNCHANGED vars PROVE WalksFinite' /\ UNCHANGED <<live, Contents, Cursor>>
  <2>1. \A K \in List : Untouched(K)
    BY <1>17 DEF Untouched, vars
  <2>2. WalksFinite' /\ Contents' = Contents
    BY <2>1, NoList
  <2> QED BY <1>17, <2>2, CursorStays DEF vars
<1> QED BY <1>1, <1>2, <1>3, <1>4, <1>5, <1>6, <1>7, <1>8, <1>9, <1>10, <1>11, <1>12, <1>13, <1>14,
           <1>15, <1>16, <1>17 DEF Next

\* Every list is walkable in finitely many steps, always.
LEMMA WalksInductive == Spec => [](TypeOK /\ ListInv /\ ContentsRead /\ WalksFinite)
<1>1. Init => TypeOK /\ ListInv /\ ContentsRead /\ WalksFinite
  BY InitInv, ContentIs, InitImplements
<1>2. TypeOK /\ ListInv /\ ContentsRead /\ WalksFinite /\ [Next]_vars
      => (TypeOK /\ ListInv /\ ContentsRead /\ WalksFinite)'
  <2> SUFFICES ASSUME TypeOK, ListInv, ContentsRead, WalksFinite, [Next]_vars
               PROVE  (TypeOK /\ ListInv /\ ContentsRead /\ WalksFinite)'
    OBVIOUS
  <2>1. TypeOK' /\ ListInv'
    BY NextInv
  <2>2. ContentsRead'
    BY <2>1, ContentIs, PTL
  <2>3. WalksFinite'
    BY <2>2, StepImplements
  <2> QED BY <2>1, <2>2, <2>3
<1> QED BY <1>1, <1>2, PTL DEF Spec

\* The lists of BList do what ObjectLists promises: every operation on the pointers has
\* the effect its sequence operation has, on the lists and on the element under the
\* iterator.
THEOREM ListsImplemented == Spec => ImplementsLists
<1>1. Init => Abstract!Init
  BY InitImplements
<1>2. /\ TypeOK /\ ListInv /\ ContentsRead /\ WalksFinite
      /\ (TypeOK /\ ListInv /\ ContentsRead /\ WalksFinite)'
      /\ [Next]_vars
      => [Abstract!Next]_<<live, Contents, Cursor>>
  BY StepImplements
<1> QED BY <1>1, <1>2, WalksInductive, PTL DEF Spec, ImplementsLists, Abstract!Spec, Abstract!vars

-----------------------------------------------------------------------------
\* The two ends.
LEMMA FrontIs ==
    ASSUME NEW s \in Seq(Obj), NEW o \in Obj
    PROVE  Abstract!InsertAt(s, 1, o) = <<o>> \o s
<1>1. PICK r : r = Abstract!InsertAt(s, 1, o)
  OBVIOUS
<1>2. PICK a : a = <<o>>
  OBVIOUS
<1>3. a \in Seq(Obj) /\ Len(a) = 1 /\ a[1] = o
  BY <1>2
<1>4. r = [k \in 1 .. Len(s) + 1 |-> IF k < 1 THEN s[k] ELSE IF k = 1 THEN o ELSE s[k - 1]]
  <2>1. 1 \in 1 .. Len(s) + 1
    BY LenProperties
  <2> QED BY <1>1, <2>1, InsertedAs
<1>5. a \o s = [k \in 1 .. Len(a) + Len(s) |-> IF k <= Len(a) THEN a[k] ELSE s[k - Len(a)]]
  BY <1>3, AppendedAs
<1>6. Len(s) \in Nat
  BY LenProperties
<1>7. a \o s = r
  BY <1>3, <1>4, <1>5, <1>6
<1> QED BY <1>1, <1>2, <1>7

\* An insertion after the last place appends.
LEMMA BackEndIs ==
    ASSUME NEW s \in Seq(Obj), NEW o \in Obj
    PROVE  Abstract!InsertAt(s, Len(s) + 1, o) = Append(s, o)
<1>1. PICK r : r = Abstract!InsertAt(s, Len(s) + 1, o)
  OBVIOUS
<1>2. PICK a : a = Append(s, o)
  OBVIOUS
<1>3. PICK q : q = Len(s) + 1
  OBVIOUS
<1>4. Len(s) \in Nat /\ q \in 1 .. Len(s) + 1
  BY <1>3, LenProperties
<1>5. r = [k \in 1 .. Len(s) + 1 |-> IF k < q THEN s[k] ELSE IF k = q THEN o ELSE s[k - 1]]
  BY <1>1, <1>3, <1>4, InsertedAs
<1>6. /\ a \in Seq(Obj) /\ Len(a) = Len(s) + 1
      /\ \A k \in 1 .. Len(s) : a[k] = s[k]
      /\ a[Len(s) + 1] = o
  BY <1>2, AppendProperties
<1>7. DOMAIN a = 1 .. Len(s) + 1 /\ a = [k \in DOMAIN a |-> a[k]]
  BY <1>6, LenProperties
<1>8. ASSUME NEW k \in 1 .. Len(s) + 1
      PROVE  a[k] = IF k < q THEN s[k] ELSE IF k = q THEN o ELSE s[k - 1]
  BY <1>3, <1>4, <1>6
<1>9. a = r
  BY <1>5, <1>7, <1>8
<1> QED BY <1>1, <1>2, <1>9

\* NeighboursAre, for every link at once.
NeighboursRead ==
    \A l \in Allocated :
        /\ Abstract!After(element[l]) = IF next[l] = NULL THEN NULL ELSE element[next[l]]
        /\ Abstract!Before(element[l]) = IF prev[l] = NULL THEN NULL ELSE element[prev[l]]

\* NeighboursAre, in a form that can be primed.
LEMMA NeighboursAll == TypeOK /\ ListInv /\ ContentsRead /\ WalksFinite => NeighboursRead
BY NeighboursAre DEF NeighboursRead

\* A content is a sequence of objects.
LEMMA ContentIsSeq ==
    ASSUME ContentsRead, WalksFinite, NEW L \in List
    PROVE  Content(L) \in Seq(Obj) /\ Contents[L] = Content(L)
<1>1. PICK n \in Nat : \E s \in [1 .. n -> Link] : IsWalk(n, s, L)
  BY DEF WalksFinite, HasWalk
<1>2. PICK s \in [1 .. n -> Link] : IsWalk(n, s, L)
  BY <1>1
<1>3. Content(L) \in [1 .. n -> Obj]
  BY <1>2 DEF ContentsRead
<1> QED BY <1>3, SeqIs DEF Contents

\* No operation takes one end or one neighbour for the other: push_front and push_back,
\* the insertions on the two sides of the iterator, erase() and rerase().
THEOREM OperationsKept == Spec => OperationsExact
<1> DEFINE Seen == TypeOK /\ ListInv /\ ContentsRead /\ WalksFinite
<1> DEFINE Exact ==
       /\ \A L \in List, o \in Obj :
             /\ PushFront(L, o) => Content(L)' = <<o>> \o Content(L)
             /\ PushBack(L, o) => Content(L)' = Append(Content(L), o)
       /\ \A o \in Obj :
             /\ InsertAfter(o) => Abstract!After(Cursor)' = o
             /\ InsertBefore(o) => Abstract!Before(Cursor)' = o
       /\ IterErase \/ IterRemove => Cursor' = Abstract!After(Cursor)
       /\ IterRErase \/ IterRRemove => Cursor' = Abstract!Before(Cursor)
<1>1. Seen /\ Seen' /\ [Next]_vars => [Exact]_vars
  <2> SUFFICES ASSUME Seen, Seen' PROVE Exact
    OBVIOUS
  <2>1. ASSUME NEW L \in List, NEW o \in Obj, PushFront(L, o)
        PROVE  Content(L)' = <<o>> \o Content(L)
    <3>1. Contents' = Abstract!With(L, 1, o)
      BY <2>1, PushFrontStep
    <3>2. Content(L) \in Seq(Obj) /\ Contents[L] = Content(L)
      BY ContentIsSeq
    <3>3. Content(L)' = Abstract!InsertAt(Content(L), 1, o)
      BY <3>1, <3>2 DEF Abstract!With, Contents
    <3> QED BY <3>2, <3>3, FrontIs
  <2>2. ASSUME NEW L \in List, NEW o \in Obj, PushBack(L, o)
        PROVE  Content(L)' = Append(Content(L), o)
    <3>1. Contents' = Abstract!With(L, Len(Contents[L]) + 1, o)
      BY <2>2, PushBackStep
    <3>2. Content(L) \in Seq(Obj) /\ Contents[L] = Content(L)
      BY ContentIsSeq
    <3>3. Content(L)' = Abstract!InsertAt(Content(L), Len(Content(L)) + 1, o)
      BY <3>1, <3>2 DEF Abstract!With, Contents
    <3> QED BY <3>2, <3>3, BackEndIs
  <2>3. NeighboursRead'
    BY NeighboursAll, PTL
  <2>4. ASSUME NEW o \in Obj, InsertAfter(o) PROVE Abstract!After(Cursor)' = o
    <3>1. element'[next'[iter]] = o /\ next'[iter] # NULL
      BY <2>4, InsertBesideStep
    <3>2. iter' = iter /\ iter # NULL
      BY <2>4 DEF InsertAfter
    <3>3. iter' \in Allocated' /\ Cursor' = element'[iter']
      BY <3>2 DEF ListInv, IteratorValid, Cursor
    <3> QED BY <2>3, <3>1, <3>2, <3>3 DEF NeighboursRead
  <2>5. ASSUME NEW o \in Obj, InsertBefore(o) PROVE Abstract!Before(Cursor)' = o
    <3>1. element'[prev'[iter]] = o /\ prev'[iter] # NULL
      BY <2>5, InsertBesideStep
    <3>2. iter' = iter /\ iter # NULL
      BY <2>5 DEF InsertBefore
    <3>3. iter' \in Allocated' /\ Cursor' = element'[iter']
      BY <3>2 DEF ListInv, IteratorValid, Cursor
    <3> QED BY <2>3, <3>1, <3>2, <3>3 DEF NeighboursRead
  <2>6. ASSUME IterErase \/ IterRemove PROVE Cursor' = Abstract!After(Cursor)
    <3>1. /\ iter # NULL /\ RemoveFromList(iter) /\ iter' = next[iter]
          /\ live' \in {live, live \ {element[iter]}}
      BY <2>6 DEF IterErase, IterRemove, EraseLink, RemoveLink
    <3> QED BY <3>1, IterLeaveStep
  <2>7. ASSUME IterRErase \/ IterRRemove PROVE Cursor' = Abstract!Before(Cursor)
    <3>1. /\ iter # NULL /\ RemoveFromList(iter) /\ iter' = prev[iter]
          /\ live' \in {live, live \ {element[iter]}}
      BY <2>7 DEF IterRErase, IterRRemove, EraseLink, RemoveLink
    <3> QED BY <3>1, IterLeaveStep
  <2> QED BY <2>1, <2>2, <2>4, <2>5, <2>6, <2>7
<1> QED BY <1>1, WalksInductive, PTL DEF Spec, OperationsExact
=============================================================================
