-------------------------- MODULE ListLoops_proofs --------------------------
(***************************************************************************)
(* The loops over a list that changes under them do what they promise for  *)
(* lists of any lengths.  The inductive invariant says, for each loop,     *)
(* what every position of the list holds after any number of turns, as a   *)
(* function of how many elements have been moved (Moved).                  *)
(***************************************************************************)
EXTENDS ListLoops, SequenceTheorems, TLAPS

\* The numbering of the elements, and what the operations ask of their argument.
Inputs ==
    /\ op \in Ops /\ status \in {"run", "done", "exit"} /\ place \in Nat
    /\ old \in Seq(Nat) /\ \A k \in 1 .. Len(old) : old[k] = k
    /\ oldSrc \in Seq(Nat) /\ \A k \in 1 .. Len(oldSrc) : oldSrc[k] = Len(old) + k
    /\ op \in Splices => place \in 1 .. Len(old)
    /\ op = "insert" => Len(oldSrc) = 1
    /\ op = "removeSubTree" => place <= Len(old)
    /\ op = "remove_dopplegangers" => class \in [1 .. Len(old) -> Nat]

Working == list \in Seq(Nat) /\ src \in Seq(Nat) /\ i \in Nat \ {0} /\ j \in Nat \ {0}

Moved == Len(oldSrc) - Len(src)

AfterInv ==
    op = "insert_after" =>
       /\ i = place /\ Len(src) <= Len(oldSrc) /\ Len(list) = Len(old) + Moved
       /\ \A k \in 1 .. Len(src) : src[k] = Len(old) + k
       /\ \A k \in 1 .. Len(list) :
             list[k] = IF k <= place THEN k
                       ELSE IF k <= place + Moved THEN Len(old) + Len(src) + (k - place)
                       ELSE k - Moved
       /\ status = "done" => src = <<>>

BeforeInv ==
    op = "insert_before" =>
       /\ i = place + Moved /\ Len(src) <= Len(oldSrc) /\ Len(list) = Len(old) + Moved
       /\ \A k \in 1 .. Len(src) : src[k] = Len(old) + Moved + k
       /\ \A k \in 1 .. Len(list) :
             list[k] = IF k < place THEN k
                       ELSE IF k < place + Moved THEN Len(old) + (k - place) + 1
                       ELSE k - Moved
       /\ status = "done" => src = <<>>

\* Nothing has been moved; or this has been replaced and Moved - 1 elements put after
\* it; or there was nothing to replace this with and it has been removed.
ReplaceInv ==
    op = "replaceWithList" =>
       /\ i = place /\ status # "exit"
       /\ \/ list = old /\ src = oldSrc /\ status = "run"
          \/ /\ 1 <= Moved /\ Len(src) < Len(oldSrc) /\ Len(list) = Len(old) + Moved - 1
             /\ \A k \in 1 .. Len(src) : src[k] = Len(old) + 1 + k
             /\ \A k \in 1 .. Len(list) :
                   list[k] = IF k < place THEN k
                             ELSE IF k = place THEN Len(old) + 1
                             ELSE IF k < place + Moved THEN Len(old) + 1 + Len(src) + (k - place)
                             ELSE k - Moved + 1
             /\ status = "done" => src = <<>>
          \/ /\ oldSrc = <<>> /\ src = <<>> /\ status = "done" /\ Len(list) = Len(old) - 1
             /\ \A k \in 1 .. Len(list) : list[k] = IF k < place THEN k ELSE k + 1

InsertInv ==
    op = "insert" =>
       \/ list = old /\ src = oldSrc /\ status # "done"
       \/ /\ status = "done" /\ place <= Len(old) /\ Len(list) = Len(old) + 1
          /\ \A k \in 1 .. Len(list) :
                list[k] = IF k <= place THEN k ELSE IF k = place + 1 THEN Len(old) + 1 ELSE k - 1

\* The element that holds the subtree has not been passed.
SubTreeInv ==
    op = "removeSubTree" =>
       /\ status = "run" => list = old /\ (place # 0 => i <= place)
       /\ status = "done" => list = IF place = 0 THEN old ELSE RemoveAt(old, place)

\* What has been removed has an equal before it that is kept for good; what is before
\* the iterators is different from what it has been compared with.
DoppleInv ==
    op = "remove_dopplegangers" =>
       /\ i < j /\ i <= Len(list) + 1
       /\ \A p \in 1 .. Len(list) : list[p] \in 1 .. Len(old)
       /\ \A p, q \in 1 .. Len(list) : p < q => list[p] < list[q]
       /\ \A p, q \in 1 .. Len(list) :
             p < q /\ (p < i \/ (p = i /\ q < j)) => class[list[p]] # class[list[q]]
       /\ \A e \in 1 .. Len(old) :
             (\E p \in 1 .. Len(list) : list[p] = e)
             \/ \E p \in 1 .. Len(list) : p <= i /\ list[p] < e /\ class[list[p]] = class[e]
       /\ status = "done" => i > Len(list)

LoopInv == /\ Inputs /\ Working /\ AfterInv /\ BeforeInv /\ ReplaceInv
           /\ InsertInv /\ SubTreeInv /\ DoppleInv

-----------------------------------------------------------------------------
\* The operations on sequences, position by position.

LEMMA ConcatIs ==
    ASSUME NEW a \in Seq(Nat), NEW b \in Seq(Nat), NEW c, c = a \o b
    PROVE  /\ c \in Seq(Nat) /\ Len(c) = Len(a) + Len(b)
           /\ \A k \in 1 .. Len(c) : c[k] = IF k <= Len(a) THEN a[k] ELSE b[k - Len(a)]
BY ConcatProperties

LEMMA PartIs ==
    ASSUME NEW s \in Seq(Nat), NEW f \in Nat \ {0}, NEW t \in Nat, f <= t + 1, t <= Len(s),
           NEW c, c = SubSeq(s, f, t)
    PROVE  /\ c \in Seq(Nat) /\ Len(c) = t + 1 - f
           /\ \A k \in 1 .. Len(c) : c[k] = s[f + k - 1]
<1>1. Len(s) \in Nat
  BY LenProperties
<1>2. \A k \in f .. t : s[k] \in Nat
  <2> SUFFICES ASSUME NEW k \in f .. t PROVE s[k] \in Nat
    OBVIOUS
  <2>1. k \in 1 .. Len(s)
    BY <1>1
  <2> QED BY <2>1, ElementOfSeq
<1>3. /\ c \in Seq(Nat) /\ Len(c) = IF f <= t THEN t - f + 1 ELSE 0
      /\ \A k \in 1 .. t - f + 1 : c[k] = s[f + k - 1]
  BY <1>2, SubSeqProperties
<1>4. Len(c) = t + 1 - f
  BY <1>3
<1> QED BY <1>3, <1>4

LEMMA InsertAtIs ==
    ASSUME NEW s \in Seq(Nat), NEW p \in 1 .. Len(s) + 1, NEW e \in Nat
    PROVE  /\ InsertAt(s, p, e) \in Seq(Nat) /\ Len(InsertAt(s, p, e)) = Len(s) + 1
           /\ \A k \in 1 .. Len(s) + 1 :
                 InsertAt(s, p, e)[k] = IF k < p THEN s[k] ELSE IF k = p THEN e ELSE s[k - 1]
<1>1. PICK a : a = SubSeq(s, 1, p - 1)
  OBVIOUS
<1>2. PICK b : b = <<e>>
  OBVIOUS
<1>3. PICK c : c = SubSeq(s, p, Len(s))
  OBVIOUS
<1>4. PICK d : d = a \o b
  OBVIOUS
<1>5. PICK r : r = d \o c
  OBVIOUS
<1>6. Len(s) \in Nat /\ p \in Nat \ {0} /\ p - 1 \in Nat /\ p <= Len(s) + 1
  BY LenProperties
<1>7. a \in Seq(Nat) /\ Len(a) = p - 1 /\ \A k \in 1 .. p - 1 : a[k] = s[k]
  <2>1. /\ a \in Seq(Nat) /\ Len(a) = (p - 1) + 1 - 1
        /\ \A k \in 1 .. Len(a) : a[k] = s[1 + k - 1]
    BY <1>1, <1>6, PartIs
  <2> QED BY <1>6, <2>1
<1>8. b \in Seq(Nat) /\ Len(b) = 1 /\ b[1] = e
  BY <1>2
<1>9. /\ c \in Seq(Nat) /\ Len(c) = Len(s) + 1 - p
      /\ \A k \in 1 .. Len(c) : c[k] = s[p + k - 1]
  BY <1>3, <1>6, PartIs
<1>10. /\ d \in Seq(Nat) /\ Len(d) = Len(a) + Len(b)
       /\ \A k \in 1 .. Len(d) : d[k] = IF k <= Len(a) THEN a[k] ELSE b[k - Len(a)]
  <2>1. a \in Seq(Nat) /\ b \in Seq(Nat)
    BY <1>7, <1>8
  <2> QED BY <1>4, <2>1, ConcatIs
<1>11. /\ r \in Seq(Nat) /\ Len(r) = Len(d) + Len(c)
       /\ \A k \in 1 .. Len(r) : r[k] = IF k <= Len(d) THEN d[k] ELSE c[k - Len(d)]
  <2>1. d \in Seq(Nat) /\ c \in Seq(Nat)
    BY <1>9, <1>10
  <2> QED BY <1>5, <2>1, ConcatIs
<1>12. Len(d) = p /\ Len(r) = Len(s) + 1
  BY <1>6, <1>7, <1>8, <1>9, <1>10, <1>11
<1>13. ASSUME NEW k \in 1 .. Len(s) + 1
       PROVE  r[k] = IF k < p THEN s[k] ELSE IF k = p THEN e ELSE s[k - 1]
  <2>1. CASE k < p
    <3>1. k \in 1 .. Len(r) /\ k \in 1 .. Len(d) /\ k \in 1 .. p - 1 /\ k <= Len(d) /\ k <= Len(a)
      BY <1>6, <1>7, <1>12, <2>1
    <3> QED BY <1>7, <1>10, <1>11, <2>1, <3>1
  <2>2. CASE k = p
    BY <1>6, <1>7, <1>8, <1>10, <1>11, <1>12, <2>2
  <2>3. CASE k > p
    <3>1. r[k] = c[k - p] /\ k - p \in 1 .. Len(c) /\ p + (k - p) - 1 = k - 1
      BY <1>6, <1>9, <1>11, <1>12, <2>3
    <3> QED BY <1>6, <1>9, <2>3, <3>1
  <2> QED BY <1>6, <2>1, <2>2, <2>3
<1>14. InsertAt(s, p, e) = r
  BY <1>1, <1>2, <1>3, <1>4, <1>5 DEF InsertAt
<1> QED BY <1>11, <1>12, <1>13, <1>14

LEMMA RemoveAtIs ==
    ASSUME NEW s \in Seq(Nat), NEW p \in 1 .. Len(s)
    PROVE  /\ RemoveAt(s, p) \in Seq(Nat) /\ Len(RemoveAt(s, p)) = Len(s) - 1
           /\ \A k \in 1 .. Len(s) - 1 : RemoveAt(s, p)[k] = IF k < p THEN s[k] ELSE s[k + 1]
<1>1. PICK a : a = SubSeq(s, 1, p - 1)
  OBVIOUS
<1>2. PICK c : c = SubSeq(s, p + 1, Len(s))
  OBVIOUS
<1>3. PICK r : r = a \o c
  OBVIOUS
<1>4. /\ Len(s) \in Nat /\ p \in Nat \ {0} /\ p - 1 \in Nat /\ p <= Len(s)
      /\ p + 1 \in Nat \ {0} /\ p + 1 <= Len(s) + 1
  BY LenProperties
<1>5. a \in Seq(Nat) /\ Len(a) = p - 1 /\ \A k \in 1 .. p - 1 : a[k] = s[k]
  <2>1. /\ a \in Seq(Nat) /\ Len(a) = (p - 1) + 1 - 1
        /\ \A k \in 1 .. Len(a) : a[k] = s[1 + k - 1]
    BY <1>1, <1>4, PartIs
  <2> QED BY <1>4, <2>1
<1>6. /\ c \in Seq(Nat) /\ Len(c) = Len(s) + 1 - (p + 1)
      /\ \A k \in 1 .. Len(c) : c[k] = s[(p + 1) + k - 1]
  BY <1>2, <1>4, PartIs
<1>7. /\ r \in Seq(Nat) /\ Len(r) = Len(a) + Len(c)
      /\ \A k \in 1 .. Len(r) : r[k] = IF k <= Len(a) THEN a[k] ELSE c[k - Len(a)]
  <2>1. a \in Seq(Nat) /\ c \in Seq(Nat)
    BY <1>5, <1>6
  <2> QED BY <1>3, <2>1, ConcatIs
<1>8. Len(r) = Len(s) - 1
  BY <1>4, <1>5, <1>6, <1>7
<1>9. ASSUME NEW k \in 1 .. Len(s) - 1 PROVE r[k] = IF k < p THEN s[k] ELSE s[k + 1]
  <2>1. CASE k < p
    <3>1. k \in 1 .. Len(r) /\ k \in 1 .. p - 1 /\ k <= Len(a)
      BY <1>4, <1>5, <1>8, <2>1
    <3> QED BY <1>5, <1>7, <2>1, <3>1
  <2>2. CASE k >= p
    <3>1. /\ r[k] = c[k - (p - 1)] /\ k - (p - 1) \in 1 .. Len(c)
          /\ (p + 1) + (k - (p - 1)) - 1 = k + 1
      BY <1>4, <1>5, <1>6, <1>7, <1>8, <2>2
    <3> QED BY <1>4, <1>6, <2>2, <3>1
  <2> QED BY <1>4, <2>1, <2>2
<1>10. RemoveAt(s, p) = r
  BY <1>1, <1>2, <1>3 DEF RemoveAt
<1> QED BY <1>7, <1>8, <1>9, <1>10

LEMMA FrontLastIs ==
    ASSUME NEW s \in Seq(Nat), s # <<>>
    PROVE  /\ Len(s) \in Nat \ {0} /\ Last(s) = s[Len(s)] /\ Last(s) \in Nat
           /\ Front(s) \in Seq(Nat) /\ Len(Front(s)) = Len(s) - 1
           /\ \A k \in 1 .. Len(s) - 1 : Front(s)[k] = s[k]
<1>1. Len(s) \in Nat \ {0} /\ s[Len(s)] \in Nat
  BY EmptySeq, ElementOfSeq
<1>2. PICK a : a = SubSeq(s, 1, Len(s) - 1)
  OBVIOUS
<1>3. /\ a \in Seq(Nat) /\ Len(a) = (Len(s) - 1) + 1 - 1
      /\ \A k \in 1 .. Len(a) : a[k] = s[1 + k - 1]
  <2>1. PICK t : t = Len(s) - 1
    OBVIOUS
  <2>2. t \in Nat /\ 1 <= t + 1 /\ t <= Len(s) /\ 1 \in Nat \ {0} /\ a = SubSeq(s, 1, t)
    BY <1>1, <1>2, <2>1
  <2>3. /\ a \in Seq(Nat) /\ Len(a) = t + 1 - 1
        /\ \A k \in 1 .. Len(a) : a[k] = s[1 + k - 1]
    BY <2>2, PartIs
  <2> QED BY <2>1, <2>3
<1>4. Len(a) = Len(s) - 1 /\ \A k \in 1 .. Len(s) - 1 : a[k] = s[k]
  BY <1>1, <1>3
<1>5. Front(s) = a /\ Last(s) = s[Len(s)]
  BY <1>2 DEF Front, Last
<1> QED BY <1>1, <1>3, <1>4, <1>5

LEMMA HeadTailIs ==
    ASSUME NEW s \in Seq(Nat), s # <<>>
    PROVE  /\ Len(s) \in Nat \ {0} /\ Head(s) = s[1] /\ Head(s) \in Nat
           /\ Tail(s) \in Seq(Nat) /\ Len(Tail(s)) = Len(s) - 1
           /\ \A k \in 1 .. Len(s) - 1 : Tail(s)[k] = s[k + 1]
<1>1. Len(s) \in Nat \ {0}
  BY EmptySeq
<1> QED BY <1>1, HeadTailProperties

-----------------------------------------------------------------------------
LEMMA LoopInit == Init => LoopInv
<1> SUFFICES ASSUME Init PROVE LoopInv
  OBVIOUS
<1> USE DEF Init
<1>0. PICK n \in 0 .. MaxList, m \in 0 .. MaxSrc :
          /\ old = [k \in 1 .. n |-> k] /\ oldSrc = [k \in 1 .. m |-> n + k]
          /\ op \in Splices => n > 0
          /\ op = "insert" => m = 1
          /\ place \in (CASE op \in Splices             -> 1 .. n
                          [] op = "insert"              -> 0 .. n + 1
                          [] op = "remove_dopplegangers" -> {0}
                          [] OTHER                      -> 0 .. n)
          /\ class \in (IF op = "remove_dopplegangers" THEN [1 .. n -> Classes]
                        ELSE {[k \in 1 .. n |-> 1]})
  OBVIOUS
<1>1. n \in Nat /\ m \in Nat
  BY LoopAssumption
<1>2. /\ old \in Seq(Nat) /\ Len(old) = n /\ \A k \in 1 .. n : old[k] = k
      /\ oldSrc \in Seq(Nat) /\ Len(oldSrc) = m /\ \A k \in 1 .. m : oldSrc[k] = n + k
  <2>1. DOMAIN old = 1 .. n /\ DOMAIN oldSrc = 1 .. m
    BY <1>0
  <2>2. old \in [1 .. n -> Nat] /\ oldSrc \in [1 .. m -> Nat]
    BY <1>0, <1>1
  <2>3. old \in Seq(Nat) /\ oldSrc \in Seq(Nat)
    <3> HIDE DEF Init
    <3> QED BY <1>1, <2>2
  <2>4. Len(old) = n /\ Len(oldSrc) = m
    BY <1>1, <2>1, <2>3
  <2> QED BY <1>0, <2>3, <2>4
<1>3. /\ place \in Nat
      /\ op \in Splices => place \in 1 .. n
      /\ op = "removeSubTree" => place <= n
  BY <1>0, <1>1 DEF Splices
<1>4. op = "remove_dopplegangers" => class \in [1 .. n -> Nat]
  BY <1>0, <1>1, LoopAssumption DEF Classes
<1>5. Inputs
  BY <1>0, <1>1, <1>2, <1>3, <1>4 DEF Inputs
<1>6. Working /\ list = old /\ src = oldSrc /\ Moved = 0 /\ status = "run"
      /\ (op \in Splices => i = place) /\ (op \notin Splices => i = 1) /\ j = 2
  BY <1>1, <1>2, <1>3 DEF Working, Moved
<1> HIDE DEF Init
<1>7. AfterInv /\ BeforeInv
  BY <1>1, <1>2, <1>3, <1>6 DEF AfterInv, BeforeInv, Splices
<1>8. ReplaceInv /\ InsertInv /\ SubTreeInv
  BY <1>1, <1>2, <1>3, <1>6 DEF ReplaceInv, InsertInv, SubTreeInv, Splices
<1>9. DoppleInv
  BY <1>1, <1>2, <1>6 DEF DoppleInv, Splices
<1> QED BY <1>5, <1>6, <1>7, <1>8, <1>9 DEF LoopInv

-----------------------------------------------------------------------------
(***************************************************************************)
(* One lemma per operation: a turn of its loop keeps the invariant.        *)
(***************************************************************************)
LEMMA InputsStay ==
    Inputs /\ UNCHANGED inputs /\ status' \in {"run", "done", "exit"} => Inputs'
BY DEF Inputs, inputs

LEMMA FinishKeeps ==
    ASSUME LoopInv, Finish, status = "run", op \in Splices => src = <<>>, op # "insert",
           op = "removeSubTree" => i > Len(list),
           op = "replaceWithList" => list[i] # old[i],
           op = "remove_dopplegangers" => i > Len(list)
    PROVE  LoopInv'
<1> USE DEF LoopInv, Finish, inputs
<1>1. Inputs' /\ Working'
  BY InputsStay DEF Working
<1>2. AfterInv' /\ BeforeInv' /\ InsertInv'
  BY DEF AfterInv, BeforeInv, InsertInv, Moved, Splices
<1>3. ReplaceInv'
  <2> SUFFICES ASSUME op = "replaceWithList" PROVE ReplaceInv'
    BY DEF ReplaceInv
  <2>1. list # old
    OBVIOUS
  <2> QED BY <2>1 DEF ReplaceInv, Moved, Splices
<1>4. SubTreeInv'
  <2> SUFFICES ASSUME op = "removeSubTree" PROVE SubTreeInv'
    BY DEF SubTreeInv
  <2>1. list = old /\ (place # 0 => i <= place) /\ place <= Len(list) /\ Len(list) \in Nat
    BY LenProperties DEF SubTreeInv, Inputs
  <2>2. place = 0
    BY <2>1 DEF Inputs, Working
  <2> QED BY <2>1, <2>2 DEF SubTreeInv
<1>5. DoppleInv'
  BY DEF DoppleInv
<1> QED BY <1>1, <1>2, <1>3, <1>4, <1>5

\* One turn that puts an element at a place of the list, and one that removes one.
LEMMA PutIs ==
    ASSUME list \in Seq(Nat), NEW x, NEW e, x \in 1 .. Len(list) + 1, e \in Nat
    PROVE  list' = InsertAt(list, x, e) =>
              /\ list' \in Seq(Nat) /\ Len(list') = Len(list) + 1
              /\ \A k \in 1 .. Len(list) + 1 :
                    list'[k] = IF k < x THEN list[k] ELSE IF k = x THEN e ELSE list[k - 1]
<1>1. InsertAt(list, x, e) \in Seq(Nat) /\ Len(InsertAt(list, x, e)) = Len(list) + 1
  BY InsertAtIs
<1>2. \A k \in 1 .. Len(list) + 1 :
         InsertAt(list, x, e)[k] = IF k < x THEN list[k] ELSE IF k = x THEN e ELSE list[k - 1]
  BY InsertAtIs
<1> QED BY <1>1, <1>2

LEMMA TakeIs ==
    ASSUME list \in Seq(Nat), NEW x, x \in 1 .. Len(list)
    PROVE  list' = RemoveAt(list, x) =>
              /\ list' \in Seq(Nat) /\ Len(list') = Len(list) - 1
              /\ \A k \in 1 .. Len(list) - 1 : list'[k] = IF k < x THEN list[k] ELSE list[k + 1]
<1>1. RemoveAt(list, x) \in Seq(Nat) /\ Len(RemoveAt(list, x)) = Len(list) - 1
  BY RemoveAtIs
<1>2. \A k \in 1 .. Len(list) - 1 :
         RemoveAt(list, x)[k] = IF k < x THEN list[k] ELSE list[k + 1]
  BY RemoveAtIs
<1> QED BY <1>1, <1>2

\* One turn that puts the back of src after the iterator.
LEMMA SpliceAfterIs ==
    ASSUME LoopInv, SpliceAfter, i <= Len(list)
    PROVE  /\ Inputs' /\ Working' /\ i' = i /\ Len(src) \in Nat \ {0}
           /\ Len(list') = Len(list) + 1 /\ Len(src') = Len(src) - 1
           /\ \A k \in 1 .. Len(src) - 1 : src'[k] = src[k]
           /\ \A k \in 1 .. Len(list) + 1 :
                 list'[k] = IF k <= i THEN list[k]
                            ELSE IF k = i + 1 THEN src[Len(src)] ELSE list[k - 1]
<1> USE DEF LoopInv, SpliceAfter, inputs
<1>1. /\ Len(src) \in Nat \ {0} /\ Last(src) = src[Len(src)] /\ Last(src) \in Nat
      /\ src' \in Seq(Nat) /\ Len(src') = Len(src) - 1
      /\ \A k \in 1 .. Len(src) - 1 : src'[k] = src[k]
  BY FrontLastIs DEF Working
<1>2. Len(list) \in Nat /\ i \in Nat /\ i + 1 \in 1 .. Len(list) + 1
  BY LenProperties DEF Working
<1>3. /\ list' \in Seq(Nat) /\ Len(list') = Len(list) + 1
      /\ \A k \in 1 .. Len(list) + 1 :
            list'[k] = IF k < i + 1 THEN list[k] ELSE IF k = i + 1 THEN Last(src) ELSE list[k - 1]
  <2>1. PICK x, e : x = i + 1 /\ e = Last(src)
    OBVIOUS
  <2>2. list \in Seq(Nat) /\ x \in 1 .. Len(list) + 1 /\ e \in Nat
    BY <1>1, <1>2, <2>1 DEF Working
  <2>3. list' = InsertAt(list, x, e)
    BY <2>1
  <2> HIDE DEF LoopInv, SpliceAfter
  <2> QED BY <2>1, <2>2, <2>3, PutIs
<1>4. Inputs' /\ Working' /\ i' = i
  BY <1>1, <1>3, InputsStay DEF Working, Inputs
<1> QED BY <1>1, <1>2, <1>3, <1>4

LEMMA AfterMoves == LoopInv /\ InsertAfter => LoopInv'
<1> SUFFICES ASSUME LoopInv, InsertAfter PROVE LoopInv'
  OBVIOUS
<1> USE DEF LoopInv, InsertAfter, Running
<1>1. CASE src = <<>> /\ Finish
  BY <1>1, FinishKeeps DEF Splices
<1>2. CASE SpliceAfter
  <2>1. /\ i = place /\ Len(src) <= Len(oldSrc) /\ Len(list) = Len(old) + Moved
        /\ \A k \in 1 .. Len(src) : src[k] = Len(old) + k
        /\ \A k \in 1 .. Len(list) :
              list[k] = IF k <= place THEN k
                        ELSE IF k <= place + Moved THEN Len(old) + Len(src) + (k - place)
                        ELSE k - Moved
    BY DEF AfterInv
  <2>2. /\ Len(old) \in Nat /\ Len(oldSrc) \in Nat /\ Len(src) \in Nat /\ Moved \in Nat
        /\ place \in 1 .. Len(old) /\ Moved = Len(oldSrc) - Len(src)
    BY <2>1, LenProperties DEF Inputs, Working, Splices, Moved
  <2>3. i <= Len(list)
    BY <2>1, <2>2
  <2>4. /\ Inputs' /\ Working' /\ i' = i /\ Len(src) \in Nat \ {0}
        /\ Len(list') = Len(list) + 1 /\ Len(src') = Len(src) - 1
        /\ \A k \in 1 .. Len(src) - 1 : src'[k] = src[k]
        /\ \A k \in 1 .. Len(list) + 1 :
              list'[k] = IF k <= i THEN list[k]
                         ELSE IF k = i + 1 THEN src[Len(src)] ELSE list[k - 1]
    BY <1>2, <2>3, SpliceAfterIs
  <2>5. op' = op /\ old' = old /\ oldSrc' = oldSrc /\ place' = place /\ status' = status /\ status = "run"
    BY <1>2 DEF SpliceAfter, inputs
  <2>6. Moved' = Moved + 1
    BY <2>2, <2>4, <2>5 DEF Moved
  <2>7. ASSUME NEW k \in 1 .. Len(list')
        PROVE  list'[k] = IF k <= place THEN k
                          ELSE IF k <= place + Moved + 1 THEN Len(old) + (Len(src) - 1) + (k - place)
                          ELSE k - (Moved + 1)
    <3>1. CASE k <= place
      <4>1. list'[k] = list[k] /\ k \in 1 .. Len(list)
        BY <2>1, <2>2, <2>4, <3>1
      <4> QED BY <2>1, <2>2, <3>1, <4>1
    <3>2. CASE k = place + 1
      <4>1. list'[k] = src[Len(src)] /\ src[Len(src)] = Len(old) + Len(src)
        BY <2>1, <2>2, <2>4, <3>2
      <4> QED BY <2>2, <3>2, <4>1
    <3>3. CASE k > place + 1
      <4>1. list'[k] = list[k - 1] /\ k - 1 \in 1 .. Len(list) /\ k - 1 > place
        BY <2>1, <2>2, <2>4, <3>3
      <4>2. list'[k] = IF k - 1 <= place + Moved THEN Len(old) + Len(src) + (k - 1 - place)
                       ELSE (k - 1) - Moved
        BY <2>1, <2>2, <4>1
      <4> QED BY <2>2, <2>4, <3>3, <4>2
    <3> QED BY <2>2, <2>4, <3>1, <3>2, <3>3
  <2>8. AfterInv'
    <3>1. \A k \in 1 .. Len(src') : src'[k] = Len(old') + k
      BY <2>1, <2>2, <2>4, <2>5
    <3>2. i' = place' /\ Len(src') <= Len(oldSrc') /\ Len(list') = Len(old') + Moved'
      <4>1. Len(src') <= Len(oldSrc)
        BY <2>1, <2>2, <2>4
      <4>2. Len(list') = Len(old) + Moved'
        <5>1. Len(list') = Len(old) + Moved + 1
          BY <2>1, <2>2, <2>4
        <5> QED BY <2>2, <2>6, <5>1
      <4> QED BY <2>1, <2>4, <2>5, <4>1, <4>2
    <3>3. \A k \in 1 .. Len(list') :
             list'[k] = IF k <= place' THEN k
                        ELSE IF k <= place' + Moved' THEN Len(old') + Len(src') + (k - place')
                        ELSE k - Moved'
      <4>1. place' + Moved' = place + Moved + 1 /\ Len(src') = Len(src) - 1
        BY <2>2, <2>4, <2>5, <2>6
      <4> QED BY <2>5, <2>6, <2>7, <4>1
    <3> QED BY <2>5, <3>1, <3>2, <3>3 DEF AfterInv
  <2> QED BY <2>4, <2>5, <2>8 DEF BeforeInv, ReplaceInv, InsertInv, SubTreeInv, DoppleInv
<1> QED BY <1>1, <1>2

LEMMA BeforeMoves == LoopInv /\ InsertBefore => LoopInv'
<1> SUFFICES ASSUME LoopInv, InsertBefore PROVE LoopInv'
  OBVIOUS
<1> USE DEF LoopInv, InsertBefore, Running, inputs
<1>1. CASE src = <<>> /\ Finish
  BY <1>1, FinishKeeps DEF Splices
<1>2. CASE /\ src # <<>>
           /\ list' = InsertAt(list, i, Head(src)) /\ src' = Tail(src)
           /\ i' = i + 1
           /\ UNCHANGED <<inputs, j, status>>
  <2>1. i = place + Moved /\ Len(src) <= Len(oldSrc) /\ Len(list) = Len(old) + Moved
    BY DEF BeforeInv
  <2>13. \A k \in 1 .. Len(src) : src[k] = Len(old) + Moved + k
    BY DEF BeforeInv
  <2>14. \A k \in 1 .. Len(list) :
              list[k] = IF k < place THEN k
                        ELSE IF k < place + Moved THEN Len(old) + (k - place) + 1
                        ELSE k - Moved
    BY DEF BeforeInv
  <2>0. list \in Seq(Nat) /\ src \in Seq(Nat)
    BY DEF Working
  <2>2. /\ Len(old) \in Nat /\ Len(oldSrc) \in Nat /\ Len(src) \in Nat /\ Moved \in Nat
        /\ place \in 1 .. Len(old) /\ Moved = Len(oldSrc) - Len(src)
    BY <2>1, LenProperties DEF Inputs, Working, Splices, Moved
  <2>3. /\ Len(src) \in Nat \ {0} /\ Head(src) = src[1] /\ Head(src) \in Nat
        /\ Tail(src) \in Seq(Nat) /\ Len(Tail(src)) = Len(src) - 1
        /\ \A k \in 1 .. Len(src) - 1 : Tail(src)[k] = src[k + 1]
    BY <1>2, <2>0, HeadTailIs
  <2>4. i \in 1 .. Len(list) + 1
    BY <2>1, <2>2
  <2>5. /\ list' \in Seq(Nat) /\ Len(list') = Len(list) + 1
        /\ \A k \in 1 .. Len(list) + 1 :
              list'[k] = IF k < i THEN list[k] ELSE IF k = i THEN Head(src) ELSE list[k - 1]
    BY <1>2, <2>0, <2>3, <2>4, PutIs
  <2>11. Len(list') = Len(list) + 1 /\ Head(src) = src[1] /\ Len(src) \in Nat \ {0}
    BY <2>3, <2>5
  <2>12. \A k \in 1 .. Len(list) + 1 :
            list'[k] = IF k < i THEN list[k] ELSE IF k = i THEN Head(src) ELSE list[k - 1]
    BY <2>5
  <2>6. op' = op /\ old' = old /\ oldSrc' = oldSrc /\ place' = place /\ status' = status /\ status = "run"
    BY <1>2
  <2>7. Inputs' /\ Working'
    BY <1>2, <2>0, <2>3, <2>4, <2>5, InputsStay DEF Working, Inputs
  <2>8. Len(src') = Len(src) - 1 /\ Moved' = Moved + 1 /\ i' = i + 1
    BY <1>2, <2>2, <2>3, <2>6 DEF Moved
  <2> HIDE DEF LoopInv, InsertBefore
  <2>9. ASSUME NEW k \in 1 .. Len(list')
        PROVE  list'[k] = IF k < place THEN k
                          ELSE IF k < place + Moved + 1 THEN Len(old) + (k - place) + 1
                          ELSE k - (Moved + 1)
    <3>1. CASE k < i
      <4>1. k \in 1 .. Len(list) /\ k \in 1 .. Len(list) + 1
        BY <2>1, <2>2, <2>4, <2>11, <3>1
      <4>2. list'[k] = list[k]
        BY <2>12, <3>1, <4>1
      <4> QED BY <2>1, <2>2, <2>14, <3>1, <4>1, <4>2
    <3>2. CASE k = i
      <4>1. list'[k] = src[1] /\ src[1] = Len(old) + Moved + 1
        <5>1. i \in 1 .. Len(list) + 1 /\ ~ (i < i) /\ 1 \in 1 .. Len(src)
          BY <2>2, <2>4, <2>11
        <5>2. list'[i] = Head(src)
          BY <2>12, <5>1
        <5> QED BY <2>2, <2>11, <2>13, <3>2, <5>1, <5>2
      <4> QED BY <2>1, <2>2, <3>2, <4>1
    <3>3. CASE k > i
      <4>1. list'[k] = list[k - 1] /\ k - 1 \in 1 .. Len(list) /\ k - 1 >= place + Moved
        <5>1. k \in 1 .. Len(list) + 1 /\ ~ (k < i) /\ k # i
          BY <2>1, <2>2, <2>4, <2>11, <3>3
        <5>2. list'[k] = list[k - 1]
          BY <2>12, <5>1
        <5> QED BY <2>1, <2>2, <3>3, <5>1, <5>2
      <4>2. list'[k] = (k - 1) - Moved
        <5>1. PICK q : q = k - 1
          OBVIOUS
        <5>2. q \in 1 .. Len(list) /\ ~ (q < place) /\ ~ (q < place + Moved)
          BY <2>2, <4>1, <5>1
        <5>3. list[q] = q - Moved
          BY <2>14, <5>2
        <5> QED BY <4>1, <5>1, <5>3
      <4> QED BY <2>1, <2>2, <2>11, <3>3, <4>2
    <3> QED BY <2>2, <2>4, <2>11, <3>1, <3>2, <3>3
  <2>10. BeforeInv'
    <3>1. ASSUME NEW k \in 1 .. Len(src') PROVE src'[k] = Len(old') + Moved' + k
      <4>1. src'[k] = src[k + 1] /\ k + 1 \in 1 .. Len(src)
        BY <1>2, <2>2, <2>3, <2>8
      <4>2. src'[k] = Len(old) + Moved + (k + 1)
        BY <2>13, <4>1
      <4> QED BY <2>2, <2>6, <2>8, <4>2
    <3>2. i' = place' + Moved' /\ Len(src') <= Len(oldSrc')
      <4>1. place' + Moved' = i' /\ Len(src') <= Len(oldSrc)
        BY <2>1, <2>2, <2>6, <2>8
      <4> QED BY <2>6, <4>1
    <3>3. Len(list') = Len(old') + Moved'
      <4>1. Len(list') = Len(old) + Moved + 1
        BY <2>1, <2>2, <2>11
      <4> QED BY <2>2, <2>6, <2>8, <4>1
    <3>4. \A k \in 1 .. Len(list') :
             list'[k] = IF k < place' THEN k
                        ELSE IF k < place' + Moved' THEN Len(old') + (k - place') + 1
                        ELSE k - Moved'
      <4>1. place' + Moved' = place + Moved + 1
        BY <2>2, <2>6, <2>8
      <4> QED BY <2>6, <2>8, <2>9, <4>1
    <3> QED BY <2>6, <3>1, <3>2, <3>3, <3>4 DEF BeforeInv
  <2> USE DEF LoopInv, InsertBefore
  <2> QED BY <2>6, <2>7, <2>10 DEF AfterInv, ReplaceInv, InsertInv, SubTreeInv, DoppleInv
<1> QED BY <1>1, <1>2

LEMMA InsertMoves == LoopInv /\ Insert => LoopInv'
<1> SUFFICES ASSUME LoopInv, Insert PROVE LoopInv'
  OBVIOUS
<1> USE DEF LoopInv, Insert, Running, inputs
<1>1. list = old /\ src = oldSrc /\ op = "insert"
  BY DEF InsertInv
<1>2. CASE /\ place <= Len(list)
           /\ list' = InsertAt(list, place + 1, Head(src)) /\ src' = Tail(src)
           /\ status' = "done"
           /\ UNCHANGED <<inputs, i, j>>
  <2>1. /\ Len(src) = 1 /\ src \in Seq(Nat) /\ src # <<>> /\ list \in Seq(Nat)
        /\ Len(list) \in Nat /\ place \in Nat /\ src[1] = Len(old) + 1
    <3>1. Len(src) = 1 /\ src \in Seq(Nat) /\ list \in Seq(Nat) /\ place \in Nat
      BY <1>1 DEF Inputs, Working
    <3>2. src # <<>> /\ Len(list) \in Nat
      BY <3>1, EmptySeq, LenProperties
    <3>3. src[1] = Len(old) + 1
      BY <1>1, <3>1 DEF Inputs
    <3> QED BY <3>1, <3>2, <3>3
  <2>2. Head(src) = src[1] /\ Head(src) \in Nat /\ Tail(src) \in Seq(Nat)
    BY <2>1, HeadTailIs
  <2>3. PICK x, e : x = place + 1 /\ e = Head(src)
    OBVIOUS
  <2>4. list \in Seq(Nat) /\ x \in 1 .. Len(list) + 1 /\ e \in Nat /\ list' = InsertAt(list, x, e)
    BY <1>2, <2>1, <2>2, <2>3
  <2>5. /\ list' \in Seq(Nat) /\ Len(list') = Len(list) + 1
        /\ \A k \in 1 .. Len(list) + 1 :
              list'[k] = IF k < x THEN list[k] ELSE IF k = x THEN e ELSE list[k - 1]
    BY <2>4, PutIs
  <2>6. Inputs' /\ Working'
    BY <1>2, <2>2, <2>5, InputsStay DEF Working
  <2>7. ASSUME NEW k \in 1 .. Len(list')
        PROVE  list'[k] = IF k <= place THEN k ELSE IF k = place + 1 THEN Len(old) + 1 ELSE k - 1
    <3>1. CASE k < x
      <4>1. list'[k] = list[k] /\ k \in 1 .. Len(old) /\ k <= place
        <5>1. k \in 1 .. Len(list) /\ k < x /\ k <= place
          BY <1>2, <2>1, <2>3, <2>5, <3>1
        <5> QED BY <1>1, <2>1, <2>5, <5>1
      <4> QED BY <1>1, <4>1 DEF Inputs
    <3>2. CASE k = x
      BY <2>1, <2>2, <2>3, <2>5, <3>2
    <3>3. CASE k > x
      <4>1. list'[k] = list[k - 1] /\ k - 1 \in 1 .. Len(old)
        BY <1>1, <2>1, <2>3, <2>5, <3>3
      <4> QED BY <1>1, <2>1, <2>3, <3>3, <4>1 DEF Inputs
    <3> QED BY <2>1, <2>3, <2>5, <3>1, <3>2, <3>3
  <2>8. InsertInv'
    BY <1>1, <1>2, <2>5, <2>7 DEF InsertInv
  <2> QED BY <1>2, <2>6, <2>8 DEF AfterInv, BeforeInv, ReplaceInv, SubTreeInv, DoppleInv, Splices
<1>3. CASE place > Len(list) /\ status' = "exit" /\ UNCHANGED <<inputs, list, src, i, j>>
  BY <1>1, <1>3, InputsStay
     DEF Working, InsertInv, AfterInv, BeforeInv, ReplaceInv, SubTreeInv, DoppleInv
<1> QED BY <1>2, <1>3

LEMMA SubTreeMoves == LoopInv /\ RemoveSubTree => LoopInv'
<1> SUFFICES ASSUME LoopInv, RemoveSubTree PROVE LoopInv'
  OBVIOUS
<1> USE DEF LoopInv, RemoveSubTree, Running, inputs
<1>1. list = old /\ (place # 0 => i <= place) /\ i \in Nat \ {0} /\ list \in Seq(Nat)
  BY DEF SubTreeInv, Working
<1>2. CASE /\ i <= Len(list) /\ i = place
           /\ list' = RemoveAt(list, i) /\ status' = "done"
           /\ UNCHANGED <<inputs, src, i, j>>
  <2>1. i \in 1 .. Len(list)
    BY <1>1, <1>2, LenProperties
  <2>2. list' \in Seq(Nat)
    BY <1>1, <1>2, <2>1, TakeIs
  <2>3. Inputs' /\ Working' /\ SubTreeInv'
    BY <1>1, <1>2, <2>2, InputsStay DEF Working, SubTreeInv
  <2> QED BY <1>2, <2>3 DEF AfterInv, BeforeInv, ReplaceInv, InsertInv, DoppleInv
<1>3. CASE /\ i <= Len(list) /\ i # place
           /\ i' = i + 1
           /\ UNCHANGED <<inputs, list, src, j, status>>
  <2>1. Inputs' /\ Working'
    BY <1>1, <1>3, InputsStay DEF Working, Inputs
  <2>2. SubTreeInv'
    BY <1>1, <1>3 DEF SubTreeInv, Inputs
  <2> QED BY <1>3, <2>1, <2>2 DEF AfterInv, BeforeInv, ReplaceInv, InsertInv, DoppleInv
<1>4. CASE i > Len(list) /\ Finish
  BY <1>4, FinishKeeps DEF Splices
<1> QED BY <1>2, <1>3, <1>4

LEMMA EraseMoves == LoopInv /\ EraseSubTree => LoopInv'
<1> SUFFICES ASSUME LoopInv, EraseSubTree PROVE LoopInv'
  OBVIOUS
<1> USE DEF LoopInv, EraseSubTree, Running, inputs
<1>1. CASE /\ i <= Len(list) /\ list' = RemoveAt(list, i) /\ i' = i + 1
           /\ status' = (IF i > Len(list') THEN "exit" ELSE "run")
           /\ UNCHANGED <<inputs, src, j>>
  <2>1. i \in 1 .. Len(list) /\ list \in Seq(Nat)
    BY <1>1, LenProperties DEF Working
  <2>2. list' \in Seq(Nat)
    BY <1>1, <2>1, TakeIs
  <2>3. Inputs' /\ Working'
    BY <1>1, <2>2, InputsStay DEF Working
  <2> QED BY <1>1, <2>3 DEF AfterInv, BeforeInv, ReplaceInv, InsertInv, SubTreeInv, DoppleInv
<1>2. CASE i <= Len(list) /\ i' = i + 1 /\ UNCHANGED <<inputs, list, src, j, status>>
  <2>1. Inputs' /\ Working'
    BY <1>2, InputsStay DEF Working, Inputs
  <2> QED BY <1>2, <2>1 DEF AfterInv, BeforeInv, ReplaceInv, InsertInv, SubTreeInv, DoppleInv
<1>3. CASE i > Len(list) /\ Finish
  BY <1>3, FinishKeeps DEF Splices
<1> QED BY <1>1, <1>2, <1>3

LEMMA ReplaceMoves == LoopInv /\ ReplaceWithList => LoopInv'
<1> SUFFICES ASSUME LoopInv, ReplaceWithList PROVE LoopInv'
  OBVIOUS
<1>1. /\ Inputs /\ Working /\ op = "replaceWithList" /\ status = "run" /\ i = place
      /\ list \in Seq(Nat) /\ src \in Seq(Nat) /\ old \in Seq(Nat)
  BY DEF LoopInv, Inputs, Working, ReplaceInv, ReplaceWithList, Running
<1>2. /\ Len(old) \in Nat /\ Len(oldSrc) \in Nat /\ Len(src) \in Nat /\ Len(list) \in Nat
      /\ place \in 1 .. Len(old) /\ Moved = Len(oldSrc) - Len(src)
  BY <1>1, LenProperties DEF Inputs, Splices, Moved
<1>3. \/ list = old /\ src = oldSrc
      \/ /\ 1 <= Moved /\ Len(src) < Len(oldSrc) /\ Len(list) = Len(old) + Moved - 1
         /\ \A k \in 1 .. Len(src) : src[k] = Len(old) + 1 + k
         /\ \A k \in 1 .. Len(list) :
               list[k] = IF k < place THEN k
                         ELSE IF k = place THEN Len(old) + 1
                         ELSE IF k < place + Moved THEN Len(old) + 1 + Len(src) + (k - place)
                         ELSE k - Moved + 1
  BY <1>1 DEF LoopInv, ReplaceInv
<1>4. (list[i] = old[i]) <=> (list = old /\ src = oldSrc)
  <2>1. old[place] = place
    BY <1>2 DEF LoopInv, Inputs
  <2>2. CASE list = old /\ src = oldSrc
    BY <2>2
  <2>3. CASE ~ (list = old /\ src = oldSrc)
    <3>1. Len(list) = Len(old) + Moved - 1 /\ 1 <= Moved
      BY <1>3, <2>3
    <3>2. place \in 1 .. Len(list)
      BY <1>2, <3>1
    <3>3. list[place] = Len(old) + 1
      BY <1>2, <1>3, <2>3, <3>2
    <3> QED BY <1>1, <1>2, <2>1, <2>3, <3>3
  <2> QED BY <2>2, <2>3
<1>5. AfterInv' /\ BeforeInv' /\ InsertInv' /\ SubTreeInv' /\ DoppleInv' /\ op' = "replaceWithList"
  BY <1>1 DEF ReplaceWithList, SpliceAfter, Finish, inputs, AfterInv, BeforeInv, InsertInv,
              SubTreeInv, DoppleInv
<1>6. /\ old' = old /\ oldSrc' = oldSrc /\ place' = place /\ i' = i
      /\ status' \in {"run", "done"} /\ UNCHANGED inputs /\ j' = j
  BY <1>1 DEF ReplaceWithList, SpliceAfter, Finish, inputs
\* this is replaced with the front of src
<1>7. CASE /\ list[i] = old[i] /\ src # <<>>
           /\ list' = [list EXCEPT ![i] = Head(src)] /\ src' = Tail(src)
           /\ UNCHANGED <<inputs, i, j, status>>
  <2>1. /\ Len(src) \in Nat \ {0} /\ Head(src) = src[1] /\ Head(src) \in Nat
        /\ Tail(src) \in Seq(Nat) /\ Len(Tail(src)) = Len(src) - 1
        /\ \A k \in 1 .. Len(src) - 1 : Tail(src)[k] = src[k + 1]
    BY <1>1, <1>7, HeadTailIs
  <2>2. list = old /\ src = oldSrc
    BY <1>4, <1>7
  <2>3. i \in 1 .. Len(list)
    BY <1>1, <1>2, <2>2
  <2>4. /\ list' \in Seq(Nat) /\ Len(list') = Len(list)
        /\ \A k \in 1 .. Len(list) : list'[k] = IF k = i THEN Head(src) ELSE list[k]
    BY <1>1, <1>7, <2>1, <2>3, ExceptSeq
  <2>5. Inputs' /\ Working'
    BY <1>1, <1>6, <1>7, <2>1, <2>4, InputsStay DEF Working
  <2>6. Moved' = 1 /\ Len(src') = Len(oldSrc) - 1 /\ Len(list') = Len(old)
    BY <1>2, <1>6, <1>7, <2>1, <2>2, <2>4 DEF Moved
  <2>7. ASSUME NEW k \in 1 .. Len(src') PROVE src'[k] = Len(old) + 1 + k
    <3>1. src'[k] = oldSrc[k + 1] /\ k + 1 \in 1 .. Len(oldSrc)
      BY <1>2, <1>7, <2>1, <2>2, <2>6
    <3>2. oldSrc[k + 1] = Len(old) + (k + 1)
      BY <3>1 DEF LoopInv, Inputs
    <3> QED BY <1>2, <3>1, <3>2
  <2>8. ASSUME NEW k \in 1 .. Len(list')
        PROVE  list'[k] = IF k < place THEN k
                          ELSE IF k = place THEN Len(old) + 1
                          ELSE IF k < place + 1 THEN Len(old) + 1 + Len(src') + (k - place)
                          ELSE k - 1 + 1
    <3>1. CASE k = place
      <4>1. list'[k] = oldSrc[1] /\ 1 \in 1 .. Len(oldSrc)
        BY <1>1, <2>1, <2>2, <2>3, <2>4, <3>1
      <4>2. oldSrc[1] = Len(old) + 1
        BY <4>1 DEF LoopInv, Inputs
      <4> QED BY <1>2, <3>1, <4>1, <4>2
    <3>2. CASE k # place
      <4>1. list'[k] = old[k] /\ k \in 1 .. Len(old)
        BY <1>1, <2>2, <2>4, <2>6, <3>2
      <4>2. list'[k] = k
        BY <4>1 DEF LoopInv, Inputs
      <4> QED BY <1>2, <2>6, <3>2, <4>2
    <3> QED BY <3>1, <3>2
  <2>9. ReplaceInv'
    <3>1. \A k \in 1 .. Len(list') :
             list'[k] = IF k < place' THEN k
                        ELSE IF k = place' THEN Len(old') + 1
                        ELSE IF k < place' + Moved' THEN Len(old') + 1 + Len(src') + (k - place')
                        ELSE k - Moved' + 1
      BY <1>6, <2>6, <2>8
    <3>2. /\ i' = place' /\ status' = "run" /\ 1 <= Moved' /\ Len(src') < Len(oldSrc')
          /\ Len(list') = Len(old') + Moved' - 1
      BY <1>1, <1>2, <1>6, <1>7, <2>6
    <3>3. \A k \in 1 .. Len(src') : src'[k] = Len(old') + 1 + k
      BY <1>6, <2>7
    <3> QED BY <3>1, <3>2, <3>3 DEF ReplaceInv
  <2> QED BY <1>5, <2>5, <2>9 DEF LoopInv
\* there is nothing to replace this with: it is removed
<1>8. CASE /\ list[i] = old[i] /\ src = <<>>
           /\ list' = RemoveAt(list, i) /\ status' = "done"
           /\ UNCHANGED <<inputs, src, i, j>>
  <2>1. list = old /\ src = oldSrc
    BY <1>4, <1>8
  <2>2. i \in 1 .. Len(list)
    BY <1>1, <1>2, <2>1
  <2>3. /\ list' \in Seq(Nat) /\ Len(list') = Len(list) - 1
        /\ \A k \in 1 .. Len(list) - 1 : list'[k] = IF k < i THEN list[k] ELSE list[k + 1]
    BY <1>1, <1>8, <2>2, TakeIs
  <2>4. Inputs' /\ Working'
    BY <1>1, <1>6, <1>8, <2>3, InputsStay DEF Working
  <2>5. ASSUME NEW k \in 1 .. Len(list') PROVE list'[k] = IF k < place THEN k ELSE k + 1
    <3>1. k \in 1 .. Len(old) /\ k + 1 \in 1 .. Len(old)
      BY <1>2, <2>1, <2>3
    <3>2. old[k] = k /\ old[k + 1] = k + 1
      BY <3>1 DEF LoopInv, Inputs
    <3> QED BY <1>1, <1>2, <2>1, <2>3, <3>2
  <2>6. ReplaceInv'
    BY <1>1, <1>6, <1>8, <2>1, <2>3, <2>5 DEF ReplaceInv
  <2> QED BY <1>5, <2>4, <2>6 DEF LoopInv
\* the others go after what has replaced it
<1>9. CASE list[i] # old[i] /\ SpliceAfter
  <2>1. ~ (list = old /\ src = oldSrc)
    BY <1>4, <1>9
  <2>2. /\ 1 <= Moved /\ Len(src) < Len(oldSrc) /\ Len(list) = Len(old) + Moved - 1
    BY <1>3, <2>1
  <2>3. \A k \in 1 .. Len(src) : src[k] = Len(old) + 1 + k
    BY <1>3, <2>1
  <2>4. \A k \in 1 .. Len(list) :
           list[k] = IF k < place THEN k
                     ELSE IF k = place THEN Len(old) + 1
                     ELSE IF k < place + Moved THEN Len(old) + 1 + Len(src) + (k - place)
                     ELSE k - Moved + 1
    BY <1>3, <2>1
  <2>5. i <= Len(list)
    BY <1>1, <1>2, <2>2
  <2>6. /\ Inputs' /\ Working' /\ i' = i /\ Len(src) \in Nat \ {0}
        /\ Len(list') = Len(list) + 1 /\ Len(src') = Len(src) - 1
        /\ \A k \in 1 .. Len(src) - 1 : src'[k] = src[k]
        /\ \A k \in 1 .. Len(list) + 1 :
              list'[k] = IF k <= i THEN list[k]
                         ELSE IF k = i + 1 THEN src[Len(src)] ELSE list[k - 1]
    BY <1>9, <2>5, SpliceAfterIs
  <2>7. Len(src) \in Nat \ {0} /\ Len(list') = Len(list) + 1 /\ Len(src') = Len(src) - 1
    BY <2>6
  <2>8. Moved' = Moved + 1 /\ status' = "run"
    BY <1>1, <1>2, <1>6, <1>9, <2>7 DEF Moved, SpliceAfter
  <2>9. ASSUME NEW k \in 1 .. Len(list')
        PROVE  list'[k] = IF k < place THEN k
                          ELSE IF k = place THEN Len(old) + 1
                          ELSE IF k < place + Moved + 1 THEN Len(old) + 1 + (Len(src) - 1) + (k - place)
                          ELSE k - (Moved + 1) + 1
    <3>1. CASE k <= place
      <4>1. k \in 1 .. Len(list) /\ k \in 1 .. Len(list) + 1 /\ k <= i
        BY <1>1, <1>2, <2>2, <2>7, <3>1
      <4>2. list'[k] = list[k]
        BY <2>6, <4>1
      <4> QED BY <1>2, <2>2, <2>4, <3>1, <4>1, <4>2
    <3>2. CASE k = place + 1
      <4>1. i + 1 \in 1 .. Len(list) + 1 /\ ~ (i + 1 <= i) /\ Len(src) \in 1 .. Len(src) /\ k = i + 1
        BY <1>1, <1>2, <2>5, <2>7, <3>2
      <4>2. list'[k] = src[Len(src)]
        BY <2>6, <4>1
      <4>3. src[Len(src)] = Len(old) + 1 + Len(src)
        BY <2>3, <4>1
      <4> QED BY <1>2, <2>2, <2>7, <3>2, <4>2, <4>3
    <3>3. CASE k > place + 1
      <4>1. PICK q : q = k - 1
        OBVIOUS
      <4>2. /\ q \in 1 .. Len(list) /\ k \in 1 .. Len(list) + 1 /\ ~ (k <= i) /\ k # i + 1
            /\ ~ (q < place) /\ q # place
        BY <1>1, <1>2, <2>7, <3>3, <4>1
      <4>3. list'[k] = list[q]
        BY <2>6, <4>1, <4>2
      <4>4. list[q] = IF q < place + Moved THEN Len(old) + 1 + Len(src) + (q - place)
                      ELSE q - Moved + 1
        BY <2>4, <4>2
      <4> QED BY <1>2, <2>2, <2>7, <3>3, <4>1, <4>2, <4>3, <4>4
    <3> QED BY <1>2, <2>7, <3>1, <3>2, <3>3
  <2>10. ReplaceInv'
    <3>1. \A k \in 1 .. Len(list') :
             list'[k] = IF k < place' THEN k
                        ELSE IF k = place' THEN Len(old') + 1
                        ELSE IF k < place' + Moved' THEN Len(old') + 1 + Len(src') + (k - place')
                        ELSE k - Moved' + 1
      <4>1. place' + Moved' = place + Moved + 1 /\ Len(src') = Len(src) - 1
        BY <1>2, <1>6, <2>7, <2>8
      <4> QED BY <1>6, <2>8, <2>9, <4>1
    <3>2. i' = place' /\ status' = "run" /\ 1 <= Moved' /\ Len(src') < Len(oldSrc')
      <4>1. Len(src') < Len(oldSrc)
        BY <1>2, <2>2, <2>7
      <4>2. 1 <= Moved'
        BY <1>2, <2>2, <2>8
      <4> QED BY <1>1, <1>6, <2>8, <4>1, <4>2
    <3>3. Len(list') = Len(old') + Moved' - 1
      BY <1>2, <1>6, <2>2, <2>7, <2>8
    <3>4. \A k \in 1 .. Len(src') : src'[k] = Len(old') + 1 + k
      BY <1>2, <1>6, <2>3, <2>6
    <3> QED BY <3>1, <3>2, <3>3, <3>4 DEF ReplaceInv
  <2> QED BY <1>5, <2>6, <2>10 DEF LoopInv
<1>10. CASE list[i] # old[i] /\ src = <<>> /\ Finish
  BY <1>1, <1>10, FinishKeeps DEF Splices
<1> QED BY <1>7, <1>8, <1>9, <1>10 DEF ReplaceWithList

LEMMA DoppleMoves == LoopInv /\ RemoveDopplegangers => LoopInv'
<1> SUFFICES ASSUME LoopInv, RemoveDopplegangers PROVE LoopInv'
  OBVIOUS
<1>1. /\ Inputs /\ Working /\ op = "remove_dopplegangers" /\ status = "run"
      /\ list \in Seq(Nat) /\ Len(list) \in Nat /\ Len(old) \in Nat
      /\ i \in Nat \ {0} /\ j \in Nat \ {0}
  BY LenProperties DEF LoopInv, Inputs, Working, RemoveDopplegangers, Running
<1>2. i < j /\ i <= Len(list) + 1
  BY <1>1 DEF LoopInv, DoppleInv
<1>3. \A p \in 1 .. Len(list) : list[p] \in 1 .. Len(old)
  BY <1>1 DEF LoopInv, DoppleInv
<1>4. \A p, q \in 1 .. Len(list) : p < q => list[p] < list[q]
  BY <1>1 DEF LoopInv, DoppleInv
<1>5. \A p, q \in 1 .. Len(list) :
         p < q /\ (p < i \/ (p = i /\ q < j)) => class[list[p]] # class[list[q]]
  BY <1>1 DEF LoopInv, DoppleInv
<1>6. \A e \in 1 .. Len(old) :
         (\E p \in 1 .. Len(list) : list[p] = e)
         \/ \E p \in 1 .. Len(list) : p <= i /\ list[p] < e /\ class[list[p]] = class[e]
  BY <1>1 DEF LoopInv, DoppleInv
<1>7. AfterInv' /\ BeforeInv' /\ InsertInv' /\ SubTreeInv' /\ ReplaceInv'
      /\ op' = "remove_dopplegangers" /\ UNCHANGED inputs /\ old' = old /\ class' = class
  BY <1>1 DEF RemoveDopplegangers, Finish, inputs, AfterInv, BeforeInv, InsertInv,
              SubTreeInv, ReplaceInv
\* the element at j has an equal at i and is erased
<1>8. CASE /\ i <= Len(list) /\ j <= Len(list)
           /\ class[list[i]] = class[list[j]] /\ list' = RemoveAt(list, j) /\ j' = j
           /\ UNCHANGED <<inputs, src, i, status>>
  <2>1. j \in 1 .. Len(list)
    BY <1>1, <1>8
  <2>2. /\ list' \in Seq(Nat) /\ Len(list') = Len(list) - 1
        /\ \A k \in 1 .. Len(list) - 1 : list'[k] = IF k < j THEN list[k] ELSE list[k + 1]
    BY <1>1, <1>8, <2>1, TakeIs
  <2>3. Inputs' /\ Working'
    BY <1>1, <1>7, <1>8, <2>2, InputsStay DEF Working
  \* where the element at p was before
  <2>4. PICK g : g = [p \in 1 .. Len(list) - 1 |-> IF p < j THEN p ELSE p + 1]
    OBVIOUS
  <2>5. /\ Len(list') = Len(list) - 1
        /\ \A p \in 1 .. Len(list) - 1 :
              /\ g[p] \in 1 .. Len(list) /\ list'[p] = list[g[p]]
              /\ p < j => g[p] = p
              /\ p >= j => g[p] = p + 1
    <3>1. Len(list') = Len(list) - 1
      BY <2>2
    <3>2. ASSUME NEW p \in 1 .. Len(list) - 1
          PROVE  /\ g[p] \in 1 .. Len(list) /\ list'[p] = list[g[p]]
                 /\ p < j => g[p] = p
                 /\ p >= j => g[p] = p + 1
      <4>1. g[p] = IF p < j THEN p ELSE p + 1
        BY <2>4
      <4>2. list'[p] = IF p < j THEN list[p] ELSE list[p + 1]
        BY <2>2
      <4>3. CASE p < j
        BY <1>1, <4>1, <4>2, <4>3
      <4>4. CASE ~ (p < j)
        BY <1>1, <4>1, <4>2, <4>4
      <4> QED BY <4>3, <4>4
    <3> QED BY <3>1, <3>2
  <2>6. ASSUME NEW p \in 1 .. Len(list) - 1, NEW q \in 1 .. Len(list) - 1, p < q
        PROVE  g[p] < g[q]
    <3>1. (p < j => g[p] = p) /\ (p >= j => g[p] = p + 1)
      BY <2>5
    <3>2. (q < j => g[q] = q) /\ (q >= j => g[q] = q + 1)
      BY <2>5
    <3> QED BY <1>1, <2>6, <3>1, <3>2
  <2>7. \A p \in 1 .. Len(list') : list'[p] \in 1 .. Len(old)
    BY <1>3, <2>5
  <2>8. \A p, q \in 1 .. Len(list') : p < q => list'[p] < list'[q]
    <3> SUFFICES ASSUME NEW p \in 1 .. Len(list'), NEW q \in 1 .. Len(list'), p < q
                 PROVE  list'[p] < list'[q]
      OBVIOUS
    <3>1. p \in 1 .. Len(list) - 1 /\ q \in 1 .. Len(list) - 1
      BY <2>5
    <3>2. /\ g[p] \in 1 .. Len(list) /\ g[q] \in 1 .. Len(list) /\ g[p] < g[q]
          /\ list'[p] = list[g[p]] /\ list'[q] = list[g[q]]
      BY <2>5, <2>6, <3>1
    <3> QED BY <1>4, <3>2
  <2>9. ASSUME NEW p \in 1 .. Len(list'), NEW q \in 1 .. Len(list'),
               p < q, p < i \/ (p = i /\ q < j)
        PROVE  class[list'[p]] # class[list'[q]]
    <3>1. /\ p \in 1 .. Len(list) - 1 /\ q \in 1 .. Len(list) - 1
          /\ g[p] = p /\ g[p] < g[q] /\ (q < j => g[q] = q)
      <4>1. p \in 1 .. Len(list) - 1 /\ q \in 1 .. Len(list) - 1 /\ p < j
        BY <1>1, <1>2, <2>5, <2>9
      <4>2. g[p] < g[q]
        BY <2>6, <2>9, <4>1
      <4> QED BY <2>5, <4>1, <4>2
    <3>2. g[p] < i \/ (g[p] = i /\ g[q] < j)
      BY <2>9, <3>1
    <3>3. g[p] \in 1 .. Len(list) /\ g[q] \in 1 .. Len(list)
          /\ list'[p] = list[g[p]] /\ list'[q] = list[g[q]]
      BY <2>5, <3>1
    <3> QED BY <1>5, <3>1, <3>2, <3>3
  <2>10. ASSUME NEW e \in 1 .. Len(old)
         PROVE  (\E p \in 1 .. Len(list') : list'[p] = e)
                \/ \E p \in 1 .. Len(list') : p <= i /\ list'[p] < e /\ class[list'[p]] = class[e]
    <3>1. i \in 1 .. Len(list') /\ list'[i] = list[i] /\ i < j
      BY <1>1, <1>2, <1>8, <2>5
    <3>2. CASE \E p \in 1 .. Len(list) : list[p] = e
      <4>1. PICK p \in 1 .. Len(list) : list[p] = e
        BY <3>2
      <4>2. CASE p < j
        <5>1. p \in 1 .. Len(list) - 1
          BY <1>1, <2>1, <4>2
        <5> QED BY <2>5, <4>1, <4>2, <5>1
      <4>3. CASE p = j
        <5>1. list[i] < list[j]
          BY <1>1, <1>2, <1>4, <1>8, <2>1
        <5> QED BY <1>1, <1>8, <3>1, <4>1, <4>3, <5>1
      <4>4. CASE p > j
        <5>1. PICK r : r = p - 1
          OBVIOUS
        <5>2. r \in 1 .. Len(list) - 1 /\ r >= j /\ r + 1 = p
          BY <1>1, <4>4, <5>1
        <5> QED BY <2>5, <4>1, <5>2
      <4> QED BY <1>1, <4>2, <4>3, <4>4
    <3>3. CASE \E p \in 1 .. Len(list) : p <= i /\ list[p] < e /\ class[list[p]] = class[e]
      <4>1. PICK p \in 1 .. Len(list) : p <= i /\ list[p] < e /\ class[list[p]] = class[e]
        BY <3>3
      <4>2. p \in 1 .. Len(list) - 1 /\ p < j
        BY <1>1, <1>2, <2>1, <4>1
      <4>3. list'[p] = list[p]
        BY <2>5, <4>2
      <4> QED BY <2>5, <4>1, <4>2, <4>3
    <3> QED BY <1>6, <3>2, <3>3
  <2>11. i' < j' /\ i' <= Len(list') + 1 /\ i' = i /\ j' = j /\ status' = "run"
    BY <1>1, <1>2, <1>8, <2>5
  <2>12. DoppleInv'
    BY <1>7, <2>7, <2>8, <2>9, <2>10, <2>11 DEF DoppleInv
  <2> QED BY <1>7, <2>3, <2>12 DEF LoopInv
\* the elements at i and at j differ
<1>9. CASE /\ i <= Len(list) /\ j <= Len(list)
           /\ class[list[i]] # class[list[j]] /\ list' = list /\ j' = j + 1
           /\ UNCHANGED <<inputs, src, i, status>>
  <2>1. Inputs' /\ Working'
    BY <1>1, <1>7, <1>9, InputsStay DEF Working
  <2>2. \A p, q \in 1 .. Len(list) :
           p < q /\ (p < i \/ (p = i /\ q < j + 1)) => class[list[p]] # class[list[q]]
    <3> SUFFICES ASSUME NEW p \in 1 .. Len(list), NEW q \in 1 .. Len(list),
                        p < q, p < i \/ (p = i /\ q < j + 1)
                 PROVE  class[list[p]] # class[list[q]]
      OBVIOUS
    <3>1. CASE p = i /\ q = j
      BY <1>9, <3>1
    <3>2. CASE ~ (p = i /\ q = j)
      <4>1. p < i \/ (p = i /\ q < j)
        BY <1>1, <3>2
      <4> QED BY <1>5, <4>1
    <3> QED BY <3>1, <3>2
  <2>3. i' < j' /\ i' = i /\ j' = j + 1 /\ list' = list /\ status' = "run"
    BY <1>1, <1>2, <1>9
  <2>4. DoppleInv'
    BY <1>2, <1>3, <1>4, <1>6, <1>7, <2>2, <2>3 DEF DoppleInv
  <2> QED BY <1>7, <2>1, <2>4 DEF LoopInv
\* the inner loop is at its end
<1>10. CASE /\ i <= Len(list) /\ j > Len(list)
            /\ i' = i + 1 /\ j' = i + 2
            /\ UNCHANGED <<inputs, list, src, status>>
  <2>1. Inputs' /\ Working'
    BY <1>1, <1>7, <1>10, InputsStay DEF Working
  <2>2. \A p, q \in 1 .. Len(list) :
           p < q /\ (p < i + 1 \/ (p = i + 1 /\ q < i + 2)) => class[list[p]] # class[list[q]]
    <3> SUFFICES ASSUME NEW p \in 1 .. Len(list), NEW q \in 1 .. Len(list),
                        p < q, p < i + 1 \/ (p = i + 1 /\ q < i + 2)
                 PROVE  class[list[p]] # class[list[q]]
      OBVIOUS
    <3>1. p < i \/ (p = i /\ q < j)
      BY <1>1, <1>10
    <3> QED BY <1>5, <3>1
  <2>3. \A e \in 1 .. Len(old) :
           (\E p \in 1 .. Len(list) : list[p] = e)
           \/ \E p \in 1 .. Len(list) : p <= i + 1 /\ list[p] < e /\ class[list[p]] = class[e]
    <3>1. \A p \in 1 .. Len(list) : p <= i => p <= i + 1
      BY <1>1
    <3> QED BY <1>6, <3>1
  <2>4. /\ i' < j' /\ i' <= Len(list) + 1 /\ i' = i + 1 /\ j' = i + 2 /\ list' = list
        /\ status' = "run"
    BY <1>1, <1>2, <1>10
  <2>5. DoppleInv'
    BY <1>3, <1>4, <1>7, <2>2, <2>3, <2>4 DEF DoppleInv
  <2> QED BY <1>7, <2>1, <2>5 DEF LoopInv
<1>11. CASE i > Len(list) /\ Finish
  BY <1>1, <1>11, FinishKeeps DEF Splices
<1> QED BY <1>8, <1>9, <1>10, <1>11 DEF RemoveDopplegangers

-----------------------------------------------------------------------------
LEMMA LoopStutters == LoopInv /\ UNCHANGED vars => LoopInv'
BY DEF vars, LoopInv, Inputs, Working, Moved, AfterInv, BeforeInv, ReplaceInv, InsertInv,
       SubTreeInv, DoppleInv

LEMMA LoopHolds == Spec => []LoopInv
<1>1. LoopInv /\ [Next]_vars => LoopInv'
  BY LoopStutters, AfterMoves, BeforeMoves, ReplaceMoves, DoppleMoves, SubTreeMoves, EraseMoves,
     InsertMoves DEF Next
<1> QED BY <1>1, LoopInit, PTL DEF Spec

-----------------------------------------------------------------------------
\* A list with a piece of it, from x + 1 to y, replaced with the list that is spliced in.
IsSplice(r, x, y) ==
    /\ r \in Seq(Nat) /\ Len(r) = x + Len(oldSrc) + (Len(old) - y)
    /\ \A k \in 1 .. Len(r) :
          r[k] = IF k <= x THEN k
                 ELSE IF k <= x + Len(oldSrc) THEN Len(old) + (k - x)
                 ELSE k - x - Len(oldSrc) + y

LEMMA SplicedIs ==
    ASSUME Inputs, NEW x \in Nat, NEW y \in Nat, x <= y, y <= Len(old)
    PROVE  IsSplice(SubSeq(old, 1, x) \o oldSrc \o SubSeq(old, y + 1, Len(old)), x, y)
<1>1. PICK a : a = SubSeq(old, 1, x)
  OBVIOUS
<1>2. PICK c : c = SubSeq(old, y + 1, Len(old))
  OBVIOUS
<1>3. PICK d : d = a \o oldSrc
  OBVIOUS
<1>4. PICK r : r = d \o c
  OBVIOUS
<1>5. /\ old \in Seq(Nat) /\ oldSrc \in Seq(Nat) /\ Len(old) \in Nat /\ Len(oldSrc) \in Nat
  BY LenProperties DEF Inputs
<1>6. \A k \in 1 .. Len(old) : old[k] = k
  BY DEF Inputs
<1>7. \A k \in 1 .. Len(oldSrc) : oldSrc[k] = Len(old) + k
  BY DEF Inputs
<1>8. a \in Seq(Nat) /\ Len(a) = x /\ \A k \in 1 .. x : a[k] = k
  <2>1. a \in Seq(Nat) /\ Len(a) = x + 1 - 1
    BY <1>1, <1>5, PartIs
  <2>2. \A k \in 1 .. Len(a) : a[k] = old[1 + k - 1]
    BY <1>1, <1>5, PartIs
  <2>3. ASSUME NEW k \in 1 .. x PROVE a[k] = k
    <3>1. k \in 1 .. Len(a) /\ 1 + k - 1 = k /\ k \in 1 .. Len(old)
      BY <1>5, <2>1
    <3> QED BY <1>6, <2>2, <3>1
  <2> QED BY <2>1, <2>3
<1>9. c \in Seq(Nat) /\ Len(c) = Len(old) - y /\ \A k \in 1 .. Len(old) - y : c[k] = y + k
  <2>1. PICK f : f = y + 1
    OBVIOUS
  <2>2. f \in Nat \ {0} /\ f <= Len(old) + 1 /\ c = SubSeq(old, f, Len(old))
    BY <1>2, <1>5, <2>1
  <2>3. c \in Seq(Nat) /\ Len(c) = Len(old) + 1 - f
    BY <1>5, <2>2, PartIs
  <2>4. \A k \in 1 .. Len(c) : c[k] = old[f + k - 1]
    BY <1>5, <2>2, PartIs
  <2>5. ASSUME NEW k \in 1 .. Len(old) - y PROVE c[k] = y + k
    <3>1. k \in 1 .. Len(c) /\ f + k - 1 = y + k /\ y + k \in 1 .. Len(old)
      BY <1>5, <2>1, <2>3
    <3> QED BY <1>6, <2>4, <3>1
  <2> QED BY <1>5, <2>1, <2>3, <2>5
<1>10. /\ d \in Seq(Nat) /\ Len(d) = x + Len(oldSrc)
       /\ \A k \in 1 .. Len(d) : d[k] = IF k <= x THEN a[k] ELSE oldSrc[k - x]
  <2>1. a \in Seq(Nat) /\ oldSrc \in Seq(Nat) /\ Len(a) = x
    BY <1>5, <1>8
  <2>2. d \in Seq(Nat) /\ Len(d) = Len(a) + Len(oldSrc)
    BY <1>3, <2>1, ConcatIs
  <2>3. \A k \in 1 .. Len(d) : d[k] = IF k <= Len(a) THEN a[k] ELSE oldSrc[k - Len(a)]
    BY <1>3, <2>1, ConcatIs
  <2> QED BY <2>1, <2>2, <2>3
<1>11. /\ r \in Seq(Nat) /\ Len(r) = x + Len(oldSrc) + (Len(old) - y)
       /\ \A k \in 1 .. Len(r) :
             r[k] = IF k <= x + Len(oldSrc) THEN d[k] ELSE c[k - (x + Len(oldSrc))]
  <2>1. d \in Seq(Nat) /\ c \in Seq(Nat) /\ Len(d) = x + Len(oldSrc) /\ Len(c) = Len(old) - y
    BY <1>9, <1>10
  <2>2. r \in Seq(Nat) /\ Len(r) = Len(d) + Len(c)
    BY <1>4, <2>1, ConcatIs
  <2>3. \A k \in 1 .. Len(r) : r[k] = IF k <= Len(d) THEN d[k] ELSE c[k - Len(d)]
    <3>1. d \in Seq(Nat) /\ c \in Seq(Nat)
      BY <2>1
    <3> QED BY <1>4, <3>1, ConcatIs
  <2> QED BY <2>1, <2>2, <2>3
<1>12. ASSUME NEW k \in 1 .. Len(r)
       PROVE  r[k] = IF k <= x THEN k
                     ELSE IF k <= x + Len(oldSrc) THEN Len(old) + (k - x)
                     ELSE k - x - Len(oldSrc) + y
  <2>1. CASE k <= x
    <3>1. k \in 1 .. Len(d) /\ k \in 1 .. x /\ k <= x + Len(oldSrc)
      BY <1>5, <1>10, <2>1
    <3>2. r[k] = d[k] /\ d[k] = a[k] /\ a[k] = k
      BY <1>8, <1>10, <1>11, <2>1, <3>1
    <3> QED BY <2>1, <3>2
  <2>2. CASE k > x /\ k <= x + Len(oldSrc)
    <3>1. PICK q : q = k - x
      OBVIOUS
    <3>2. k \in 1 .. Len(d) /\ q \in 1 .. Len(oldSrc) /\ ~ (k <= x)
      BY <1>5, <1>10, <2>2, <3>1
    <3>3. r[k] = d[k] /\ d[k] = oldSrc[q]
      BY <1>10, <1>11, <2>2, <3>1, <3>2
    <3>4. oldSrc[q] = Len(old) + q
      BY <1>7, <3>2
    <3> QED BY <2>2, <3>1, <3>2, <3>3, <3>4
  <2>3. CASE k > x + Len(oldSrc)
    <3>1. PICK q, m : m = x + Len(oldSrc) /\ q = k - m
      OBVIOUS
    <3>2. Len(r) = m + (Len(old) - y) /\ m \in Nat /\ x <= m
      BY <1>5, <1>11, <3>1
    <3>3. k \in Nat /\ k <= m + (Len(old) - y) /\ k > m
      BY <1>5, <2>3, <3>1, <3>2
    <3>4. q \in 1 .. Len(old) - y /\ ~ (k <= x) /\ ~ (k <= m) /\ k = m + q
      BY <1>5, <3>1, <3>2, <3>3
    <3>5. r[k] = c[q] /\ c[q] = y + q
      BY <1>9, <1>11, <3>1, <3>4
    <3>6. y + q = k - x - Len(oldSrc) + y
      BY <1>5, <3>1, <3>4
    <3> QED BY <3>1, <3>4, <3>5, <3>6
  <2>4. x + Len(oldSrc) \in Nat /\ x <= x + Len(oldSrc) /\ k \in Nat
    BY <1>5
  <2> QED BY <2>1, <2>2, <2>3, <2>4
<1>13. IsSplice(r, x, y)
  BY <1>11, <1>12 DEF IsSplice
<1> QED BY <1>1, <1>2, <1>3, <1>4, <1>13

LEMMA SplicedWell == LoopInv => SpliceExact
<1> SUFFICES ASSUME LoopInv, status = "done", op \in Splices \cup {"insert"} PROVE SpliceExact
  BY DEF SpliceExact
<1>1. /\ Inputs /\ list \in Seq(Nat) /\ src \in Seq(Nat) /\ Len(list) \in Nat /\ Len(src) \in Nat
      /\ Len(old) \in Nat /\ Len(oldSrc) \in Nat /\ place \in Nat
      /\ op \in Splices => place \in 1 .. Len(old)
      /\ Moved = Len(oldSrc) - Len(src)
  BY LenProperties DEF LoopInv, Inputs, Working, Moved
<1>2. src = <<>> => Len(src) = 0
  BY EmptySeq
<1>3. CASE op = "insert_after"
  <2>1. PICK r : r = SubSeq(old, 1, place) \o oldSrc \o SubSeq(old, place + 1, Len(old))
    OBVIOUS
  <2>2. /\ r \in Seq(Nat) /\ Len(r) = place + Len(oldSrc) + (Len(old) - place)
        /\ \A k \in 1 .. Len(r) :
              r[k] = IF k <= place THEN k
                     ELSE IF k <= place + Len(oldSrc) THEN Len(old) + (k - place)
                     ELSE k - place - Len(oldSrc) + place
    <3>1. place \in Nat /\ place <= place /\ place <= Len(old)
      BY <1>1, <1>3 DEF Splices
    <3>2. IsSplice(r, place, place)
      BY <1>1, <2>1, <3>1, SplicedIs
    <3> QED BY <3>2 DEF IsSplice
  <2>3. Len(src) = 0 /\ Moved = Len(oldSrc) /\ Len(list) = Len(old) + Len(oldSrc)
    BY <1>1, <1>2, <1>3 DEF LoopInv, AfterInv
  <2>4. \A k \in 1 .. Len(list) :
           list[k] = IF k <= place THEN k
                     ELSE IF k <= place + Len(oldSrc) THEN Len(old) + 0 + (k - place)
                     ELSE k - Len(oldSrc)
    BY <1>3, <2>3 DEF LoopInv, AfterInv
  <2>5. Len(list) = Len(r)
    BY <1>1, <2>2, <2>3
  <2>6. ASSUME NEW k \in 1 .. Len(list) PROVE list[k] = r[k]
    <3>1. k \in 1 .. Len(r)
      BY <2>5
    <3>2. r[k] = IF k <= place THEN k
                 ELSE IF k <= place + Len(oldSrc) THEN Len(old) + (k - place)
                 ELSE k - place - Len(oldSrc) + place
      BY <2>2, <3>1
    <3> QED BY <1>1, <2>4, <3>2
  <2>7. list = r
    BY <1>1, <2>2, <2>5, <2>6, SeqEqual
  <2> QED BY <1>3, <2>1, <2>7 DEF SpliceExact
<1>4. CASE op = "insert_before"
  <2>1. PICK x : x = place - 1
    OBVIOUS
  <2>2. x \in Nat /\ x <= x /\ x <= Len(old) /\ place = x + 1 /\ place \in 1 .. Len(old)
    BY <1>1, <1>4, <2>1 DEF Splices
  <2>3. PICK r : r = SubSeq(old, 1, x) \o oldSrc \o SubSeq(old, x + 1, Len(old))
    OBVIOUS
  <2>4. /\ r \in Seq(Nat) /\ Len(r) = x + Len(oldSrc) + (Len(old) - x)
        /\ \A k \in 1 .. Len(r) :
              r[k] = IF k <= x THEN k
                     ELSE IF k <= x + Len(oldSrc) THEN Len(old) + (k - x)
                     ELSE k - x - Len(oldSrc) + x
    <3>1. IsSplice(r, x, x)
      BY <1>1, <2>2, <2>3, SplicedIs
    <3> QED BY <3>1 DEF IsSplice
  <2>5. Len(src) = 0 /\ Moved = Len(oldSrc) /\ Len(list) = Len(old) + Len(oldSrc)
    BY <1>1, <1>2, <1>4 DEF LoopInv, BeforeInv
  <2>6. \A k \in 1 .. Len(list) :
           list[k] = IF k < place THEN k
                     ELSE IF k < place + Len(oldSrc) THEN Len(old) + (k - place) + 1
                     ELSE k - Len(oldSrc)
    BY <1>4, <2>5 DEF LoopInv, BeforeInv
  <2>7. Len(list) = Len(r)
    BY <1>1, <2>2, <2>4, <2>5
  <2>8. ASSUME NEW k \in 1 .. Len(list) PROVE list[k] = r[k]
    <3>1. k \in 1 .. Len(r)
      BY <2>7
    <3>2. r[k] = IF k <= x THEN k
                 ELSE IF k <= x + Len(oldSrc) THEN Len(old) + (k - x)
                 ELSE k - x - Len(oldSrc) + x
      BY <2>4, <3>1
    <3> QED BY <1>1, <2>2, <2>6, <3>2
  <2>9. list = r
    BY <1>1, <2>4, <2>7, <2>8, SeqEqual
  <2>10. r = SubSeq(old, 1, place - 1) \o oldSrc \o SubSeq(old, place, Len(old))
    BY <2>1, <2>2, <2>3
  <2> QED BY <1>4, <2>9, <2>10 DEF SpliceExact
<1>5. CASE op = "replaceWithList"
  <2>1. PICK x : x = place - 1
    OBVIOUS
  <2>2. x \in Nat /\ x <= place /\ place <= Len(old) /\ place = x + 1 /\ place \in Nat
    BY <1>1, <1>5, <2>1 DEF Splices
  <2>3. PICK r : r = SubSeq(old, 1, x) \o oldSrc \o SubSeq(old, place + 1, Len(old))
    OBVIOUS
  <2>4. /\ r \in Seq(Nat) /\ Len(r) = x + Len(oldSrc) + (Len(old) - place)
        /\ \A k \in 1 .. Len(r) :
              r[k] = IF k <= x THEN k
                     ELSE IF k <= x + Len(oldSrc) THEN Len(old) + (k - x)
                     ELSE k - x - Len(oldSrc) + place
    <3>1. IsSplice(r, x, place)
      BY <1>1, <2>2, <2>3, SplicedIs
    <3> QED BY <3>1 DEF IsSplice
  <2>5. Len(list) = Len(r) /\ \A k \in 1 .. Len(list) : list[k] = r[k]
    <3>1. CASE /\ 1 <= Moved /\ Len(list) = Len(old) + Moved - 1 /\ src = <<>>
               /\ \A k \in 1 .. Len(list) :
                     list[k] = IF k < place THEN k
                               ELSE IF k = place THEN Len(old) + 1
                               ELSE IF k < place + Moved THEN Len(old) + 1 + Len(src) + (k - place)
                               ELSE k - Moved + 1
      <4>1. Moved = Len(oldSrc) /\ Len(src) = 0
        BY <1>1, <1>2, <3>1
      <4>2. Len(list) = Len(r)
        BY <1>1, <2>2, <2>4, <3>1, <4>1
      <4>3. ASSUME NEW k \in 1 .. Len(list) PROVE list[k] = r[k]
        <5>1. k \in 1 .. Len(r)
          BY <4>2
        <5>2. r[k] = IF k <= x THEN k
                     ELSE IF k <= x + Len(oldSrc) THEN Len(old) + (k - x)
                     ELSE k - x - Len(oldSrc) + place
          BY <2>4, <5>1
        <5>3. list[k] = IF k < place THEN k
                        ELSE IF k = place THEN Len(old) + 1
                        ELSE IF k < place + Len(oldSrc) THEN Len(old) + 1 + 0 + (k - place)
                        ELSE k - Len(oldSrc) + 1
          BY <3>1, <4>1
        <5>4. 1 <= Len(oldSrc)
          BY <3>1, <4>1
        <5>5. CASE k < place
          BY <1>1, <2>2, <5>2, <5>3, <5>5
        <5>6. CASE k = place
          BY <1>1, <2>2, <5>2, <5>3, <5>4, <5>6
        <5>7. CASE k > place
          BY <1>1, <2>2, <5>2, <5>3, <5>7
        <5> QED BY <2>2, <5>5, <5>6, <5>7
      <4> QED BY <4>2, <4>3
    <3>2. CASE /\ oldSrc = <<>> /\ Len(list) = Len(old) - 1
               /\ \A k \in 1 .. Len(list) : list[k] = IF k < place THEN k ELSE k + 1
      <4>1. Len(oldSrc) = 0
        BY <3>2, EmptySeq
      <4>2. Len(list) = Len(r)
        BY <1>1, <2>2, <2>4, <3>2, <4>1
      <4>3. ASSUME NEW k \in 1 .. Len(list) PROVE list[k] = r[k]
        <5>1. k \in 1 .. Len(r)
          BY <4>2
        <5>2. r[k] = IF k <= x THEN k
                     ELSE IF k <= x + 0 THEN Len(old) + (k - x)
                     ELSE k - x - 0 + place
          BY <2>4, <4>1, <5>1
        <5>3. list[k] = IF k < place THEN k ELSE k + 1
          BY <3>2
        <5> QED BY <1>1, <2>2, <5>2, <5>3
      <4> QED BY <4>2, <4>3
    <3> QED BY <1>5, <3>1, <3>2 DEF LoopInv, ReplaceInv
  <2>6. list = r
    BY <1>1, <2>4, <2>5, SeqEqual
  <2> QED BY <1>5, <2>1, <2>3, <2>6 DEF SpliceExact
<1>6. CASE op = "insert"
  <2>1. /\ place <= Len(old) /\ Len(list) = Len(old) + 1
        /\ \A k \in 1 .. Len(list) :
              list[k] = IF k <= place THEN k ELSE IF k = place + 1 THEN Len(old) + 1 ELSE k - 1
    BY <1>6 DEF LoopInv, InsertInv
  <2>2. Len(oldSrc) = 1
    BY <1>1, <1>6 DEF Inputs
  <2>3. PICK r : r = SubSeq(old, 1, place) \o oldSrc \o SubSeq(old, place + 1, Len(old))
    OBVIOUS
  <2>4. /\ r \in Seq(Nat) /\ Len(r) = place + Len(oldSrc) + (Len(old) - place)
        /\ \A k \in 1 .. Len(r) :
              r[k] = IF k <= place THEN k
                     ELSE IF k <= place + Len(oldSrc) THEN Len(old) + (k - place)
                     ELSE k - place - Len(oldSrc) + place
    <3>1. place \in Nat /\ place <= place /\ place <= Len(old)
      BY <1>1, <2>1
    <3>2. IsSplice(r, place, place)
      BY <1>1, <2>3, <3>1, SplicedIs
    <3> QED BY <3>2 DEF IsSplice
  <2>5. Len(list) = Len(r)
    BY <1>1, <2>1, <2>2, <2>4
  <2>6. ASSUME NEW k \in 1 .. Len(list) PROVE list[k] = r[k]
    <3>1. k \in 1 .. Len(r)
      BY <2>5
    <3>2. r[k] = IF k <= place THEN k
                 ELSE IF k <= place + 1 THEN Len(old) + (k - place)
                 ELSE k - place - 1 + place
      BY <2>2, <2>4, <3>1
    <3> QED BY <1>1, <2>1, <3>2
  <2>7. list = r
    BY <1>1, <2>4, <2>5, <2>6, SeqEqual
  <2> QED BY <1>6, <2>3, <2>7 DEF SpliceExact
<1> QED BY <1>3, <1>4, <1>5, <1>6 DEF Splices

-----------------------------------------------------------------------------
\* What the two lists hold together, position by position.
LEMMA BothAre ==
    ASSUME Working, NEW w, w = list \o src
    PROVE  /\ DOMAIN w = 1 .. Len(list) + Len(src)
           /\ \A k \in 1 .. Len(list) + Len(src) :
                 w[k] = IF k <= Len(list) THEN list[k] ELSE src[k - Len(list)]
<1>1. list \in Seq(Nat) /\ src \in Seq(Nat)
  BY DEF Working
<1>2. w \in Seq(Nat) /\ Len(w) = Len(list) + Len(src)
  BY <1>1, ConcatIs
<1>3. \A k \in 1 .. Len(w) : w[k] = IF k <= Len(list) THEN list[k] ELSE src[k - Len(list)]
  BY <1>1, ConcatIs
<1>4. DOMAIN w = 1 .. Len(w)
  BY <1>2, LenProperties
<1> QED BY <1>2, <1>3, <1>4

LEMMA BeforeAre == Inputs => ToSet(old \o oldSrc) \subseteq 1 .. Len(old) + Len(oldSrc)
<1> SUFFICES ASSUME Inputs PROVE ToSet(old \o oldSrc) \subseteq 1 .. Len(old) + Len(oldSrc)
  OBVIOUS
<1>1. PICK w : w = old \o oldSrc
  OBVIOUS
<1>2. old \in Seq(Nat) /\ oldSrc \in Seq(Nat)
  BY DEF Inputs
<1>3. Len(old) \in Nat /\ Len(oldSrc) \in Nat
  BY <1>2, LenProperties
<1>4. w \in Seq(Nat) /\ Len(w) = Len(old) + Len(oldSrc)
  BY <1>1, <1>2, ConcatIs
<1>5. \A k \in 1 .. Len(w) : w[k] = IF k <= Len(old) THEN old[k] ELSE oldSrc[k - Len(old)]
  BY <1>1, <1>2, ConcatIs
<1>6. DOMAIN w = 1 .. Len(old) + Len(oldSrc)
  BY <1>4, LenProperties
<1>7. ASSUME NEW k \in 1 .. Len(old) + Len(oldSrc) PROVE w[k] = k
  <2>1. CASE k <= Len(old)
    <3>1. k \in 1 .. Len(old) /\ k \in 1 .. Len(w)
      BY <1>3, <1>4, <2>1
    <3>2. old[k] = k
      BY <3>1 DEF Inputs
    <3> QED BY <1>5, <2>1, <3>1, <3>2
  <2>2. CASE k > Len(old)
    <3>1. PICK q : q = k - Len(old)
      OBVIOUS
    <3>2. q \in 1 .. Len(oldSrc) /\ k \in 1 .. Len(w) /\ ~ (k <= Len(old)) /\ Len(old) + q = k
      BY <1>3, <1>4, <2>2, <3>1
    <3>3. oldSrc[q] = Len(old) + q
      BY <3>2 DEF Inputs
    <3> QED BY <1>5, <3>1, <3>2, <3>3
  <2> QED BY <1>3, <2>1, <2>2
<1>8. ToSet(w) \subseteq 1 .. Len(old) + Len(oldSrc)
  BY <1>6, <1>7 DEF ToSet
<1> QED BY <1>1, <1>8

\* The elements are in w, each once, but for those that are gone.
Gone == IF op = "replaceWithList" THEN {place} ELSE {}

Has(w) ==
    /\ \A k, l \in DOMAIN w : w[k] = w[l] => k = l
    /\ \A e \in 1 .. Len(old) + Len(oldSrc) : e \in Gone \/ \E k \in DOMAIN w : w[k] = e

\* It is enough to say where every element is.
LEMMA HasByPlace ==
    ASSUME NEW w, NEW h, NEW N, N = Len(old) + Len(oldSrc), Len(old) \in Nat, Len(oldSrc) \in Nat,
           \A k \in DOMAIN w : h[w[k]] = k,
           \A e \in 1 .. N : e \in Gone \/ (h[e] \in DOMAIN w /\ w[h[e]] = e)
    PROVE  Has(w)
<1>1. \A k, l \in DOMAIN w : w[k] = w[l] => k = l
  OBVIOUS
<1>2. \A e \in 1 .. N : e \in Gone \/ \E k \in DOMAIN w : w[k] = e
  OBVIOUS
<1> QED BY <1>1, <1>2 DEF Has

LEMMA AllThere == LoopInv /\ op \in Splices => Has(list \o src)
<1> SUFFICES ASSUME LoopInv, op \in Splices PROVE Has(list \o src)
  OBVIOUS
<1>1. PICK w : w = list \o src
  OBVIOUS
<1> SUFFICES Has(w)
  BY <1>1
<1>2. PICK n, m, ll, ls : n = Len(old) /\ m = Len(oldSrc) /\ ll = Len(list) /\ ls = Len(src)
  OBVIOUS
<1>3. /\ n \in Nat /\ m \in Nat /\ ll \in Nat /\ ls \in Nat /\ place \in 1 .. n
      /\ Moved = m - ls
  BY <1>2, LenProperties DEF LoopInv, Inputs, Working, Moved
<1>4. Inputs /\ Working
  BY DEF LoopInv
<1>5. DOMAIN w = 1 .. ll + ls
  BY <1>1, <1>2, <1>4, BothAre
<1>6. \A k \in 1 .. ll + ls : w[k] = IF k <= ll THEN list[k] ELSE src[k - ll]
  BY <1>1, <1>2, <1>4, BothAre
<1>7. CASE op = "insert_after"
  <2>1. ls <= m /\ ll = n + (m - ls)
    BY <1>2, <1>3, <1>7 DEF LoopInv, AfterInv
  <2>2. \A k \in 1 .. ls : src[k] = n + k
    BY <1>2, <1>7 DEF LoopInv, AfterInv
  <2>3. \A k \in 1 .. ll : list[k] = IF k <= place THEN k
                                     ELSE IF k <= place + (m - ls) THEN n + ls + (k - place)
                                     ELSE k - (m - ls)
    BY <1>2, <1>3, <1>7 DEF LoopInv, AfterInv
  <2>4. ASSUME NEW k \in 1 .. n + m
        PROVE  w[k] = IF k <= place THEN k
                      ELSE IF k <= place + (m - ls) THEN n + ls + (k - place)
                      ELSE k - (m - ls)
    <3>1. k \in 1 .. ll + ls
      BY <1>3, <2>1
    <3>2. CASE k <= ll
      <4>1. k \in 1 .. ll
        BY <3>2
      <4> QED BY <1>6, <2>3, <3>1, <3>2, <4>1
    <3>3. CASE k > ll
      <4>1. PICK q : q = k - ll
        OBVIOUS
      <4>2. q \in 1 .. ls /\ ~ (k <= ll)
        BY <1>3, <2>1, <3>3, <4>1
      <4>3. w[k] = n + q
        BY <1>6, <2>2, <3>1, <4>1, <4>2
      <4> QED BY <1>3, <2>1, <3>3, <4>1, <4>3
    <3> QED BY <1>3, <2>1, <3>2, <3>3
  <2>5. DOMAIN w = 1 .. n + m
    BY <1>3, <1>5, <2>1
  <2>6. PICK h : h = [e \in 1 .. n + m |-> IF e <= place THEN e
                                           ELSE IF e <= n + ls THEN e + (m - ls)
                                           ELSE place + (e - n - ls)]
    OBVIOUS
  <2>7. \A e \in 1 .. n + m : h[e] = IF e <= place THEN e
                                     ELSE IF e <= n + ls THEN e + (m - ls)
                                     ELSE place + (e - n - ls)
    BY <2>6
  <2>8. ASSUME NEW k \in 1 .. n + m PROVE h[w[k]] = k
    <3>1. PICK e : e = w[k]
      OBVIOUS
    <3>2. CASE k <= place
      <4>1. e = k /\ e \in 1 .. n + m
        BY <2>4, <3>1, <3>2
      <4> QED BY <2>7, <3>1, <3>2, <4>1
    <3>3. CASE k > place /\ k <= place + (m - ls)
      <4>1. e = n + ls + (k - place)
        BY <1>3, <2>4, <3>1, <3>3
      <4>2. e \in 1 .. n + m /\ ~ (e <= place) /\ ~ (e <= n + ls) /\ place + (e - n - ls) = k
        BY <1>3, <2>1, <3>3, <4>1
      <4> QED BY <2>7, <3>1, <4>2
    <3>4. CASE k > place + (m - ls)
      <4>1. e = k - (m - ls)
        BY <1>3, <2>1, <2>4, <3>1, <3>4
      <4>2. e \in 1 .. n + m /\ ~ (e <= place) /\ e <= n + ls /\ e + (m - ls) = k
        BY <1>3, <2>1, <3>4, <4>1
      <4> QED BY <2>7, <3>1, <4>2
    <3> QED BY <1>3, <2>1, <3>2, <3>3, <3>4
  <2>9. ASSUME NEW e \in 1 .. n + m PROVE h[e] \in 1 .. n + m /\ w[h[e]] = e
    <3>1. PICK k : k = h[e]
      OBVIOUS
    <3>2. CASE e <= place
      BY <2>4, <2>7, <3>2
    <3>3. CASE e > place /\ e <= n + ls
      <4>1. k = e + (m - ls)
        BY <1>3, <2>7, <3>1, <3>3
      <4>2. k \in 1 .. n + m /\ ~ (k <= place) /\ ~ (k <= place + (m - ls)) /\ k - (m - ls) = e
        BY <1>3, <2>1, <3>3, <4>1
      <4> QED BY <2>4, <3>1, <4>2
    <3>4. CASE e > n + ls
      <4>1. k = place + (e - n - ls)
        BY <1>3, <2>7, <3>1, <3>4
      <4>2. /\ k \in 1 .. n + m /\ ~ (k <= place) /\ k <= place + (m - ls)
            /\ n + ls + (k - place) = e
        BY <1>3, <2>1, <3>4, <4>1
      <4> QED BY <2>4, <3>1, <4>2
    <3> QED BY <1>3, <3>2, <3>3, <3>4
  <2> QED BY <1>2, <1>3, <2>5, <2>8, <2>9, HasByPlace
<1>8. CASE op = "insert_before"
  <2>1. ls <= m /\ ll = n + (m - ls)
    BY <1>2, <1>3, <1>8 DEF LoopInv, BeforeInv
  <2>2. \A k \in 1 .. ls : src[k] = n + (m - ls) + k
    BY <1>2, <1>3, <1>8 DEF LoopInv, BeforeInv
  <2>3. \A k \in 1 .. ll : list[k] = IF k < place THEN k
                                     ELSE IF k < place + (m - ls) THEN n + (k - place) + 1
                                     ELSE k - (m - ls)
    BY <1>2, <1>3, <1>8 DEF LoopInv, BeforeInv
  <2>4. ASSUME NEW k \in 1 .. n + m
        PROVE  w[k] = IF k < place THEN k
                      ELSE IF k < place + (m - ls) THEN n + (k - place) + 1
                      ELSE IF k <= n + (m - ls) THEN k - (m - ls)
                      ELSE k
    <3>1. k \in 1 .. ll + ls
      BY <1>3, <2>1
    <3>2. CASE k <= ll
      <4>1. k \in 1 .. ll
        BY <3>2
      <4> QED BY <1>3, <1>6, <2>1, <2>3, <3>1, <3>2, <4>1
    <3>3. CASE k > ll
      <4>1. PICK q : q = k - ll
        OBVIOUS
      <4>2. q \in 1 .. ls /\ ~ (k <= ll) /\ n + (m - ls) + q = k
        BY <1>3, <2>1, <3>3, <4>1
      <4>3. w[k] = k
        BY <1>6, <2>2, <3>1, <4>1, <4>2
      <4> QED BY <1>3, <2>1, <3>3, <4>3
    <3> QED BY <1>3, <2>1, <3>2, <3>3
  <2>5. DOMAIN w = 1 .. n + m
    BY <1>3, <1>5, <2>1
  <2>6. PICK h : h = [e \in 1 .. n + m |-> IF e < place THEN e
                                           ELSE IF e <= n THEN e + (m - ls)
                                           ELSE IF e <= n + (m - ls) THEN place + (e - n) - 1
                                           ELSE e]
    OBVIOUS
  <2>7. \A e \in 1 .. n + m : h[e] = IF e < place THEN e
                                     ELSE IF e <= n THEN e + (m - ls)
                                     ELSE IF e <= n + (m - ls) THEN place + (e - n) - 1
                                     ELSE e
    BY <2>6
  <2>8. ASSUME NEW k \in 1 .. n + m PROVE h[w[k]] = k
    <3>1. PICK e : e = w[k]
      OBVIOUS
    <3>2. CASE k < place
      <4>1. e = k /\ e \in 1 .. n + m
        BY <2>4, <3>1, <3>2
      <4> QED BY <2>7, <3>1, <3>2, <4>1
    <3>3. CASE k >= place /\ k < place + (m - ls)
      <4>1. e = n + (k - place) + 1
        BY <1>3, <2>4, <3>1, <3>3
      <4>2. /\ e \in 1 .. n + m /\ ~ (e < place) /\ ~ (e <= n) /\ e <= n + (m - ls)
            /\ place + (e - n) - 1 = k
        BY <1>3, <2>1, <3>3, <4>1
      <4> QED BY <2>7, <3>1, <4>2
    <3>4. CASE k >= place + (m - ls) /\ k <= n + (m - ls)
      <4>1. e = k - (m - ls)
        BY <1>3, <2>1, <2>4, <3>1, <3>4
      <4>2. e \in 1 .. n + m /\ ~ (e < place) /\ e <= n /\ e + (m - ls) = k
        BY <1>3, <2>1, <3>4, <4>1
      <4> QED BY <2>7, <3>1, <4>2
    <3>5. CASE k > n + (m - ls)
      <4>1. e = k
        BY <1>3, <2>1, <2>4, <3>1, <3>5
      <4>2. e \in 1 .. n + m /\ ~ (e < place) /\ ~ (e <= n) /\ ~ (e <= n + (m - ls))
        BY <1>3, <2>1, <3>5, <4>1
      <4> QED BY <2>7, <3>1, <4>1, <4>2
    <3> QED BY <1>3, <2>1, <3>2, <3>3, <3>4, <3>5
  <2>9. ASSUME NEW e \in 1 .. n + m PROVE h[e] \in 1 .. n + m /\ w[h[e]] = e
    <3>1. PICK k : k = h[e]
      OBVIOUS
    <3>2. CASE e < place
      BY <2>4, <2>7, <3>2
    <3>3. CASE e >= place /\ e <= n
      <4>1. k = e + (m - ls)
        BY <1>3, <2>7, <3>1, <3>3
      <4>2. /\ k \in 1 .. n + m /\ ~ (k < place) /\ ~ (k < place + (m - ls)) /\ k <= n + (m - ls)
            /\ k - (m - ls) = e
        BY <1>3, <2>1, <3>3, <4>1
      <4> QED BY <2>4, <3>1, <4>2
    <3>4. CASE e > n /\ e <= n + (m - ls)
      <4>1. k = place + (e - n) - 1
        BY <1>3, <2>7, <3>1, <3>4
      <4>2. /\ k \in 1 .. n + m /\ ~ (k < place) /\ k < place + (m - ls)
            /\ n + (k - place) + 1 = e
        BY <1>3, <2>1, <3>4, <4>1
      <4> QED BY <2>4, <3>1, <4>2
    <3>5. CASE e > n + (m - ls)
      <4>1. k = e
        BY <1>3, <2>1, <2>7, <3>1, <3>5
      <4>2. k \in 1 .. n + m /\ ~ (k < place) /\ ~ (k < place + (m - ls)) /\ ~ (k <= n + (m - ls))
        BY <1>3, <2>1, <3>5, <4>1
      <4> QED BY <2>4, <3>1, <4>1, <4>2
    <3> QED BY <1>3, <2>1, <3>2, <3>3, <3>4, <3>5
  <2> QED BY <1>2, <1>3, <2>5, <2>8, <2>9, HasByPlace
<1>9. CASE op = "replaceWithList" /\ list = old /\ src = oldSrc
  <2>1. ll = n /\ ls = m
    BY <1>2, <1>9
  <2>2. ASSUME NEW k \in 1 .. n + m PROVE w[k] = k
    <3>1. CASE k <= n
      <4>1. k \in 1 .. Len(old)
        BY <1>2, <1>3, <3>1
      <4>2. old[k] = k
        BY <1>4, <4>1 DEF Inputs
      <4> QED BY <1>6, <1>9, <2>1, <3>1, <4>2
    <3>2. CASE k > n
      <4>1. PICK q : q = k - n
        OBVIOUS
      <4>2. q \in 1 .. Len(oldSrc) /\ ~ (k <= n) /\ n + q = k
        BY <1>2, <1>3, <3>2, <4>1
      <4>3. oldSrc[q] = n + q
        BY <1>2, <1>4, <4>2 DEF Inputs
      <4> QED BY <1>6, <1>9, <2>1, <4>1, <4>2, <4>3
    <3> QED BY <1>3, <3>1, <3>2
  <2>3. PICK h : h = [e \in 1 .. n + m |-> e]
    OBVIOUS
  <2>4. \A e \in 1 .. n + m : h[e] = e
    BY <2>3
  <2>5. DOMAIN w = 1 .. n + m
    BY <1>5, <2>1
  <2>6. \A k \in DOMAIN w : h[w[k]] = k
    BY <2>2, <2>4, <2>5
  <2>7. \A e \in 1 .. n + m : h[e] \in DOMAIN w /\ w[h[e]] = e
    BY <2>2, <2>4, <2>5
  <2> QED BY <1>2, <1>3, <2>6, <2>7, HasByPlace
<1>10. CASE /\ op = "replaceWithList"
            /\ 1 <= Moved /\ Len(src) < Len(oldSrc) /\ Len(list) = Len(old) + Moved - 1
            /\ \A k \in 1 .. Len(src) : src[k] = Len(old) + 1 + k
            /\ \A k \in 1 .. Len(list) :
                  list[k] = IF k < place THEN k
                            ELSE IF k = place THEN Len(old) + 1
                            ELSE IF k < place + Moved THEN Len(old) + 1 + Len(src) + (k - place)
                            ELSE k - Moved + 1
  <2>1. ls < m /\ ll = n + (m - ls) - 1
    BY <1>2, <1>3, <1>10
  <2>2. \A k \in 1 .. ls : src[k] = n + 1 + k
    BY <1>2, <1>10
  <2>3. \A k \in 1 .. ll : list[k] = IF k < place THEN k
                                     ELSE IF k = place THEN n + 1
                                     ELSE IF k < place + (m - ls) THEN n + 1 + ls + (k - place)
                                     ELSE k - (m - ls) + 1
    BY <1>2, <1>3, <1>10
  <2>4. ASSUME NEW k \in 1 .. n + m - 1
        PROVE  w[k] = IF k < place THEN k
                      ELSE IF k = place THEN n + 1
                      ELSE IF k < place + (m - ls) THEN n + 1 + ls + (k - place)
                      ELSE IF k < n + (m - ls) THEN k - (m - ls) + 1
                      ELSE k - (m - ls) + 2
    <3>1. k \in 1 .. ll + ls
      BY <1>3, <2>1
    <3>2. CASE k <= ll
      <4>1. k \in 1 .. ll
        BY <3>2
      <4> QED BY <1>3, <1>6, <2>1, <2>3, <3>1, <3>2, <4>1
    <3>3. CASE k > ll
      <4>1. PICK q : q = k - ll
        OBVIOUS
      <4>2. q \in 1 .. ls /\ ~ (k <= ll) /\ n + 1 + q = k - (m - ls) + 2
        BY <1>3, <2>1, <3>3, <4>1
      <4>3. w[k] = k - (m - ls) + 2
        BY <1>6, <2>2, <3>1, <4>1, <4>2
      <4>4. ~ (k < place) /\ k # place /\ ~ (k < place + (m - ls)) /\ ~ (k < n + (m - ls))
        BY <1>3, <2>1, <3>3
      <4> QED BY <4>3, <4>4
    <3> QED BY <1>3, <2>1, <3>2, <3>3
  <2>5. DOMAIN w = 1 .. n + m - 1
    BY <1>3, <1>5, <2>1
  <2>6. PICK h : h = [e \in 1 .. n + m |-> IF e < place THEN e
                                           ELSE IF e <= n THEN e + (m - ls) - 1
                                           ELSE IF e = n + 1 THEN place
                                           ELSE IF e <= n + 1 + ls THEN e + (m - ls) - 2
                                           ELSE place + (e - n - 1 - ls)]
    OBVIOUS
  <2>7. \A e \in 1 .. n + m : h[e] = IF e < place THEN e
                                     ELSE IF e <= n THEN e + (m - ls) - 1
                                     ELSE IF e = n + 1 THEN place
                                     ELSE IF e <= n + 1 + ls THEN e + (m - ls) - 2
                                     ELSE place + (e - n - 1 - ls)
    BY <2>6
  <2>8. ASSUME NEW k \in 1 .. n + m - 1 PROVE h[w[k]] = k
    <3>1. PICK e : e = w[k]
      OBVIOUS
    <3>2. CASE k < place
      <4>1. e = k /\ e \in 1 .. n + m
        BY <1>3, <2>1, <2>4, <3>1, <3>2
      <4> QED BY <2>7, <3>1, <3>2, <4>1
    <3>3. CASE k = place
      <4>1. e = n + 1
        BY <1>3, <2>4, <3>1, <3>3
      <4>2. e \in 1 .. n + m /\ ~ (e < place) /\ ~ (e <= n)
        BY <1>3, <2>1, <4>1
      <4> QED BY <2>7, <3>1, <3>3, <4>1, <4>2
    <3>4. CASE k > place /\ k < place + (m - ls)
      <4>1. e = n + 1 + ls + (k - place)
        BY <1>3, <2>4, <3>1, <3>4
      <4>2. /\ e \in 1 .. n + m /\ ~ (e < place) /\ ~ (e <= n) /\ e # n + 1 /\ ~ (e <= n + 1 + ls)
            /\ place + (e - n - 1 - ls) = k
        BY <1>3, <2>1, <3>4, <4>1
      <4> QED BY <2>7, <3>1, <4>2
    <3>5. CASE k >= place + (m - ls) /\ k < n + (m - ls)
      <4>1. e = k - (m - ls) + 1
        BY <1>3, <2>1, <2>4, <3>1, <3>5
      <4>2. e \in 1 .. n + m /\ ~ (e < place) /\ e <= n /\ e + (m - ls) - 1 = k
        BY <1>3, <2>1, <3>5, <4>1
      <4> QED BY <2>7, <3>1, <4>2
    <3>6. CASE k >= n + (m - ls)
      <4>1. e = k - (m - ls) + 2
        BY <1>3, <2>1, <2>4, <3>1, <3>6
      <4>2. /\ e \in 1 .. n + m /\ ~ (e < place) /\ ~ (e <= n) /\ e # n + 1 /\ e <= n + 1 + ls
            /\ e + (m - ls) - 2 = k
        BY <1>3, <2>1, <3>6, <4>1
      <4> QED BY <2>7, <3>1, <4>2
    <3> QED BY <1>3, <2>1, <3>2, <3>3, <3>4, <3>5, <3>6
  <2>9. ASSUME NEW e \in 1 .. n + m, e # place PROVE h[e] \in 1 .. n + m - 1 /\ w[h[e]] = e
    <3>1. PICK k : k = h[e]
      OBVIOUS
    <3>2. CASE e < place
      <4>1. k = e /\ k \in 1 .. n + m - 1
        BY <1>3, <2>1, <2>7, <3>1, <3>2
      <4> QED BY <2>4, <3>1, <3>2, <4>1
    <3>3. CASE e > place /\ e <= n
      <4>1. k = e + (m - ls) - 1
        BY <1>3, <2>7, <3>1, <3>3
      <4>2. /\ k \in 1 .. n + m - 1 /\ ~ (k < place) /\ k # place /\ ~ (k < place + (m - ls))
            /\ k < n + (m - ls) /\ k - (m - ls) + 1 = e
        BY <1>3, <2>1, <3>3, <4>1
      <4> QED BY <2>4, <3>1, <4>2
    <3>4. CASE e = n + 1
      <4>1. k = place
        BY <1>3, <2>7, <3>1, <3>4
      <4>2. k \in 1 .. n + m - 1 /\ ~ (k < place)
        BY <1>3, <2>1, <4>1
      <4> QED BY <2>4, <3>1, <3>4, <4>1, <4>2
    <3>5. CASE e > n + 1 /\ e <= n + 1 + ls
      <4>1. k = e + (m - ls) - 2
        BY <1>3, <2>1, <2>7, <3>1, <3>5
      <4>2. /\ k \in 1 .. n + m - 1 /\ ~ (k < place) /\ k # place /\ ~ (k < place + (m - ls))
            /\ ~ (k < n + (m - ls)) /\ k - (m - ls) + 2 = e
        BY <1>3, <2>1, <3>5, <4>1
      <4> QED BY <2>4, <3>1, <4>2
    <3>6. CASE e > n + 1 + ls
      <4>1. k = place + (e - n - 1 - ls)
        BY <1>3, <2>1, <2>7, <3>1, <3>6
      <4>2. /\ k \in 1 .. n + m - 1 /\ ~ (k < place) /\ k # place /\ k < place + (m - ls)
            /\ n + 1 + ls + (k - place) = e
        BY <1>3, <2>1, <3>6, <4>1
      <4> QED BY <2>4, <3>1, <4>2
    <3> QED BY <1>3, <2>1, <2>9, <3>2, <3>3, <3>4, <3>5, <3>6
  <2>10. \A e \in 1 .. n + m : e \in Gone \/ (h[e] \in DOMAIN w /\ w[h[e]] = e)
    BY <1>10, <2>5, <2>9 DEF Gone
  <2>11. \A k \in DOMAIN w : h[w[k]] = k
    BY <2>5, <2>8
  <2> QED BY <1>2, <1>3, <2>10, <2>11, HasByPlace
<1>11. CASE /\ op = "replaceWithList"
            /\ oldSrc = <<>> /\ src = <<>> /\ Len(list) = Len(old) - 1
            /\ \A k \in 1 .. Len(list) : list[k] = IF k < place THEN k ELSE k + 1
  <2>1. m = 0 /\ ls = 0 /\ ll = n - 1
    BY <1>2, <1>11, EmptySeq
  <2>2. DOMAIN w = 1 .. n - 1
    BY <1>3, <1>5, <2>1
  <2>3. ASSUME NEW k \in 1 .. n - 1 PROVE w[k] = IF k < place THEN k ELSE k + 1
    <3>1. k \in 1 .. ll + ls /\ k <= ll /\ k \in 1 .. Len(list)
      BY <1>2, <1>3, <2>1
    <3> QED BY <1>6, <1>11, <3>1
  <2>4. PICK h : h = [e \in 1 .. n + m |-> IF e < place THEN e ELSE e - 1]
    OBVIOUS
  <2>5. \A e \in 1 .. n : h[e] = IF e < place THEN e ELSE e - 1
    BY <1>3, <2>1, <2>4
  <2>6. ASSUME NEW k \in 1 .. n - 1 PROVE h[w[k]] = k
    <3>1. CASE k < place
      <4>1. w[k] = k /\ k \in 1 .. n
        BY <1>3, <2>3, <3>1
      <4> QED BY <2>5, <3>1, <4>1
    <3>2. CASE k >= place
      <4>1. PICK e : e = k + 1
        OBVIOUS
      <4>2. w[k] = e /\ e \in 1 .. n /\ ~ (e < place) /\ e - 1 = k
        BY <1>3, <2>3, <3>2, <4>1
      <4> QED BY <2>5, <4>2
    <3> QED BY <1>3, <3>1, <3>2
  <2>7. ASSUME NEW e \in 1 .. n, e # place PROVE h[e] \in 1 .. n - 1 /\ w[h[e]] = e
    <3>1. CASE e < place
      <4>1. h[e] = e /\ e \in 1 .. n - 1
        BY <1>3, <2>5, <3>1
      <4> QED BY <2>3, <3>1, <4>1
    <3>2. CASE e > place
      <4>1. PICK k : k = e - 1
        OBVIOUS
      <4>2. h[e] = k /\ k \in 1 .. n - 1 /\ ~ (k < place) /\ k + 1 = e
        BY <1>3, <2>5, <3>2, <4>1
      <4> QED BY <2>3, <4>2
    <3> QED BY <1>3, <2>7, <3>1, <3>2
  <2>8. \A e \in 1 .. n : e \in Gone \/ (h[e] \in DOMAIN w /\ w[h[e]] = e)
    BY <1>11, <2>2, <2>7 DEF Gone
  <2>9. n + m = n /\ \A k \in DOMAIN w : h[w[k]] = k
    BY <1>3, <2>1, <2>2, <2>6
  <2> QED BY <1>2, <1>3, <2>8, <2>9, HasByPlace
<1>12. CASE op = "replaceWithList"
  BY <1>9, <1>10, <1>11, <1>12 DEF LoopInv, ReplaceInv
<1> QED BY <1>7, <1>8, <1>12 DEF Splices

LEMMA NoneLost == LoopInv => NothingLost
<1> SUFFICES ASSUME LoopInv, op \in Splices PROVE NothingLost
  BY DEF NothingLost
<1>1. Has(list \o src)
  BY AllThere
<1>2. IsInjective(list \o src)
  BY <1>1 DEF Has, IsInjective
<1>3. ToSet(old \o oldSrc) \subseteq 1 .. Len(old) + Len(oldSrc)
  BY BeforeAre DEF LoopInv
<1>4. ToSet(old \o oldSrc) \ ToSet(list \o src) \subseteq Gone
  <2> SUFFICES ASSUME NEW e \in ToSet(old \o oldSrc), e \notin Gone PROVE e \in ToSet(list \o src)
    OBVIOUS
  <2>1. PICK k \in DOMAIN (list \o src) : (list \o src)[k] = e
    BY <1>1, <1>3 DEF Has
  <2> QED BY <2>1 DEF ToSet
<1> QED BY <1>2, <1>4 DEF NothingLost, Gone

-----------------------------------------------------------------------------
LEMMA FirstsStay == LoopInv => FirstsKept
<1> SUFFICES ASSUME LoopInv, status = "done", op = "remove_dopplegangers" PROVE FirstsKept
  BY DEF FirstsKept
<1>1. /\ list \in Seq(Nat) /\ old \in Seq(Nat) /\ Len(list) \in Nat /\ Len(old) \in Nat /\ i \in Nat
      /\ DOMAIN list = 1 .. Len(list) /\ DOMAIN old = 1 .. Len(old)
  BY LenProperties DEF LoopInv, Inputs, Working
<1>2. \A k \in 1 .. Len(old) : old[k] = k
  BY DEF LoopInv, Inputs
<1>3. i > Len(list)
  BY DEF LoopInv, DoppleInv
<1>4. \A p \in 1 .. Len(list) : list[p] \in 1 .. Len(old)
  BY DEF LoopInv, DoppleInv
<1>5. \A p, q \in 1 .. Len(list) : p < q => list[p] < list[q]
  BY DEF LoopInv, DoppleInv
<1>6. \A p, q \in 1 .. Len(list) : p < q => class[list[p]] # class[list[q]]
  <2>1. \A p, q \in 1 .. Len(list) :
           p < q /\ (p < i \/ (p = i /\ q < j)) => class[list[p]] # class[list[q]]
    BY DEF LoopInv, DoppleInv
  <2>2. \A p \in 1 .. Len(list) : p < i
    BY <1>1, <1>3
  <2> QED BY <2>1, <2>2
<1>7. \A e \in 1 .. Len(old) :
         (\E p \in 1 .. Len(list) : list[p] = e)
         \/ \E p \in 1 .. Len(list) : p <= i /\ list[p] < e /\ class[list[p]] = class[e]
  BY DEF LoopInv, DoppleInv
<1>8. ToSet(old) = 1 .. Len(old) /\ ToSet(list) = {list[p] : p \in 1 .. Len(list)}
  BY <1>1, <1>2 DEF ToSet
\* what is kept has no equal before it
<1>9. ASSUME NEW p \in 1 .. Len(list), NEW f \in 1 .. list[p] - 1
      PROVE  class[f] # class[list[p]]
  <2>1. f \in 1 .. Len(old) /\ f < list[p] /\ list[p] \in Nat
    BY <1>1, <1>4
  <2>2. \A q \in 1 .. Len(list) : list[q] < list[p] => class[list[q]] # class[list[p]]
    <3> SUFFICES ASSUME NEW q \in 1 .. Len(list), list[q] < list[p]
                 PROVE  class[list[q]] # class[list[p]]
      OBVIOUS
    <3>1. list[q] \in Nat
      BY <1>1, <1>4
    <3>2. q < p
      BY <1>5, <2>1, <3>1
    <3> QED BY <1>6, <3>2
  <2>3. CASE \E q \in 1 .. Len(list) : list[q] = f
    BY <2>1, <2>2, <2>3
  <2>4. CASE \E q \in 1 .. Len(list) : q <= i /\ list[q] < f /\ class[list[q]] = class[f]
    <3>1. PICK q \in 1 .. Len(list) : list[q] < f /\ class[list[q]] = class[f]
      BY <2>4
    <3>2. list[q] < list[p]
      BY <1>1, <1>4, <2>1, <3>1
    <3> QED BY <2>2, <3>1, <3>2
  <2> QED BY <1>7, <2>1, <2>3, <2>4
\* what has no equal before it is kept
<1>10. ASSUME NEW e \in 1 .. Len(old), \A f \in 1 .. e - 1 : class[f] # class[e]
       PROVE  \E p \in 1 .. Len(list) : list[p] = e
  <2>1. CASE \E p \in 1 .. Len(list) : p <= i /\ list[p] < e /\ class[list[p]] = class[e]
    <3>1. PICK p \in 1 .. Len(list) : list[p] < e /\ class[list[p]] = class[e]
      BY <2>1
    <3>2. list[p] \in 1 .. e - 1
      BY <1>1, <1>4, <3>1
    <3> QED BY <1>10, <3>1, <3>2
  <2> QED BY <1>7, <2>1
<1>11. ToSet(list) = {e \in ToSet(old) : \A f \in 1 .. e - 1 : class[f] # class[e]}
  <2>1. ASSUME NEW e \in ToSet(list)
        PROVE  e \in 1 .. Len(old) /\ \A f \in 1 .. e - 1 : class[f] # class[e]
    <3>1. PICK p \in 1 .. Len(list) : e = list[p]
      BY <1>8
    <3> QED BY <1>4, <1>9, <3>1
  <2>2. ASSUME NEW e \in 1 .. Len(old), \A f \in 1 .. e - 1 : class[f] # class[e]
        PROVE  e \in ToSet(list)
    BY <1>8, <1>10, <2>2
  <2> QED BY <1>8, <2>1, <2>2
<1> QED BY <1>5, <1>11 DEF FirstsKept

\* A list spliced into another, or put in its place, ends up whole, in order and where
\* it was asked to go, and loses nothing on the way; remove_dopplegangers keeps the
\* first element of every class; removeSubTree takes out the one element it is asked
\* for: for lists of any lengths and any classes of equal elements.
THEOREM ListLoopsExact == Spec => []LoopsExact
<1>1. LoopInv => SubTreeRemoved
  BY DEF LoopInv, SubTreeInv, SubTreeRemoved
<1>2. LoopInv => LoopsExact
  BY <1>1, NoneLost, SplicedWell, FirstsStay DEF LoopsExact
<1> QED BY <1>2, LoopHolds, PTL
=============================================================================
