--------------------- MODULE GenerateExpansion_proofs ---------------------
(***************************************************************************)
(* Proofs about the expansion of generates (GenerateExpansion), for every  *)
(* design: that the object tree stays a tree, that no copy meets another,  *)
(* that fresh names are unique and moved declarations do not get a name    *)
(* that another has, and that the iterations the visitor counts are those  *)
(* of the loop.                                                            *)
(*                                                                         *)
(* First what trees and lists are, then one lemma for each action, that it *)
(* keeps the inductive invariant GenerateInv and names apart (ApartStep),  *)
(* then the theorems, and last the arithmetic of iterations.               *)
(***************************************************************************)
EXTENDS GenerateExpansion, WellFoundedInduction, SequenceTheorems, TLAPS

\* A node: an object of the design, with the index of each copy it is in.
Object == [of : DOMAIN Kind, at : Seq(Int)]
NameType == Seq(Root \cup Int)

\* The nodes but for references, and those of them that are o or below it.
Solid == DOMAIN lists
Under(o) == Below(o) \cap Solid

\* Every node is an object, and has lists unless it is a reference.
NodesTyped == \A o \in Nodes : o \in Object /\ o # NoObject /\ (o \in Solid <=> KindOf(o) # "Reference")

\* A parent has lists, and is less deep than what it holds: nothing is below itself.
UpTyped == \A o \in DOMAIN up : up[o] \in Solid /\ Level[up[o].of] < Level[o.of]

\* x is once in list.
Once(list, x) == \A j, k \in DOMAIN list : list[j] = x /\ list[k] = x => j = k

\* x may be in list l of s.
Fits(x, s, l) ==
    /\ KindOf(x) \in ContentOf[KindOf(s)][l] /\ Level[s.of] < Level[x.of]
    /\ KindOf(x) # "Reference" => x \in Solid \cap DOMAIN up /\ up[x] = s

\* The lists of a node are those of its class; what is in them is what may be there, hangs
\* from the node, and is there once.
ListsTyped ==
    \A s \in Solid :
        /\ KindOf(s) \in DOMAIN ContentOf /\ DOMAIN lists[s] = DOMAIN ContentOf[KindOf(s)]
        /\ \A l \in DOMAIN lists[s] :
              /\ lists[s][l] \in Seq(Object)
              /\ \A x \in ToSet(lists[s][l]) :
                    Fits(x, s, l) /\ (KindOf(x) # "Reference" => Once(lists[s][l], x))

\* Nothing but a reference is in two lists of a node.
InOneList ==
    \A s \in Solid : \A l, m \in DOMAIN lists[s] :
        l # m => \A x \in ToSet(lists[s][l]) \cap ToSet(lists[s][m]) : KindOf(x) = "Reference"

\* What hangs from a node is in one of its lists, but for contents and values.
Placed ==
    \A o \in DOMAIN up : KindOf(o) \notin {"Contents", "Reference"} =>
        \E l \in DOMAIN lists[up[o]] : o \in ToSet(lists[up[o]][l])

\* The object tree.
Structure == NodesTyped /\ UpTyped /\ ListsTyped /\ InOneList /\ Placed

\* Declarations have names, nothing else has.
NamesTyped ==
    /\ DOMAIN nameOf = Solid
    /\ \A o \in Solid : IF KindOf(o) \in DeclarationKinds THEN nameOf[o] \in NameType ELSE nameOf[o] = Nameless

\* The contents stay in the tree, and loops and generates, copies too, have their headers.
DesignTyped ==
    /\ design.contents \in Solid /\ KindOf(design.contents) = "Contents"
    /\ KindOf(System) = "View"
    /\ \A o \in Solid : KindOf(o) \in {"ForGenerate", "IfGenerate", "For"} => o.of \in DOMAIN design.header
    /\ \A n \in DOMAIN design.header : design.header[n] \in HeaderType

\* Where the generate of frame k is.
Base(k) == IF k = 1 THEN design.contents ELSE work[k - 1].copy

GenerateKinds == {"ForGenerate", "IfGenerate"}

\* What a frame holds.
BoundsType == [resolved : BOOLEAN, loops : Int, min : Int, max : Int, step : Int]
FrameType == [gen : Object, copy : Object \cup {NoObject}, next : Int, bounds : BoundsType]

\* A frame of a generate of scope base: the generate stands there, or its copy does.
FrameIs(frame, base) ==
    /\ frame.gen \in visited \cap Solid /\ KindOf(frame.gen) \in GenerateKinds
    /\ KindOf(frame.gen) = "ForGenerate" => frame.bounds.step > 0
    /\ frame.copy = NoObject =>
          KindOf(frame.gen) = "ForGenerate" /\ frame.gen \in DOMAIN up /\ up[frame.gen] = base
    /\ frame.copy # NoObject =>
          /\ frame.copy \in Solid \cap DOMAIN up /\ up[frame.copy] = base /\ frame.copy.of = frame.gen.of
          /\ frame.copy = frame.gen <=> KindOf(frame.gen) = "IfGenerate"
          /\ frame.copy # frame.gen => frame.gen \notin DOMAIN up

Framed(k) == FrameIs(work[k], Base(k))

\* The stack of generates that are being expanded: each stands in the copy that the one
\* before is making, deeper than it, and only the last may be without a copy.
Frames ==
    /\ work \in Seq(FrameType)
    /\ \A k \in 1 .. Len(work) :
          /\ Framed(k) /\ (work[k].copy = NoObject => k = Len(work))
          /\ Level[design.contents.of] < Level[work[k].gen.of]
    /\ \A j, k \in 1 .. Len(work) : j < k => Level[work[j].gen.of] < Level[work[k].gen.of]

\* The copies that are being made, the scopes that the visitor is in, and the generates that
\* may still be copied: those not visited, and those that are being expanded.
CopiesOpen == {work[k].copy : k \in 1 .. Len(work)}
OpenScopes == ({design.contents} \cup CopiesOpen) \ {NoObject}
Roots == (UNION {Generates(s) : s \in OpenScopes}) \ CopiesOpen
Heads == Roots \cup {g \in {work[k].gen : k \in 1 .. Len(work)} : KindOf(g) = "ForGenerate"}

\* Generates that may still be copied are not inside each other, and the visitor is in none
\* of them: what one copies, another does not.
HeadsApart == \A a, b \in Heads : \A x \in Under(a) \cap Under(b) : a = b
OpenOutside == \A a \in Heads : \A s \in OpenScopes : s \notin Under(a)

\* Node x is in a further copy of what o is in; generate a has been copied at i; and only
\* then are there copies, at i, of what is in a: a new copy never meets an earlier one.
Ext(x, o) == x.of = o.of /\ Len(x.at) > Len(o.at) /\ \A m \in 1 .. Len(o.at) : x.at[m] = o.at[m]
Reached(a, i) == \E k \in 1 .. Len(work) : work[k].gen = a /\ (i < work[k].next \/ (i = work[k].next /\ work[k].copy # NoObject))
CopiesFresh == \A a \in Heads : \A o \in Under(a), x \in Solid : Ext(x, o) => Reached(a, x.at[Len(o.at) + 1])

\* Until something is visited nothing is copied, and names that conflict with the unit are
\* changed before that.
Phases == visited = {} => work = <<>> /\ \A o \in Solid : o.at = <<>>
Renames == renaming => visited = {} /\ state = "visiting"

\* Fresh names are in the table.
Registered ==
    /\ renamed \subseteq DOMAIN nameOf
    /\ \A d \in renamed : nameOf[d] \in table /\ KindOf(d) \in DeclarationKinds

\* The inductive invariant, while the visitor runs, and always.
Inv == Structure /\ NamesTyped /\ DesignTyped /\ Frames /\ HeadsApart /\ OpenOutside /\ CopiesFresh /\ Phases

GenerateInv == (state = "visiting" => Inv) /\ Renames /\ Registered /\ FreshNamesDiffer /\ passes \in Nat

-----------------------------------------------------------------------------

\* A set of numbers has a least one.
LEMMA LeastNat ==
    ASSUME NEW T \in SUBSET Nat, T # {}
    PROVE  \E x \in T : \A y \in T : x <= y
<1> DEFINE R == OpToRel(<, Nat)
<1>1. IsWellFoundedOn(R, Nat)
  BY NatLessThanWellFounded
<1> HIDE DEF R
<1>2. PICK x \in T : \A y \in T : ~ (<<y, x>> \in R)
  BY <1>1, WFMin
<1>3. \A y \in T : ~ (y < x)
  BY <1>2, Zenon DEF R, OpToRel
<1> QED BY <1>3

\* The recursion over parents has a solution, the one that it chooses.
LEMMA BelowFixed ==
    ASSUME NEW N, NEW D, NEW u, NEW o, \A x \in D : u[x] \in N, D \subseteq N,
           NEW below, below = CHOOSE f : f = [x \in N |-> x = o \/ (x \in D /\ f[u[x]])]
    PROVE  below = [x \in N |-> x = o \/ (x \in D /\ below[u[x]])]
<1> DEFINE Closed(S) == S \subseteq N /\ (o \in N => o \in S) /\ \A x \in D : u[x] \in S => x \in S
           f == [x \in N |-> \A S : Closed(S) => x \in S]
           g == [x \in N |-> x = o \/ (x \in D /\ f[u[x]])]
           F == {x \in N : f[x]}
           G == {x \in N : g[x]}
<1>1. Closed(F)
  OBVIOUS
<1>2. Closed(G)
  <2>1. \A x \in D : u[x] \in G => f[u[x]]
    BY <1>1
  <2> QED BY <2>1
<1>3. \A x \in N : f[x] = g[x]
  BY <1>1, <1>2
<1>4. f = g
  BY <1>3
<1> QED BY <1>4

\* What is below o is o, and what hangs from something below o.
BelowIs(o) == Below(o) = {x \in Nodes : x = o \/ (x \in DOMAIN up /\ up[x] \in Below(o))}

\* So Below is what its recursion says.
LEMMA BelowStep ==
    ASSUME UpTyped
    PROVE  \A o : BelowIs(o)
<1> TAKE o
<1> DEFINE below == CHOOSE f : f = [x \in Nodes |-> x = o \/ (x \in DOMAIN up /\ f[up[x]])]
<1>1. Below(o) = {x \in Nodes : below[x]}
  BY DEF Below
<1>2. \A x \in DOMAIN up : up[x] \in Nodes
  BY DEF UpTyped, Nodes, Solid
<1>3. below = [x \in Nodes |-> x = o \/ (x \in DOMAIN up /\ below[up[x]])]
  BY BelowFixed, <1>2 DEF Nodes
<1> HIDE DEF below
<1> QED BY <1>1, <1>2, <1>3 DEF BelowIs

-----------------------------------------------------------------------------
(* What is under a node, for any parents u of nodes D that get deeper going down. *)

\* What hangs is deeper, and S is g with all that hangs from it, in the tree u of the nodes D.
Deepens(u, D) ==
    \A x \in D : Level[x.of] \in Nat /\ (x \in DOMAIN u => u[x] \in D /\ Level[u[x].of] < Level[x.of])

IsUnder(S, g, u, D) == S \subseteq D /\ \A x \in D : x \in S <=> (x = g \/ (x \in DOMAIN u /\ u[x] \in S))

\* A set of nodes has one whose parent is not in it.
LEMMA Highest ==
    ASSUME NEW S, NEW u, NEW D, Deepens(u, D), S \subseteq D, S # {}
    PROVE  \E x \in S : x \in DOMAIN u => u[x] \notin S
<1> DEFINE T == {Level[x.of] : x \in S}
<1>1. T \in SUBSET Nat /\ T # {}
  BY DEF Deepens
<1>2. PICK n \in T : \A m \in T : n <= m
  BY <1>1, LeastNat
<1>3. PICK x \in S : n = Level[x.of]
  BY <1>2
<1>4. ASSUME x \in DOMAIN u, u[x] \in S PROVE FALSE
  <2>1. Level[u[x].of] \in T /\ Level[u[x].of] < n /\ Level[u[x].of] \in Nat /\ n \in Nat
    BY <1>3, <1>4 DEF Deepens
  <2> HIDE DEF T
  <2> QED BY <2>1, <1>2
<1> QED BY <1>3, <1>4

\* There is one set of what is under a node.
LEMMA UnderUnique ==
    ASSUME NEW u, NEW D, Deepens(u, D), NEW g, NEW S, NEW T, IsUnder(S, g, u, D), IsUnder(T, g, u, D)
    PROVE  S = T
<1> DEFINE R == (S \ T) \cup (T \ S)
<1>1. SUFFICES ASSUME R # {} PROVE FALSE
  OBVIOUS
<1>2. R \subseteq D
  BY DEF IsUnder
<1>3. PICK x \in R : x \in DOMAIN u => u[x] \notin R
  BY <1>1, <1>2, Highest
<1> QED BY <1>2, <1>3 DEF IsUnder

\* It holds the node, and nothing less deep.
LEMMA UnderLevel ==
    ASSUME NEW u, NEW D, Deepens(u, D), NEW g, NEW S, IsUnder(S, g, u, D), NEW x \in S
    PROVE  g \in S /\ Level[g.of] <= Level[x.of]
<1> DEFINE R == {y \in S : ~(g \in S /\ Level[g.of] <= Level[y.of])}
<1>1. SUFFICES ASSUME R # {} PROVE FALSE
  OBVIOUS
<1>2. R \subseteq D
  BY DEF IsUnder
<1>3. PICK y \in R : y \in DOMAIN u => u[y] \notin R
  BY <1>1, <1>2, Highest
<1>4. y # g
  BY <1>2 DEF Deepens
<1>5. y \in DOMAIN u /\ u[y] \in S /\ Level[u[y].of] < Level[y.of] /\ u[y] \in D
  BY <1>2, <1>4 DEF IsUnder, Deepens
<1>6. g \in S /\ Level[g.of] <= Level[u[y].of]
  BY <1>3, <1>5
<1> QED BY <1>2, <1>5, <1>6 DEF Deepens, IsUnder

\* Two nodes that have something under both are under one another.
LEMMA UnderComparable ==
    ASSUME NEW u, NEW D, Deepens(u, D), NEW a, NEW b, NEW S, NEW T, IsUnder(S, a, u, D), IsUnder(T, b, u, D),
           S \cap T # {}
    PROVE  a \in T \/ b \in S
<1>1. S \cap T \subseteq D
  BY DEF IsUnder
<1>2. PICK x \in S \cap T : x \in DOMAIN u => u[x] \notin S \cap T
  BY <1>1, Highest
<1> QED BY <1>1, <1>2 DEF IsUnder

\* What is under a node that is under another is under that one too.
LEMMA UnderIncluded ==
    ASSUME NEW u, NEW D, Deepens(u, D), NEW a, NEW b, NEW S, NEW T, IsUnder(S, a, u, D), IsUnder(T, b, u, D),
           b \in S
    PROVE  T \subseteq S
<1> DEFINE R == T \ S
<1>1. SUFFICES ASSUME R # {} PROVE FALSE
  OBVIOUS
<1>2. R \subseteq D
  BY DEF IsUnder
<1>3. PICK x \in R : x \in DOMAIN u => u[x] \notin R
  BY <1>1, <1>2, Highest
<1> QED BY <1>2, <1>3 DEF IsUnder

\* Nothing is under two nodes that hang from one parent.
LEMMA SiblingsApart ==
    ASSUME NEW u, NEW D, Deepens(u, D), NEW a \in D \cap DOMAIN u, NEW b \in D \cap DOMAIN u, a # b, u[a] = u[b],
           NEW S, NEW T, IsUnder(S, a, u, D), IsUnder(T, b, u, D)
    PROVE  S \cap T = {}
<1>1. ASSUME NEW c \in D \cap DOMAIN u, NEW e \in D \cap DOMAIN u, c # e, u[c] = u[e],
             NEW R, IsUnder(R, e, u, D), c \in R
      PROVE  FALSE
  <2>1. u[e] \in R
    BY <1>1 DEF IsUnder
  <2>2. Level[e.of] <= Level[u[e].of]
    BY <2>1, <1>1, UnderLevel
  <2> QED BY <2>2, <1>1 DEF Deepens
<1>2. a \notin T
  BY <1>1
<1>3. b \notin S
  BY <1>1
<1> QED BY <1>2, <1>3, UnderComparable

-----------------------------------------------------------------------------
(* Lists. *)

\* A concatenation, element by element.
LEMMA ConcatIs ==
    ASSUME NEW T, NEW a \in Seq(T), NEW b \in Seq(T), NEW c, c = a \o b
    PROVE  /\ c \in Seq(T) /\ Len(c) = Len(a) + Len(b)
           /\ \A k \in 1 .. Len(c) : c[k] = IF k <= Len(a) THEN a[k] ELSE b[k - Len(a)]
BY ConcatProperties

\* A part of a sequence, element by element.
LEMMA PartIs ==
    ASSUME NEW T, NEW s \in Seq(T), NEW f \in Nat \ {0}, NEW t \in Nat, f <= t + 1, t <= Len(s),
           NEW c, c = SubSeq(s, f, t)
    PROVE  /\ c \in Seq(T) /\ Len(c) = t + 1 - f
           /\ \A k \in 1 .. Len(c) : c[k] = s[f + k - 1]
<1>1. Len(s) \in Nat
  BY LenProperties
<1>2. \A k \in f .. t : s[k] \in T
  <2> SUFFICES ASSUME NEW k \in f .. t PROVE s[k] \in T
    OBVIOUS
  <2>1. k \in 1 .. Len(s)
    BY <1>1
  <2> QED BY <2>1, ElementOfSeq
<1>3. /\ c \in Seq(T) /\ Len(c) = IF f <= t THEN t - f + 1 ELSE 0
      /\ \A k \in 1 .. t - f + 1 : c[k] = s[f + k - 1]
  BY <1>2, SubSeqProperties
<1>4. Len(c) = t + 1 - f
  BY <1>3
<1> QED BY <1>3, <1>4

\* RemoveAt moves what stands after the place one back.
LEMMA RemoveAtIs ==
    ASSUME NEW T, NEW s \in Seq(T), NEW p \in 1 .. Len(s)
    PROVE  /\ RemoveAt(s, p) \in Seq(T) /\ Len(RemoveAt(s, p)) = Len(s) - 1
           /\ \A k \in 1 .. Len(s) - 1 : RemoveAt(s, p)[k] = IF k < p THEN s[k] ELSE s[k + 1]
<1>1. PICK a : a = SubSeq(s, 1, p - 1)
  OBVIOUS
<1>2. PICK c : c = SubSeq(s, p + 1, Len(s))
  OBVIOUS
<1>3. PICK r : r = a \o c
  OBVIOUS
<1>4. /\ Len(s) \in Nat /\ p \in Nat \ {0} /\ p - 1 \in Nat /\ p <= Len(s)
      /\ p + 1 \in Nat \ {0} /\ p + 1 <= Len(s) + 1
  BY LenProperties
<1>5. a \in Seq(T) /\ Len(a) = p - 1 /\ \A k \in 1 .. p - 1 : a[k] = s[k]
  <2>1. /\ a \in Seq(T) /\ Len(a) = (p - 1) + 1 - 1
        /\ \A k \in 1 .. Len(a) : a[k] = s[1 + k - 1]
    BY <1>1, <1>4, PartIs
  <2> QED BY <1>4, <2>1
<1>6. /\ c \in Seq(T) /\ Len(c) = Len(s) + 1 - (p + 1)
      /\ \A k \in 1 .. Len(c) : c[k] = s[(p + 1) + k - 1]
  BY <1>2, <1>4, PartIs
<1>7. /\ r \in Seq(T) /\ Len(r) = Len(a) + Len(c)
      /\ \A k \in 1 .. Len(r) : r[k] = IF k <= Len(a) THEN a[k] ELSE c[k - Len(a)]
  <2>1. a \in Seq(T) /\ c \in Seq(T)
    BY <1>5, <1>6
  <2> QED BY <1>3, <2>1, ConcatIs
<1>8. Len(r) = Len(s) - 1
  BY <1>4, <1>5, <1>6, <1>7
<1>9. ASSUME NEW k \in 1 .. Len(s) - 1 PROVE r[k] = IF k < p THEN s[k] ELSE s[k + 1]
  <2>1. CASE k < p
    <3>1. k \in 1 .. Len(r) /\ k \in 1 .. p - 1 /\ k <= Len(a)
      BY <1>4, <1>5, <1>8, <2>1
    <3> QED BY <1>5, <1>7, <2>1, <3>1
  <2>2. CASE k >= p
    <3>1. /\ r[k] = c[k - (p - 1)] /\ k - (p - 1) \in 1 .. Len(c)
          /\ (p + 1) + (k - (p - 1)) - 1 = k + 1
      BY <1>4, <1>5, <1>6, <1>7, <1>8, <2>2
    <3> QED BY <1>4, <1>6, <2>2, <3>1
  <2> QED BY <1>4, <2>1, <2>2
<1>10. RemoveAt(s, p) = r
  BY <1>1, <1>2, <1>3 DEF RemoveAt
<1> QED BY <1>7, <1>8, <1>9, <1>10

\* What is taken out of a list.
LEMMA Removed ==
    ASSUME NEW T, NEW s \in Seq(T), NEW o \in ToSet(s), NEW c, c = RemoveAt(s, PlaceIn(s, o))
    PROVE  /\ c \in Seq(T) /\ ToSet(c) \subseteq ToSet(s) /\ ToSet(s) \ {o} \subseteq ToSet(c)
           /\ \A x : Once(s, x) => Once(c, x)
           /\ Once(s, o) => o \notin ToSet(c)
<1>1. Len(s) \in Nat /\ DOMAIN s = 1 .. Len(s)
  BY LenProperties
<1>2. PICK p : p = PlaceIn(s, o)
  OBVIOUS
<1>3. p \in 1 .. Len(s) /\ s[p] = o
  BY <1>1, <1>2 DEF PlaceIn, ToSet
<1>4. /\ c \in Seq(T) /\ Len(c) = Len(s) - 1
      /\ \A k \in 1 .. Len(s) - 1 : c[k] = IF k < p THEN s[k] ELSE s[k + 1]
  BY <1>2, <1>3, RemoveAtIs
<1>5. DOMAIN c = 1 .. Len(s) - 1
  BY <1>4, LenProperties
<1> DEFINE from(k) == IF k < p THEN k ELSE k + 1
<1>6. \A k \in DOMAIN c : from(k) \in DOMAIN s /\ c[k] = s[from(k)] /\ from(k) # p
  BY <1>1, <1>3, <1>4, <1>5
<1>7. \A j, k \in DOMAIN c : from(j) = from(k) => j = k
  BY <1>1, <1>3, <1>5
<1>8. \A j \in DOMAIN s : j # p => \E k \in DOMAIN c : from(k) = j
  <2> SUFFICES ASSUME NEW j \in DOMAIN s, j # p PROVE \E k \in DOMAIN c : from(k) = j
    OBVIOUS
  <2>1. CASE j < p
    <3>1. j \in DOMAIN c /\ from(j) = j
      BY <1>1, <1>3, <1>5, <2>1
    <3> QED BY <3>1
  <2>2. CASE j > p
    <3>1. j - 1 \in DOMAIN c /\ from(j - 1) = j
      BY <1>1, <1>3, <1>5, <2>2
    <3> QED BY <3>1
  <2> QED BY <1>1, <1>3, <2>1, <2>2
<1> HIDE DEF from
<1>9. ToSet(c) \subseteq ToSet(s)
  BY <1>6 DEF ToSet
<1>10. ToSet(s) \ {o} \subseteq ToSet(c)
  BY <1>3, <1>6, <1>8 DEF ToSet
<1>11. ASSUME NEW x, Once(s, x) PROVE Once(c, x)
  BY <1>6, <1>7, <1>11 DEF Once
<1>12. Once(s, o) => o \notin ToSet(c)
  BY <1>1, <1>3, <1>6 DEF Once, ToSet
<1> QED BY <1>4, <1>9, <1>10, <1>11, <1>12

\* List c is list s with o behind it.
Appends(s, o, c) ==
    /\ ToSet(c) = ToSet(s) \cup {o}
    /\ \A x : x # o /\ Once(s, x) => Once(c, x)
    /\ o \notin ToSet(s) => Once(c, o)

\* What is put behind a list.
LEMMA Appended ==
    ASSUME NEW T, NEW s \in Seq(T), NEW o \in T, NEW c, c = Append(s, o)
    PROVE  c \in Seq(T) /\ Appends(s, o, c)
<1>1. Len(s) \in Nat /\ DOMAIN s = 1 .. Len(s)
  BY LenProperties
<1>2. c \in Seq(T) /\ Len(c) = Len(s) + 1 /\ c[Len(s) + 1] = o /\ \A k \in 1 .. Len(s) : c[k] = s[k]
  BY AppendProperties
<1>3. DOMAIN c = DOMAIN s \cup {Len(s) + 1} /\ Len(s) + 1 \notin DOMAIN s
  BY <1>1, <1>2, LenProperties
<1>4. ToSet(c) = ToSet(s) \cup {o}
  BY <1>1, <1>2, <1>3 DEF ToSet
<1>5. ASSUME NEW x, x # o, Once(s, x) PROVE Once(c, x)
  BY <1>1, <1>2, <1>3, <1>5 DEF Once
<1>6. o \notin ToSet(s) => Once(c, o)
  BY <1>1, <1>2, <1>3 DEF Once, ToSet
<1> QED BY <1>2, <1>4, <1>5, <1>6 DEF Appends

\* The solid nodes are a tree, and Under is what it says.
Tree == Deepens(up, Solid) /\ \A o : IsUnder(Under(o), o, up, Solid)

\* The nodes of the model are a tree.
LEMMA TreeUnder == NodesTyped /\ UpTyped => Tree
<1> SUFFICES ASSUME NodesTyped, UpTyped PROVE Tree
  OBVIOUS
<1>1. Deepens(up, Solid)
  <2> SUFFICES ASSUME NEW x \in Solid
               PROVE  Level[x.of] \in Nat /\ (x \in DOMAIN up => up[x] \in Solid /\ Level[up[x].of] < Level[x.of])
    BY DEF Deepens
  <2>1. x.of \in DOMAIN Kind
    BY DEF NodesTyped, Nodes, Solid, Object
  <2> QED BY <2>1, LevelAssumption DEF UpTyped
<1>2. ASSUME NEW o PROVE IsUnder(Under(o), o, up, Solid)
  <2>1. BelowIs(o)
    BY BelowStep
  <2>2. Solid \subseteq Nodes
    BY DEF Nodes, Solid
  <2> QED BY <2>1, <2>2 DEF BelowIs, IsUnder, Under, UpTyped
<1> QED BY <1>1, <1>2 DEF Tree

\* What is under a node is so too after a step in which nothing comes or goes there.
LEMMA UnderKept ==
    ASSUME Tree', NEW a, Under(a) \subseteq Solid',
           \A x \in Solid' : x \in Under(a) <=> (x = a \/ (x \in DOMAIN up' /\ up'[x] \in Under(a)))
    PROVE  Under(a)' = Under(a)
<1>1. IsUnder(Under(a), a, up', Solid')
  BY DEF IsUnder
<1>2. IsUnder(Under(a)', a, up', Solid') /\ Deepens(up', Solid')
  BY DEF Tree
<1> QED BY <1>1, <1>2, UnderUnique

\* What is under a node is a subtree.
LEMMA UnderStep ==
    ASSUME Tree, NEW a, NEW x \in Solid
    PROVE  /\ Under(a) \subseteq Solid
           /\ x \in Under(a) <=> (x = a \/ (x \in DOMAIN up /\ up[x] \in Under(a)))
BY DEF Tree, IsUnder

\* Kinds of nodes.
LEMMA KindsDiffer ==
    /\ DeclarationKinds \cap BaseContents = {} /\ "Reference" \notin DeclarationKinds \cup BaseContents
    /\ "For" \notin DeclarationKinds \cup BaseContents
BY DEF DeclarationKinds, BaseContents

-----------------------------------------------------------------------------
(* A move. *)

\* What a move does to the tree.
MovesNode(o, from, to, l, m) ==
    /\ from \in Solid /\ to \in Solid /\ from # to
    /\ l \in DOMAIN lists[from] /\ m \in DOMAIN lists[to] /\ o \in ToSet(lists[from][l])
    /\ KindOf(o) \in ContentOf[KindOf(to)][m] /\ Level[to.of] < Level[o.of]
    /\ ActualMove(o, from, to, l, m)

\* The lists and the parents after a move.
LEMMA MoveLists ==
    ASSUME Structure, NEW o, NEW from, NEW to, NEW l, NEW m, MovesNode(o, from, to, l, m)
    PROVE  /\ Solid' = Solid /\ DOMAIN up' = DOMAIN up /\ Nodes' = Nodes
           /\ \A s \in Solid : DOMAIN lists'[s] = DOMAIN lists[s]
           /\ \A s \in Solid : \A k \in DOMAIN lists[s] :
                 ~(s = from /\ k = l) /\ ~(s = to /\ k = m) => lists'[s][k] = lists[s][k]
           /\ lists'[from][l] = RemoveAt(lists[from][l], PlaceIn(lists[from][l], o))
           /\ lists'[to][m] = Append(lists[to][m], o)
           /\ \A x \in DOMAIN up : up'[x] = IF x = o THEN to ELSE up[x]
<1>1. \A s \in Solid : DOMAIN lists[s] = DOMAIN ContentOf[KindOf(s)]
  BY DEF Structure, ListsTyped
<1>2. up' = [up EXCEPT ![o] = to]
  BY DEF MovesNode, ActualMove
<1>3. lists' = [lists EXCEPT ![from][l] = RemoveAt(@, PlaceIn(@, o)), ![to][m] = Append(@, o)]
  BY DEF MovesNode, ActualMove
<1>4. from \in DOMAIN lists /\ to \in DOMAIN lists /\ from # to /\ l \in DOMAIN lists[from] /\ m \in DOMAIN lists[to]
  BY DEF MovesNode, Solid
<1> QED BY <1>2, <1>3, <1>4 DEF Solid, Nodes

\* A move keeps the tree (ActualMove, moveToScope.cpp).
LEMMA MoveStructure ==
    ASSUME Structure, NEW o, NEW from, NEW to, NEW l, NEW m, MovesNode(o, from, to, l, m)
    PROVE  Structure'
<1>1. /\ Solid' = Solid /\ DOMAIN up' = DOMAIN up /\ Nodes' = Nodes
      /\ \A s \in Solid : DOMAIN lists'[s] = DOMAIN lists[s]
      /\ \A s \in Solid : \A k \in DOMAIN lists[s] :
            ~(s = from /\ k = l) /\ ~(s = to /\ k = m) => lists'[s][k] = lists[s][k]
      /\ lists'[from][l] = RemoveAt(lists[from][l], PlaceIn(lists[from][l], o))
      /\ lists'[to][m] = Append(lists[to][m], o)
      /\ \A x \in DOMAIN up : up'[x] = IF x = o THEN to ELSE up[x]
  BY MoveLists
<1>2. /\ from \in Solid /\ to \in Solid /\ from # to
      /\ l \in DOMAIN lists[from] /\ m \in DOMAIN lists[to] /\ o \in ToSet(lists[from][l])
      /\ KindOf(o) \in ContentOf[KindOf(to)][m] /\ Level[to.of] < Level[o.of]
  BY DEF MovesNode
<1>3. lists[from][l] \in Seq(Object) /\ lists[to][m] \in Seq(Object) /\ o \in Object
  <2>1. lists[from][l] \in Seq(Object) /\ lists[to][m] \in Seq(Object)
    BY <1>2 DEF Structure, ListsTyped
  <2> QED BY <2>1, <1>2 DEF ToSet
<1>4. /\ lists'[from][l] \in Seq(Object) /\ ToSet(lists'[from][l]) \subseteq ToSet(lists[from][l])
      /\ ToSet(lists[from][l]) \ {o} \subseteq ToSet(lists'[from][l])
      /\ \A x : Once(lists[from][l], x) => Once(lists'[from][l], x)
      /\ Once(lists[from][l], o) => o \notin ToSet(lists'[from][l])
  BY <1>1, <1>2, <1>3, Removed
<1>5. /\ lists'[to][m] \in Seq(Object) /\ ToSet(lists'[to][m]) = ToSet(lists[to][m]) \cup {o}
      /\ \A x : x # o /\ Once(lists[to][m], x) => Once(lists'[to][m], x)
      /\ o \notin ToSet(lists[to][m]) => Once(lists'[to][m], o)
  <2>1. lists'[to][m] \in Seq(Object) /\ Appends(lists[to][m], o, lists'[to][m])
    BY <1>1, <1>3, Appended
  <2> QED BY <2>1 DEF Appends
<1>6. Fits(o, from, l) /\ (KindOf(o) # "Reference" => Once(lists[from][l], o))
  BY <1>2 DEF Structure, ListsTyped
<1>7. KindOf(o) # "Reference" => o \in Solid \cap DOMAIN up /\ up[o] = from /\ up'[o] = to
  BY <1>6, <1>1 DEF Fits
\* Where the moved node is.
<1>8. ASSUME NEW s \in Solid, NEW k \in DOMAIN lists[s], KindOf(o) # "Reference", o \in ToSet(lists'[s][k])
      PROVE  s = to /\ k = m
  <2>1. SUFFICES ASSUME ~(s = to /\ k = m) PROVE FALSE
    OBVIOUS
  <2>2. ~(s = from /\ k = l)
    BY <1>4, <1>6, <1>8
  <2>3. o \in ToSet(lists[s][k])
    BY <1>1, <1>8, <2>1, <2>2
  <2>4. Fits(o, s, k)
    BY <2>3 DEF Structure, ListsTyped
  <2>5. s = from
    BY <1>7, <1>8, <2>4 DEF Fits
  <2> QED BY <1>2, <1>8, <2>2, <2>3, <2>5 DEF Structure, InOneList
\* The others are where they were.
<1>9. ASSUME NEW s \in Solid, NEW k \in DOMAIN lists[s], NEW x \in ToSet(lists'[s][k]), ~(x = o /\ s = to /\ k = m)
      PROVE  x \in ToSet(lists[s][k]) /\ (Once(lists[s][k], x) /\ KindOf(x) # "Reference" => Once(lists'[s][k], x))
  <2>1. CASE s = from /\ k = l
    BY <1>4, <1>9, <2>1
  <2>2. CASE s = to /\ k = m
    BY <1>5, <1>9, <2>2
  <2>3. CASE ~(s = from /\ k = l) /\ ~(s = to /\ k = m)
    BY <1>1, <1>9, <2>3
  <2> QED BY <2>1, <2>2, <2>3
<1>10. ASSUME NEW s \in Solid, NEW k \in DOMAIN lists[s], NEW x \in ToSet(lists[s][k]), x # o
       PROVE  x \in ToSet(lists'[s][k])
  <2>1. CASE s = from /\ k = l
    BY <1>4, <1>10, <2>1
  <2>2. CASE s = to /\ k = m
    BY <1>5, <1>10, <2>2
  <2>3. CASE ~(s = from /\ k = l) /\ ~(s = to /\ k = m)
    BY <1>1, <1>10, <2>3
  <2> QED BY <2>1, <2>2, <2>3
<1>11. NodesTyped'
  BY <1>1 DEF Structure, NodesTyped
<1>12. UpTyped'
  BY <1>1, <1>2 DEF Structure, UpTyped
<1>13. ListsTyped'
  <2> SUFFICES ASSUME NEW s \in Solid
               PROVE  /\ KindOf(s) \in DOMAIN ContentOf /\ DOMAIN lists'[s] = DOMAIN ContentOf[KindOf(s)]
                      /\ \A k \in DOMAIN lists'[s] :
                            /\ lists'[s][k] \in Seq(Object)
                            /\ \A x \in ToSet(lists'[s][k]) :
                                  Fits(x, s, k)' /\ (KindOf(x) # "Reference" => Once(lists'[s][k], x))
    BY <1>1 DEF ListsTyped
  <2>1. KindOf(s) \in DOMAIN ContentOf /\ DOMAIN lists'[s] = DOMAIN ContentOf[KindOf(s)]
    BY <1>1 DEF Structure, ListsTyped
  <2>2. ASSUME NEW k \in DOMAIN lists[s] PROVE lists'[s][k] \in Seq(Object)
    <3>1. lists[s][k] \in Seq(Object)
      BY DEF Structure, ListsTyped
    <3> QED BY <3>1, <1>1, <1>4, <1>5
  <2>3. ASSUME NEW k \in DOMAIN lists[s], NEW x \in ToSet(lists'[s][k])
        PROVE  Fits(x, s, k)' /\ (KindOf(x) # "Reference" => Once(lists'[s][k], x))
    <3>1. CASE x = o /\ s = to /\ k = m
      <4>1. KindOf(o) # "Reference" => o \notin ToSet(lists[to][m])
        <5>1. o \in ToSet(lists[to][m]) => Fits(o, to, m)
          BY <1>2 DEF Structure, ListsTyped
        <5> QED BY <5>1, <1>2, <1>7 DEF Fits
      <4> QED BY <3>1, <4>1, <1>1, <1>2, <1>5, <1>7 DEF Fits
    <3>2. CASE ~(x = o /\ s = to /\ k = m)
      <4>1. x \in ToSet(lists[s][k]) /\ (Once(lists[s][k], x) /\ KindOf(x) # "Reference" => Once(lists'[s][k], x))
        BY <1>9, <2>3, <3>2
      <4>2. Fits(x, s, k) /\ (KindOf(x) # "Reference" => Once(lists[s][k], x))
        BY <4>1 DEF Structure, ListsTyped
      <4>3. KindOf(x) # "Reference" => x # o
        BY <1>8, <2>3, <3>2
      <4> QED BY <4>1, <4>2, <4>3, <1>1 DEF Fits
    <3> QED BY <3>1, <3>2
  <2> QED BY <1>1, <2>1, <2>2, <2>3
<1>14. InOneList'
  <2> SUFFICES ASSUME NEW s \in Solid, NEW j \in DOMAIN lists[s], NEW k \in DOMAIN lists[s], j # k,
                      NEW x \in ToSet(lists'[s][j]) \cap ToSet(lists'[s][k]), KindOf(x) # "Reference"
               PROVE  FALSE
    BY <1>1 DEF InOneList
  <2>1. x # o
    BY <1>8
  <2>2. x \in ToSet(lists[s][j]) /\ x \in ToSet(lists[s][k])
    BY <1>9, <2>1
  <2> QED BY <2>2 DEF Structure, InOneList
<1>15. Placed'
  <2> SUFFICES ASSUME NEW x \in DOMAIN up, KindOf(x) \notin {"Contents", "Reference"}
               PROVE  \E k \in DOMAIN lists'[up'[x]] : x \in ToSet(lists'[up'[x]][k])
    BY <1>1 DEF Placed
  <2>1. CASE x = o
    BY <1>1, <1>2, <1>5, <2>1
  <2>2. CASE x # o
    <3>1. PICK k \in DOMAIN lists[up[x]] : x \in ToSet(lists[up[x]][k])
      BY DEF Structure, Placed
    <3>2. up[x] \in Solid
      BY DEF Structure, UpTyped
    <3>3. x \in ToSet(lists'[up[x]][k])
      BY <1>10, <2>2, <3>1, <3>2
    <3> QED BY <1>1, <2>2, <3>1, <3>2, <3>3
  <2> QED BY <2>1, <2>2
<1> QED BY <1>11, <1>12, <1>13, <1>14, <1>15 DEF Structure

\* A subtree that the moved node is not in, and does not come to, stays the same.
LEMMA MoveUnder ==
    ASSUME Structure, NEW o, NEW from, NEW to, NEW l, NEW m, MovesNode(o, from, to, l, m),
           NEW a, to \notin Under(a), KindOf(o) # "Reference" => o \notin Under(a)
    PROVE  Under(a)' = Under(a)
<1>1. Tree /\ Tree'
  <2>1. Structure'
    BY MoveStructure
  <2>2. (NodesTyped /\ UpTyped => Tree)'
    BY TreeUnder, PTL
  <2> QED BY <2>1, <2>2, TreeUnder DEF Structure
<1>2. Solid' = Solid /\ DOMAIN up' = DOMAIN up /\ \A x \in DOMAIN up : up'[x] = IF x = o THEN to ELSE up[x]
  BY MoveLists
<1>3. KindOf(o) = "Reference" => o \notin Solid
  BY DEF Structure, NodesTyped, Nodes, Solid
<1>4. Under(a) \subseteq Solid /\ o \notin Under(a)
  BY <1>1, <1>3 DEF Tree, IsUnder
<1>5. \A x \in Solid : x \in Under(a) <=> (x = a \/ (x \in DOMAIN up /\ up[x] \in Under(a)))
  BY <1>1 DEF Tree, IsUnder
<1>6. \A x \in Solid : x \in Under(a) <=> (x = a \/ (x \in DOMAIN up' /\ up'[x] \in Under(a)))
  BY <1>2, <1>4, <1>5
<1> QED BY <1>1, <1>2, <1>4, <1>6, UnderKept

-----------------------------------------------------------------------------
(* The lists that may hold what has a name. *)

\* The lists of a scope of statements.
StatementLists ==
    [declarations |-> {"Variable"}, instances |-> {"Instance"}, stateTables |-> {"StateTable"},
     generates |-> {"ForGenerate", "IfGenerate"}, actions |-> {"For", "Reference"}]

\* The lists of a class.
LEMMA ContentIs ==
    /\ ContentOf["Contents"] = StatementLists /\ ContentOf["IfGenerate"] = StatementLists
    /\ DOMAIN ContentOf["ForGenerate"] = DOMAIN StatementLists \cup {"initDeclarations"}
    /\ \A l \in DOMAIN StatementLists : ContentOf["ForGenerate"][l] = StatementLists[l]
    /\ ContentOf["ForGenerate"]["initDeclarations"] = {"Variable"}
    /\ ContentOf["View"] = [declarations |-> {"Variable"}, ports |-> {"Port"}]
    /\ ContentOf["StateTable"] = [declarations |-> {"Variable"}, actions |-> {"For", "Reference"}]
    /\ ContentOf["For"] = [initDeclarations |-> {"Variable"}, actions |-> {"Reference"}]
    /\ ContentOf["Variable"] = [actions |-> {"Reference"}]
    /\ ContentOf["Port"] = <<>> /\ ContentOf["Instance"] = <<>>
    /\ DOMAIN ContentOf = {"View", "Contents", "IfGenerate", "ForGenerate", "StateTable", "For", "Variable",
                           "Port", "Instance"}
<1>1. ContentOf = 
         [View |-> [declarations |-> {"Variable"}, ports |-> {"Port"}],
          Contents |-> StatementLists,
          IfGenerate |-> StatementLists,
          ForGenerate |-> Over([initDeclarations |-> {"Variable"}], StatementLists),
          StateTable |-> [declarations |-> {"Variable"}, actions |-> {"For", "Reference"}],
          For |-> [initDeclarations |-> {"Variable"}, actions |-> {"Reference"}],
          Variable |-> [actions |-> {"Reference"}],
          Port |-> <<>>, Instance |-> <<>>]
  BY Zenon DEF ContentOf, StatementLists
<1>2. PICK both : both = Over([initDeclarations |-> {"Variable"}], StatementLists)
  OBVIOUS
<1>3. DOMAIN both = DOMAIN StatementLists \cup {"initDeclarations"}
  BY <1>2 DEF Over, StatementLists
<1>4. /\ both["initDeclarations"] = {"Variable"}
      /\ \A l \in DOMAIN StatementLists : both[l] = StatementLists[l]
  BY <1>2 DEF Over, StatementLists
<1>5. ContentOf["ForGenerate"] = both
  BY <1>1, <1>2
<1>6. /\ ContentOf["Contents"] = StatementLists /\ ContentOf["IfGenerate"] = StatementLists
      /\ ContentOf["View"] = [declarations |-> {"Variable"}, ports |-> {"Port"}]
      /\ ContentOf["StateTable"] = [declarations |-> {"Variable"}, actions |-> {"For", "Reference"}]
      /\ ContentOf["For"] = [initDeclarations |-> {"Variable"}, actions |-> {"Reference"}]
      /\ ContentOf["Variable"] = [actions |-> {"Reference"}]
      /\ ContentOf["Port"] = <<>> /\ ContentOf["Instance"] = <<>>
  BY <1>1
<1>7. DOMAIN ContentOf = {"View", "Contents", "IfGenerate", "ForGenerate", "StateTable", "For", "Variable",
                          "Port", "Instance"}
  BY <1>1
<1> QED BY <1>3, <1>4, <1>5, <1>6, <1>7

\* The classes that have them, and state tables.
Statements == {"Contents", "ForGenerate", "IfGenerate", "StateTable"}

\* Every list that declarations may be in is searched for conflicts.
LEMMA DeclaredLists ==
    \A kind \in Statements : \A l \in DOMAIN ContentOf[kind] :
        ContentOf[kind][l] \cap DeclarationKinds # {} => l \in Declared[kind]
BY ContentIs DEF StatementLists, Statements, DeclarationKinds, Declared

-----------------------------------------------------------------------------
(* Names. *)

\* What the invariant says of names.
NamesOk == NamesTyped /\ Registered /\ FreshNamesDiffer

\* Every name is a sequence.
LEMMA NamesAreSequences == Name \subseteq NameType
<1> SUFFICES ASSUME NEW name \in Name PROVE name \in Seq(Root \cup Int)
  BY DEF NameType
<1> DEFINE Numbers == UNION {[1 .. n -> Index] : n \in 0 .. MaxLen}
          Joined(r, s) == <<r>> \o s
<1>1. Name = {Joined(r, s) : r \in Root, s \in Numbers}
  BY DEF Name
<1>2. PICK r \in Root, s \in Numbers : name = Joined(r, s)
  <2> HIDE DEF Numbers, Joined
  <2> QED BY <1>1
<1>2a. PICK n \in 0 .. MaxLen : s \in [1 .. n -> Index]
  BY <1>2
<1>3. n \in Nat /\ Index \subseteq Int
  BY NameAssumption DEF Index
<1>4. s \in Seq(Root \cup Int)
  <2>1. s \in [1 .. n -> Root \cup Int]
    BY <1>2a, <1>3
  <2> QED BY <1>3, <2>1
<1>5. <<r>> \in Seq(Root \cup Int)
  OBVIOUS
<1> QED BY <1>2, <1>4, <1>5, ConcatProperties

\* Only the name of o changes.
OnlyNames(o) == \A e \in Solid \ {o} : nameOf'[e] = nameOf[e]

\* A declaration that is renamed gets a name that no other fresh name is.
LEMMA Renaming ==
    ASSUME NamesOk, NEW o \in Solid, KindOf(o) \in DeclarationKinds, NEW prefix, Rename(o, prefix), Solid' = Solid
    PROVE  NamesOk' /\ OnlyNames(o) /\ o \in renamed'
<1>1. PICK name \in Name : /\ name \notin table
                           /\ nameOf' = [nameOf EXCEPT ![o] = name]
                           /\ table' = table \cup {name}
  BY DEF Rename, IsFresh
<1>2. renamed' = renamed \cup {o}
  BY DEF Rename
<1>3. o \in DOMAIN nameOf /\ DOMAIN nameOf = Solid
  BY DEF NamesOk, NamesTyped
<1>4. nameOf'[o] = name /\ OnlyNames(o)
  BY <1>1, <1>3 DEF OnlyNames
<1>5. NamesTyped'
  BY <1>1, <1>3, <1>4, NamesAreSequences DEF NamesOk, NamesTyped, OnlyNames
<1>6. Registered'
  BY <1>1, <1>2, <1>3, <1>4 DEF NamesOk, Registered, OnlyNames
<1>7. FreshNamesDiffer'
  <2>1. \A e \in renamed : e \in Solid /\ nameOf[e] \in table
    BY <1>3 DEF NamesOk, Registered
  <2> QED BY <1>1, <1>2, <1>4, <2>1 DEF NamesOk, FreshNamesDiffer, OnlyNames
<1> QED BY <1>2, <1>4, <1>5, <1>6, <1>7 DEF NamesOk

\* A declaration that is given a name keeps it a name, and is no longer fresh.
LEMMA Giving ==
    ASSUME NamesOk, NEW o \in Solid, KindOf(o) \in DeclarationKinds, NEW name \in NameType, GiveName(o, name),
           Solid' = Solid
    PROVE  NamesOk' /\ OnlyNames(o) /\ nameOf'[o] = name
<1>1. /\ nameOf' = [nameOf EXCEPT ![o] = name] /\ table' = table
      /\ renamed' = IF nameOf[o] = name THEN renamed ELSE renamed \ {o}
  BY DEF GiveName
<1>2. o \in DOMAIN nameOf /\ DOMAIN nameOf = Solid
  BY DEF NamesOk, NamesTyped
<1>3. nameOf'[o] = name /\ OnlyNames(o)
  BY <1>1, <1>2 DEF OnlyNames
<1>4. NamesTyped'
  BY <1>1, <1>2, <1>3 DEF NamesOk, NamesTyped, OnlyNames
<1>5. renamed \subseteq Solid /\ \A e \in renamed' : e \in renamed /\ nameOf'[e] = nameOf[e]
  BY <1>1, <1>2, <1>3 DEF NamesOk, Registered, OnlyNames
<1>6. Registered'
  BY <1>1, <1>2, <1>5 DEF NamesOk, Registered
<1>7. FreshNamesDiffer'
  BY <1>5 DEF NamesOk, FreshNamesDiffer
<1> QED BY <1>3, <1>4, <1>6, <1>7 DEF NamesOk

\* Names that stay are as good as they were.
LEMMA Keeping ==
    ASSUME NamesOk, UNCHANGED <<table, nameOf, renamed>>, Solid' = Solid
    PROVE  NamesOk' /\ \A o : OnlyNames(o)
BY DEF NamesOk, NamesTyped, Registered, FreshNamesDiffer, OnlyNames

\* Two names that are put together.
LEMMA SuffixedIs ==
    ASSUME NEW name \in NameType, NEW suffix \in Seq(Int)
    PROVE  Suffixed(name, suffix) \in NameType /\ (suffix = <<>> => Suffixed(name, suffix) = name)
<1>1. suffix \in Seq(Root \cup Int)
  OBVIOUS
<1>2. name \o suffix \in Seq(Root \cup Int)
  BY <1>1, ConcatProperties DEF NameType
<1>3. suffix = <<>> => name \o suffix = name
  BY ConcatEmptySeq DEF NameType
<1> QED BY <1>2, <1>3 DEF Suffixed, NameType

-----------------------------------------------------------------------------
(* Names that do not conflict. *)

\* What checkConflictingName() does not find is not there.
LEMMA NotConflicting ==
    ASSUME Structure, NamesTyped, NEW s \in Solid, KindOf(s) \in Statements, NEW name, name # Nameless,
           ~Conflicting(name, s), NEW e \in Solid, e \in DOMAIN up, up[e] = s
    PROVE  nameOf[e] # name
<1>1. SUFFICES ASSUME nameOf[e] = name PROVE FALSE
  OBVIOUS
<1>2. KindOf(e) \in DeclarationKinds
  BY <1>1 DEF NamesTyped
<1>3. KindOf(e) \notin {"Contents", "Reference"}
  BY <1>2 DEF DeclarationKinds
<1>4. PICK l \in DOMAIN lists[s] : e \in ToSet(lists[s][l])
  BY <1>3 DEF Structure, Placed
<1>5. KindOf(e) \in ContentOf[KindOf(s)][l] /\ DOMAIN lists[s] = DOMAIN ContentOf[KindOf(s)]
  BY <1>4 DEF Structure, ListsTyped, Fits
<1>6. l \in Declared[KindOf(s)]
  BY <1>2, <1>5, DeclaredLists
<1>7. Listed(s, l) = lists[s][l]
  BY DEF Listed
<1>8. PICK k \in DOMAIN lists[s][l] : lists[s][l][k] = e
  BY <1>4 DEF ToSet
<1> QED BY <1>1, <1>6, <1>7, <1>8 DEF Conflicting

\* The step of NamesApart.
ApartStep ==
    \A o \in DOMAIN nameOf \cap DOMAIN nameOf' \cap DOMAIN up \cap DOMAIN up' :
        (up'[o] # up[o] \/ nameOf'[o] # nameOf[o]) /\ nameOf'[o] # Nameless =>
            \A e \in DOMAIN nameOf' \cap DOMAIN up' :
                e # o /\ up'[e] = up'[o] /\ nameOf'[e] = nameOf'[o] =>
                    \/ o \in renamed' /\ e \notin renamed'
                    \/ passes' # passes /\ e \notin ToSet(Listed(up[e], "declarations"))

\* Only o moves.
OnlyMoves(o) ==
    Solid' = Solid /\ DOMAIN up' = DOMAIN up /\ \A x \in DOMAIN up : x # o => up'[x] = up[x]

\* A step that moves or renames one node keeps names apart if the node gets a fresh name,
\* stays what it was, has no name, or gets one that does not conflict.
LEMMA ApartBy ==
    ASSUME Structure, NamesOk, NamesOk', NEW o, OnlyMoves(o), OnlyNames(o),
           \/ o \in renamed'
           \/ o \in DOMAIN up /\ o \in Solid => up'[o] = up[o] /\ nameOf'[o] = nameOf[o]
           \/ o \in Solid => nameOf'[o] = Nameless
           \/ up'[o] \in Solid /\ KindOf(up'[o]) \in Statements /\ ~Conflicting(nameOf'[o], up'[o])
           \/ passes' # passes /\ \A e \in ToSet(Listed(up'[o], "declarations")) : e # o => nameOf[e] # nameOf'[o]
    PROVE  ApartStep
<1>1. DOMAIN nameOf = Solid /\ DOMAIN nameOf' = Solid /\ Solid' = Solid /\ DOMAIN up' = DOMAIN up
  BY DEF NamesOk, NamesTyped, OnlyMoves
<1>2. SUFFICES ASSUME o \in Solid, o \in DOMAIN up, up'[o] # up[o] \/ nameOf'[o] # nameOf[o], nameOf'[o] # Nameless,
                      NEW e \in Solid, e \in DOMAIN up, e # o, up'[e] = up'[o], nameOf'[e] = nameOf'[o]
               PROVE  \/ o \in renamed' /\ e \notin renamed'
                      \/ passes' # passes /\ e \notin ToSet(Listed(up[e], "declarations"))
  <2> SUFFICES ASSUME NEW d \in Solid, d \in DOMAIN up,
                      up'[d] # up[d] \/ nameOf'[d] # nameOf[d], nameOf'[d] # Nameless,
                      NEW e \in Solid, e \in DOMAIN up, e # d, up'[e] = up'[d], nameOf'[e] = nameOf'[d]
               PROVE  \/ d \in renamed' /\ e \notin renamed'
                      \/ passes' # passes /\ e \notin ToSet(Listed(up[e], "declarations"))
    BY <1>1 DEF ApartStep
  <2>1. d = o
    BY DEF OnlyMoves, OnlyNames
  <2> QED BY <1>2, <2>1
<1>3. up'[e] = up[e] /\ nameOf'[e] = nameOf[e]
  BY <1>2 DEF OnlyMoves, OnlyNames
<1>4. CASE o \in renamed'
  <2>1. FreshNamesDiffer'
    BY DEF NamesOk
  <2> QED BY <1>2, <1>4, <2>1 DEF FreshNamesDiffer
<1>5. CASE up'[o] \in Solid /\ KindOf(up'[o]) \in Statements /\ ~Conflicting(nameOf'[o], up'[o])
  <2>1. PICK s : s = up'[o]
    OBVIOUS
  <2>2. PICK name : name = nameOf'[o]
    OBVIOUS
  <2>3. nameOf[e] # name
    BY <1>2, <1>3, <1>5, <2>1, <2>2, NotConflicting DEF NamesOk
  <2> QED BY <1>2, <1>3, <2>2, <2>3
<1>6. CASE passes' # passes /\ \A d \in ToSet(Listed(up'[o], "declarations")) : d # o => nameOf[d] # nameOf'[o]
  BY <1>2, <1>3, <1>6
<1> QED BY <1>2, <1>4, <1>5, <1>6

-----------------------------------------------------------------------------
(* Generates and lists. *)

\* Depths are numbers.
LEMMA Levels ==
    ASSUME NodesTyped
    PROVE  \A o \in Solid : Level[o.of] \in Nat
BY LevelAssumption DEF NodesTyped, Nodes, Solid, Object

\* What the list of generates holds.
LEMMA GeneratesAre ==
    ASSUME Structure, NEW s \in Solid, NEW g \in ToSet(Listed(s, "generates"))
    PROVE  /\ g \in Solid \cap DOMAIN up /\ up[g] = s /\ KindOf(g) \in {"ForGenerate", "IfGenerate"}
           /\ Level[s.of] < Level[g.of]
<1>1. "generates" \in DOMAIN lists[s] /\ g \in ToSet(lists[s]["generates"])
  BY DEF Listed, ToSet
<1>2. /\ Fits(g, s, "generates") /\ KindOf(s) \in DOMAIN ContentOf
      /\ "generates" \in DOMAIN ContentOf[KindOf(s)]
  BY <1>1 DEF Structure, ListsTyped
<1>3. ContentOf[KindOf(s)]["generates"] = {"ForGenerate", "IfGenerate"}
  BY <1>2, ContentIs DEF StatementLists
<1> QED BY <1>2, <1>3 DEF Fits

\* The list that holds a node.
LEMMA ListOfIs ==
    ASSUME Structure, NEW o \in DOMAIN up, KindOf(o) \notin {"Contents", "Reference"}
    PROVE  ListOf(up[o], o) \in DOMAIN lists[up[o]] /\ o \in ToSet(lists[up[o]][ListOf(up[o], o)])
<1>1. \E l \in DOMAIN lists[up[o]] : o \in ToSet(lists[up[o]][l])
  BY DEF Structure, Placed
<1>2. \E l \in DOMAIN lists[up[o]] : \E k \in DOMAIN lists[up[o]][l] : lists[up[o]][l][k] = o
  BY <1>1 DEF ToSet
<1> QED BY <1>2 DEF ListOf, ToSet

\* A node is in one list.
LEMMA ListOfUnique ==
    ASSUME Structure, NEW s \in Solid, NEW l \in DOMAIN lists[s], NEW o \in ToSet(lists[s][l]),
           KindOf(o) = "Reference" => KindOf(s) \in BaseContents
    PROVE  ListOf(s, o) = l
<1>1. PICK j : j = ListOf(s, o)
  OBVIOUS
<1>2. j \in DOMAIN lists[s] /\ o \in ToSet(lists[s][j])
  BY <1>1 DEF ListOf, ToSet
<1>3. SUFFICES ASSUME j # l PROVE FALSE
  BY <1>1
<1>4. KindOf(o) = "Reference"
  BY <1>2, <1>3 DEF Structure, InOneList
<1>5. /\ KindOf(o) \in ContentOf[KindOf(s)][l] /\ KindOf(o) \in ContentOf[KindOf(s)][j]
      /\ DOMAIN lists[s] = DOMAIN ContentOf[KindOf(s)]
  BY <1>2 DEF Structure, ListsTyped, Fits
<1> QED BY <1>2, <1>3, <1>4, <1>5, ContentIs DEF BaseContents, StatementLists

-----------------------------------------------------------------------------
(* Between two expansions. *)

\* No generate is being expanded, nothing has been copied yet.
Rested ==
    /\ Structure /\ NamesTyped /\ DesignTyped
    /\ work = <<>>

Apart == HeadsApart /\ OpenOutside

\* The contents are a node.
LEMMA ContentsIs == DesignTyped /\ NodesTyped => design.contents \in Solid /\ design.contents # NoObject
BY DEF DesignTyped, NodesTyped, Nodes, Solid

\* Between two expansions only the contents are open.
LEMMA RestedHeads ==
    ASSUME Rested
    PROVE  OpenScopes = {design.contents} /\ Heads = Generates(design.contents)
<1>1. design.contents # NoObject
  BY ContentsIs DEF Rested, Structure
<1>2. Len(work) = 0
  BY DEF Rested
<1>3. CopiesOpen = {} /\ {work[k].gen : k \in 1 .. Len(work)} = {}
  BY <1>2 DEF CopiesOpen
<1> QED BY <1>1, <1>3 DEF OpenScopes, Roots, Heads

\* The generates of the contents are apart.
LEMMA RestedApart == Rested => Apart
<1> SUFFICES ASSUME Rested PROVE Apart
  OBVIOUS
<1>1. OpenScopes = {design.contents} /\ Heads = Generates(design.contents)
  BY RestedHeads
<1>2. Tree /\ Structure /\ NodesTyped /\ design.contents \in Solid
  BY TreeUnder, ContentsIs DEF Rested, Structure
<1>3. ASSUME NEW a \in Heads
      PROVE  /\ a \in Solid \cap DOMAIN up /\ up[a] = design.contents
             /\ Level[design.contents.of] < Level[a.of]
  BY <1>1, <1>2, GeneratesAre DEF Generates
<1>4. HeadsApart
  <2> SUFFICES ASSUME NEW a \in Heads, NEW b \in Heads, a # b PROVE Under(a) \cap Under(b) = {}
    BY DEF HeadsApart
  <2> QED BY <1>2, <1>3, SiblingsApart DEF Tree
<1>5. OpenOutside
  <2> SUFFICES ASSUME NEW a \in Heads, design.contents \in Under(a) PROVE FALSE
    BY <1>1 DEF OpenOutside
  <2>1. Level[a.of] <= Level[design.contents.of]
    BY <1>2, UnderLevel DEF Tree
  <2> QED BY <2>1, <1>2, <1>3, Levels
<1> QED BY <1>4, <1>5 DEF Apart

\* Before the visit.
Uncopied == Rested /\ visited = {} /\ \A o \in Solid : o.at = <<>>

\* Before the visit the invariant says no more than that the design is a tree.
LEMMA UncopiedInv == Uncopied => Inv
<1> SUFFICES ASSUME Uncopied PROVE Inv
  OBVIOUS
<1>1. Rested
  BY DEF Uncopied
<1>2. Apart
  BY <1>1, RestedApart
<1>3. Frames
  BY <1>1 DEF Rested, Frames
<1>4. CopiesFresh
  <2> SUFFICES ASSUME NEW x \in Solid, NEW a, NEW o \in Under(a), Ext(x, o) PROVE FALSE
    BY DEF CopiesFresh
  <2>1. Len(x.at) = 0 /\ Len(o.at) = 0
    BY DEF Uncopied, Under
  <2> QED BY <2>1 DEF Ext
<1> QED BY <1>1, <1>2, <1>3, <1>4 DEF Inv, Apart, Rested, Phases, Uncopied

-----------------------------------------------------------------------------
(* The passes before the visit. *)

\* What a pass leaves alone.
Untouched == UNCHANGED <<read, visitVars>>

\* A step of a pass that keeps the structure and the names keeps the invariant.
LEMMA PassInv ==
    ASSUME GenerateInv, state = "visiting", visited = {}, Untouched, Solid' = Solid, Structure', NamesOk',
           passes' \in Nat
    PROVE  GenerateInv'
<1>1. Inv
  BY DEF GenerateInv
<1>2. work = <<>> /\ \A o \in Solid : o.at = <<>>
  BY <1>1 DEF Inv, Phases
<1>3. work' = work /\ visited' = visited /\ state' = state /\ design' = design
  BY DEF Untouched, read, visitVars
<1>4. DesignTyped'
  BY <1>1, <1>3 DEF Inv, DesignTyped, System
<1>5. Uncopied'
  BY <1>2, <1>3, <1>4 DEF Uncopied, Rested, NamesOk
<1>6. Inv'
  <2>1. (Uncopied => Inv)'
    BY UncopiedInv, PTL
  <2> QED BY <1>5, <2>1
<1> QED BY <1>3, <1>6 DEF GenerateInv, Renames, NamesOk

-----------------------------------------------------------------------------
(* Moves to a scope. *)

\* What a scope of statements gives, another one takes.
LEMMA MoveFits ==
    ASSUME Structure, NEW from \in Solid, NEW to \in Solid, from # to, KindOf(to) \in BaseContents,
           NEW l \in DOMAIN lists[from], l \in DOMAIN StatementLists, NEW o \in ToSet(lists[from][l]),
           KindOf(o) \in StatementLists[l], Level[to.of] < Level[o.of], ActualMove(o, from, to, l, l)
    PROVE  MovesNode(o, from, to, l, l)
<1>1. DOMAIN lists[to] = DOMAIN ContentOf[KindOf(to)]
  BY DEF Structure, ListsTyped
<1>2. l \in DOMAIN lists[to] /\ ContentOf[KindOf(to)][l] = StatementLists[l]
  BY <1>1, ContentIs DEF BaseContents
<1> QED BY <1>2 DEF MovesNode

\* A move moves one node.
LEMMA MovesOnly ==
    ASSUME Structure, NEW o, NEW from, NEW to, NEW l, NEW m, MovesNode(o, from, to, l, m)
    PROVE  OnlyMoves(o) /\ (o \in DOMAIN up => up'[o] = to)
BY MoveLists DEF OnlyMoves

\* moveToScope() keeps the structure and the names apart.
LEMMA MoveToScopeKeeps ==
    ASSUME Structure, NamesOk, NEW from \in Solid, NEW to \in Solid, from # to, KindOf(to) \in BaseContents,
           NEW l \in DOMAIN lists[from], l \in DOMAIN StatementLists, NEW o \in ToSet(lists[from][l]),
           KindOf(o) \in StatementLists[l], Level[to.of] < Level[o.of], l = ListOf(from, o),
           NEW suffix \in Seq(Int), MoveToScope(from, to, suffix, o)
    PROVE  MovesNode(o, from, to, l, l) /\ NamesOk' /\ ApartStep
<1>1. ActualMove(o, from, to, l, l)
  BY DEF MoveToScope, MoveDeclared, MoveInstance, MovePlain
<1>2. MovesNode(o, from, to, l, l)
  BY <1>1, MoveFits
<1>3. Solid' = Solid /\ OnlyMoves(o) /\ (o \in DOMAIN up => up'[o] = to)
  BY <1>2, MoveLists, MovesOnly
<1>4. Fits(o, from, l)
  BY DEF Structure, ListsTyped
<1>5. KindOf(to) \in Statements
  BY DEF BaseContents, Statements
<1>6. ASSUME KindOf(o) \in DeclarationKinds
      PROVE  /\ o \in Solid /\ up'[o] = to /\ nameOf[o] \in NameType /\ Suffixed(nameOf[o], suffix) \in NameType
             /\ suffix = <<>> => Suffixed(nameOf[o], suffix) = nameOf[o]
  <2>1. o \in Solid /\ up'[o] = to
    BY <1>3, <1>4, <1>6, KindsDiffer DEF Fits
  <2>2. nameOf[o] \in NameType
    BY <1>6, <2>1 DEF NamesOk, NamesTyped
  <2> QED BY <2>1, <2>2, SuffixedIs
\* The node gets a name that does not conflict.
<1>7. ASSUME KindOf(o) \in DeclarationKinds, NEW name \in NameType, ~Conflicting(name, to),
             GiveName(o, name)
      PROVE  NamesOk' /\ ApartStep
  <2>1. NamesOk' /\ OnlyNames(o) /\ nameOf'[o] = name
    BY <1>3, <1>6, <1>7, Giving
  <2>2. up'[o] \in Solid /\ KindOf(up'[o]) \in Statements /\ ~Conflicting(nameOf'[o], up'[o])
    BY <1>5, <1>6, <1>7, <2>1
  <2> QED BY <1>3, <2>1, <2>2, ApartBy
\* It gets a fresh name.
<1>8. ASSUME KindOf(o) \in DeclarationKinds, NEW prefix, Rename(o, prefix)
      PROVE  NamesOk' /\ ApartStep
  <2>1. NamesOk' /\ OnlyNames(o) /\ o \in renamed'
    BY <1>3, <1>6, <1>8, Renaming
  <2> QED BY <1>3, <2>1, ApartBy
\* It keeps its name.
<1>9. ASSUME NamesKept, \/ KindOf(o) \in DeclarationKinds /\ ~Conflicting(nameOf[o], to)
                        \/ KindOf(o) \in {"Reference", "For"}
      PROVE  NamesOk' /\ ApartStep
  <2>1. nameOf' = nameOf /\ UNCHANGED <<table, nameOf, renamed>>
    BY <1>9 DEF NamesKept
  <2>2. NamesOk' /\ OnlyNames(o)
    BY <1>3, <2>1, Keeping
  <2>3. \/ up'[o] \in Solid /\ KindOf(up'[o]) \in Statements /\ ~Conflicting(nameOf'[o], up'[o])
        \/ o \in Solid => nameOf'[o] = Nameless
    <3>1. CASE KindOf(o) \in DeclarationKinds /\ ~Conflicting(nameOf[o], to)
      BY <1>5, <1>6, <2>1, <3>1
    <3>2. CASE KindOf(o) \in {"Reference", "For"}
      <4>1. KindOf(o) \notin DeclarationKinds
        BY <3>2, KindsDiffer
      <4> QED BY <2>1, <4>1 DEF NamesOk, NamesTyped
    <3> QED BY <1>9, <3>1, <3>2
  <2> QED BY <1>3, <2>2, <2>3, ApartBy
<1>10. CASE KindOf(o) \in {"Variable", "StateTable"} /\ MoveDeclared(o, from, to, suffix)
  <2>1. KindOf(o) \in DeclarationKinds
    BY <1>10 DEF DeclarationKinds
  <2>2. \/ ~Conflicting(Suffixed(nameOf[o], suffix), to) /\ suffix = <<>> /\ NamesKept
        \/ ~Conflicting(Suffixed(nameOf[o], suffix), to) /\ GiveName(o, Suffixed(nameOf[o], suffix))
        \/ Rename(o, nameOf[o])
    BY <1>10 DEF MoveDeclared
  <2> QED BY <2>1, <2>2, <1>2, <1>6, <1>7, <1>8, <1>9
<1>11. CASE KindOf(o) = "Instance" /\ MoveInstance(o, from, to, suffix)
  <2>1. KindOf(o) \in DeclarationKinds
    BY <1>11 DEF DeclarationKinds
  <2>2. \/ ~Conflicting(Suffixed(nameOf[o], suffix), to) /\ GiveName(o, Suffixed(nameOf[o], suffix))
        \/ Rename(o, Suffixed(nameOf[o], suffix))
    BY <1>11 DEF MoveInstance
  <2> QED BY <2>1, <2>2, <1>2, <1>6, <1>7, <1>8
<1>12. CASE KindOf(o) \in {"Reference", "For"} /\ MovePlain(o, from, to)
  <2>1. NamesKept
    BY <1>12 DEF MovePlain
  <2> QED BY <2>1, <1>2, <1>9, <1>12
<1> QED BY <1>10, <1>11, <1>12 DEF MoveToScope

\* A tree that is left alone stays a tree.
LEMMA TreeKept ==
    ASSUME Structure, UNCHANGED treeVars
    PROVE  Structure' /\ Solid' = Solid /\ \A o : OnlyMoves(o) /\ (o \in DOMAIN up => up'[o] = up[o])
<1>1. up' = up /\ lists' = lists
  BY DEF treeVars
<1>2. Solid' = Solid /\ Nodes' = Nodes
  BY <1>1 DEF Solid, Nodes
<1>3. NodesTyped' /\ UpTyped'
  BY <1>1, <1>2 DEF Structure, NodesTyped, UpTyped
<1>4. ListsTyped' /\ InOneList' /\ Placed'
  BY <1>1, <1>2 DEF Structure, ListsTyped, InOneList, Placed, Fits
<1> QED BY <1>1, <1>2, <1>3, <1>4 DEF Structure, OnlyMoves

\* What is in the tree, but for the view at its top, has a parent there.
LEMMA InTreeIs ==
    ASSUME Structure, DesignTyped, NEW d \in InTree, KindOf(d) # "View"
    PROVE  /\ d \in DOMAIN up /\ up[d] \in InTree \cap Solid
           /\ KindOf(d) # "Reference" => d \in Solid
<1>1. BelowIs(System)
  BY BelowStep DEF Structure
<1>2. d \in Nodes /\ d \in DOMAIN up /\ up[d] \in InTree
  BY <1>1 DEF BelowIs, InTree, DesignTyped
<1> QED BY <1>2 DEF Structure, UpTyped, NodesTyped

\* moveDeclaration() keeps the structure and the names apart.
LEMMA MoveDeclarationKeeps ==
    ASSUME Structure, NamesOk, NEW d \in Solid \cap DOMAIN up, KindOf(d) = "Variable",
           ListOf(up[d], d) = "declarations", NEW to \in Solid,
           to # up[d] => KindOf(to) \in BaseContents /\ Level[to.of] < Level[d.of],
           passes' # passes, NEW system, NEW suffix, MoveDeclaration(d, to, system, suffix)
    PROVE  Structure' /\ NamesOk' /\ Solid' = Solid /\ ApartStep
<1>1. up[d] \in Solid /\ "declarations" \in DOMAIN lists[up[d]] /\ d \in ToSet(lists[up[d]]["declarations"])
  BY ListOfIs DEF Structure, UpTyped
<1>2. KindOf(d) \in DeclarationKinds
  BY DEF DeclarationKinds
<1>3. /\ Structure' /\ Solid' = Solid /\ OnlyMoves(d)
      /\ up'[d] = to
  <2>1. CASE up[d] = to
    BY <2>1, TreeKept DEF MoveDeclaration
  <2>2. CASE up[d] # to
    <3>1. ActualMove(d, up[d], to, "declarations", "declarations")
      BY <2>2 DEF MoveDeclaration
    <3>2. "declarations" \in DOMAIN StatementLists /\ KindOf(d) \in StatementLists["declarations"]
      BY DEF StatementLists
    <3>3. MovesNode(d, up[d], to, "declarations", "declarations")
      BY <1>1, <2>2, <3>1, <3>2, MoveFits
    <3> QED BY <3>3, MoveStructure, MoveLists, MovesOnly
  <2> QED BY <2>1, <2>2
<1>4. CASE \E prefix : Rename(d, prefix)
  <2>1. NamesOk' /\ OnlyNames(d) /\ d \in renamed'
    BY <1>2, <1>3, <1>4, Renaming
  <2> QED BY <1>3, <2>1, ApartBy
<1>5. CASE NamesKept /\ ~(\E k \in DOMAIN Listed(to, "declarations") : nameOf[Listed(to, "declarations")[k]] = nameOf[d])
  <2>1. NamesOk' /\ OnlyNames(d) /\ nameOf' = nameOf
    BY <1>3, <1>5, Keeping DEF NamesKept
  <2>2. \A e \in ToSet(Listed(up'[d], "declarations")) : e # d => nameOf[e] # nameOf'[d]
    BY <1>3, <1>5, <2>1 DEF ToSet
  <2> QED BY <1>3, <2>1, <2>2, ApartBy
<1>6. \/ \E prefix : Rename(d, prefix)
      \/ NamesKept /\ ~(\E k \in DOMAIN Listed(to, "declarations") : nameOf[Listed(to, "declarations")[k]] = nameOf[d])
  BY DEF MoveDeclaration
<1> QED BY <1>3, <1>4, <1>5, <1>6

\* What the passes start from.
LEMMA StartsAre ==
    ASSUME GenerateInv, Starts, Counts, PassVars
    PROVE  /\ Inv /\ Structure /\ NamesOk /\ DesignTyped /\ state = "visiting" /\ visited = {} /\ Untouched
           /\ passes' \in Nat /\ passes' # passes
<1>1. state = "visiting" /\ visited = {} /\ Untouched
  BY DEF Starts, Resting, PassVars, Untouched
<1>2. passes \in Nat /\ passes' = passes + 1
  BY DEF GenerateInv, Counts
<1> QED BY <1>1, <1>2 DEF GenerateInv, Inv, NamesOk

\* A pass that moves a declaration outwards.
LEMMA MovePassKeeps ==
    ASSUME GenerateInv, MovePass
    PROVE  GenerateInv' /\ ApartStep
<1>1. /\ Inv /\ Structure /\ NamesOk /\ DesignTyped /\ state = "visiting" /\ visited = {} /\ Untouched
      /\ passes' \in Nat /\ passes' # passes
  BY StartsAre DEF MovePass
<1>2. PICK d \in InTree, suffix \in {<<>>, <<0>>} :
          /\ KindOf(d) = "Variable" /\ up[d] \in DOMAIN lists
          /\ \E to \in Above(up[d]) :
                /\ KindOf(to) \in BaseContents /\ CanLeave(d, to)
                /\ ListOf(up[d], d) = "declarations"
                /\ \/ MoveDeclaration(d, to, System, suffix)
                   \/ MoveToScope(up[d], to, suffix, d)
  BY DEF MovePass
<1>3. PICK to \in Above(up[d]) :
          /\ KindOf(to) \in BaseContents /\ CanLeave(d, to)
          /\ ListOf(up[d], d) = "declarations"
          /\ \/ MoveDeclaration(d, to, System, suffix)
             \/ MoveToScope(up[d], to, suffix, d)
  BY <1>2
<1>4. d \in DOMAIN up /\ up[d] \in Solid /\ d \in Solid
  BY <1>1, <1>2, InTreeIs
<1>5. to \in DOMAIN up /\ up[d] \in Below(to) /\ to # up[d]
  BY <1>3 DEF Above, CanLeave
<1>6. to \in Solid
  BY <1>1, <1>3, <1>5 DEF BaseContents, Structure, NodesTyped, Nodes
<1>7. Level[to.of] < Level[d.of]
  <2>1. Tree /\ up[d] \in Under(to)
    BY <1>1, <1>4, <1>5, TreeUnder DEF Structure, Under
  <2>2. Level[to.of] <= Level[up[d].of]
    BY <2>1, UnderLevel DEF Tree
  <2>3. Level[up[d].of] < Level[d.of]
    BY <1>1, <1>4 DEF Structure, UpTyped
  <2>4. Level[to.of] \in Nat /\ Level[up[d].of] \in Nat /\ Level[d.of] \in Nat
    BY <1>1, <1>4, <1>6, Levels DEF Structure
  <2> QED BY <2>2, <2>3, <2>4
<1>8. "declarations" \in DOMAIN lists[up[d]] /\ d \in ToSet(lists[up[d]]["declarations"])
  BY <1>1, <1>2, <1>3, <1>4, ListOfIs
<1>9. Structure' /\ NamesOk' /\ Solid' = Solid /\ ApartStep
  <2>1. CASE MoveDeclaration(d, to, System, suffix)
    BY <2>1, <1>1, <1>2, <1>3, <1>4, <1>6, <1>7, MoveDeclarationKeeps
  <2>2. CASE MoveToScope(up[d], to, suffix, d)
    <3>1. suffix \in Seq(Int)
      <4>1. <<>> \in Seq(Int) /\ <<0>> \in Seq(Int)
        OBVIOUS
      <4>2. suffix = <<>> \/ suffix = <<0>>
        BY <1>2
      <4> QED BY <4>1, <4>2
    <3>2. "declarations" \in DOMAIN StatementLists /\ KindOf(d) \in StatementLists["declarations"]
      BY <1>2 DEF StatementLists
    <3>3. MovesNode(d, up[d], to, "declarations", "declarations") /\ NamesOk' /\ ApartStep
      BY <2>2, <3>1, <3>2, <1>1, <1>3, <1>4, <1>5, <1>6, <1>7, <1>8, MoveToScopeKeeps
    <3> QED BY <1>1, <3>3, MoveStructure, MoveLists
  <2> QED BY <1>3, <2>1, <2>2
<1> QED BY <1>1, <1>9, PassInv

\* A pass that renames one.
LEMMA RenamePassKeeps ==
    ASSUME GenerateInv, RenamePass
    PROVE  GenerateInv' /\ ApartStep
<1>1. /\ Inv /\ Structure /\ NamesOk /\ DesignTyped /\ state = "visiting" /\ visited = {} /\ Untouched
      /\ passes' \in Nat /\ passes' # passes
  BY StartsAre DEF RenamePass
<1>2. PICK d \in InTree :
          KindOf(d) = "Variable" /\ ListOf(up[d], d) = "declarations" /\ RenameInScope(d, System)
  BY DEF RenamePass
<1>3. d \in DOMAIN up /\ up[d] \in Solid /\ d \in Solid
  BY <1>1, <1>2, InTreeIs
<1>4. MoveDeclaration(d, up[d], System, <<>>)
  BY <1>2 DEF RenameInScope
<1>5. Structure' /\ NamesOk' /\ Solid' = Solid /\ ApartStep
  BY <1>1, <1>2, <1>3, <1>4, MoveDeclarationKeeps
<1> QED BY <1>1, <1>5, PassInv

\* A pass that moves the index out of a for loop.
LEMMA ForPassKeeps ==
    ASSUME GenerateInv, ForPass
    PROVE  GenerateInv' /\ ApartStep
<1>1. /\ Inv /\ Structure /\ NamesOk /\ DesignTyped /\ state = "visiting" /\ visited = {} /\ Untouched
      /\ passes' \in Nat /\ passes' # passes
  BY StartsAre DEF ForPass
<1>2. PICK d \in InTree : /\ KindOf(d) = "Variable" /\ KindOf(up[d]) = "For"
                          /\ MoveFromFor(up[d], up[up[d]], <<>>, d)
  BY DEF ForPass
<1>3. d \in DOMAIN up /\ up[d] \in InTree \cap Solid /\ d \in Solid
  BY <1>1, <1>2, InTreeIs
<1>4. PICK f : f = up[d]
  OBVIOUS
<1>5. f \in Solid \cap DOMAIN up /\ up[f] \in Solid
  BY <1>1, <1>2, <1>3, <1>4, InTreeIs
<1>6. PICK s : s = up[f]
  OBVIOUS
<1>7. /\ Level[f.of] < Level[d.of] /\ Level[s.of] < Level[f.of] /\ s \in Solid
      /\ Level[f.of] \in Nat /\ Level[d.of] \in Nat /\ Level[s.of] \in Nat
  BY <1>1, <1>3, <1>4, <1>5, <1>6, Levels DEF Structure, UpTyped
<1>8. KindOf(s) \in Statements /\ "declarations" \in DOMAIN lists[s] /\ KindOf(d) \in ContentOf[KindOf(s)]["declarations"]
  <2>1. PICK l : l = ListOf(s, f)
    OBVIOUS
  <2>2. l \in DOMAIN lists[s] /\ f \in ToSet(lists[s][l])
    BY <1>1, <1>2, <1>4, <1>5, <1>6, <2>1, ListOfIs
  <2>3. KindOf(s) \in DOMAIN ContentOf /\ DOMAIN lists[s] = DOMAIN ContentOf[KindOf(s)] /\ KindOf(f) \in ContentOf[KindOf(s)][l]
    BY <1>1, <1>7, <2>2 DEF Structure, ListsTyped, Fits
  <2>4. KindOf(f) = "For" /\ KindOf(d) = "Variable"
    BY <1>2, <1>4
  <2>5. KindOf(s) \in Statements
    BY <2>2, <2>3, <2>4, ContentIs DEF Statements, StatementLists
  <2> QED BY <2>3, <2>4, <2>5, ContentIs DEF Statements, StatementLists
<1>9. "initDeclarations" \in DOMAIN lists[f] /\ d \in ToSet(lists[f]["initDeclarations"])
  <2>1. PICK l : l = ListOf(f, d)
    OBVIOUS
  <2>2. l \in DOMAIN lists[f] /\ d \in ToSet(lists[f][l])
    BY <1>1, <1>2, <1>3, <1>4, <2>1, ListOfIs
  <2>3. DOMAIN lists[f] = DOMAIN ContentOf["For"] /\ KindOf(d) \in ContentOf["For"][l]
    BY <1>1, <1>2, <1>4, <1>5, <2>2 DEF Structure, ListsTyped, Fits
  <2> QED BY <1>2, <2>2, <2>3, ContentIs
<1>10. ActualMove(d, f, s, "initDeclarations", "declarations")
  BY <1>2, <1>4, <1>6 DEF MoveFromFor
<1>11. MovesNode(d, f, s, "initDeclarations", "declarations")
  BY <1>5, <1>7, <1>8, <1>9, <1>10 DEF MovesNode
<1>12. Structure' /\ Solid' = Solid /\ OnlyMoves(d) /\ up'[d] = s
  BY <1>1, <1>3, <1>11, MoveStructure, MoveLists, MovesOnly
<1>13. KindOf(d) \in DeclarationKinds
  BY <1>2 DEF DeclarationKinds
<1>14. nameOf[d] \in NameType /\ Suffixed(nameOf[d], <<>>) \in NameType
  <2>1. nameOf[d] \in NameType
    BY <1>1, <1>3, <1>13 DEF NamesOk, NamesTyped
  <2>2. <<>> \in Seq(Int)
    OBVIOUS
  <2> QED BY <2>1, <2>2, SuffixedIs
<1>15. NamesOk' /\ ApartStep
  <2>1. CASE Rename(d, nameOf[d])
    <3>1. NamesOk' /\ OnlyNames(d) /\ d \in renamed'
      BY <1>1, <1>3, <1>12, <1>13, <2>1, Renaming
    <3> QED BY <1>1, <1>12, <3>1, ApartBy
  <2>2. CASE ~Conflicting(Suffixed(nameOf[d], <<>>), s) /\ GiveName(d, Suffixed(nameOf[d], <<>>))
    <3>1. NamesOk' /\ OnlyNames(d) /\ nameOf'[d] = Suffixed(nameOf[d], <<>>)
      BY <1>1, <1>3, <1>12, <1>13, <1>14, <2>2, Giving
    <3>2. up'[d] \in Solid /\ KindOf(up'[d]) \in Statements /\ ~Conflicting(nameOf'[d], up'[d])
      BY <1>7, <1>8, <1>12, <2>2, <3>1
    <3> QED BY <1>1, <1>12, <3>1, <3>2, ApartBy
  <2> QED BY <1>2, <1>4, <1>6, <2>1, <2>2 DEF MoveFromFor
<1> QED BY <1>1, <1>12, <1>15, PassInv

\* Names and places that stay are as apart as they were.
LEMMA ApartStays ==
    ASSUME \A o \in DOMAIN nameOf \cap DOMAIN nameOf' \cap DOMAIN up \cap DOMAIN up' :
               up'[o] = up[o] /\ nameOf'[o] = nameOf[o]
    PROVE  ApartStep
BY DEF ApartStep

\* Nothing changes but which part of the work is done.
LEMMA ScopesKept ==
    ASSUME UNCHANGED scopeVars
    PROVE  /\ ApartStep /\ Solid' = Solid /\ (Structure => Structure') /\ (NamesOk => NamesOk')
           /\ (Registered => Registered') /\ (FreshNamesDiffer => FreshNamesDiffer')
<1>1. up' = up /\ lists' = lists /\ nameOf' = nameOf /\ table' = table /\ renamed' = renamed
  BY DEF scopeVars
<1>2. Solid' = Solid /\ ApartStep
  BY <1>1, ApartStays DEF Solid
<1>3. UNCHANGED treeVars /\ UNCHANGED <<table, nameOf, renamed>>
  BY <1>1 DEF treeVars
<1>4. (Registered => Registered') /\ (FreshNamesDiffer => FreshNamesDiffer')
  BY <1>1 DEF Registered, FreshNamesDiffer
<1> QED BY <1>2, <1>3, <1>4, TreeKept, Keeping

\* renameConflictingDeclarations begins.
LEMMA ConflictPassKeeps ==
    ASSUME GenerateInv, ConflictPass
    PROVE  GenerateInv' /\ ApartStep
<1>1. state = "visiting" /\ visited = {} /\ Untouched /\ UNCHANGED scopeVars /\ passes' = passes
  BY DEF ConflictPass, Starts, Resting, PassVars, Untouched
<1>2. Structure /\ NamesOk /\ passes \in Nat
  BY <1>1 DEF GenerateInv, Inv, NamesOk
<1>3. Structure' /\ NamesOk' /\ Solid' = Solid /\ ApartStep
  BY <1>1, <1>2, ScopesKept
<1> QED BY <1>1, <1>2, <1>3, PassInv

\* It renames the next declaration, or ends.
LEMMA RenameNextKeeps ==
    ASSUME GenerateInv, RenameNext
    PROVE  GenerateInv' /\ ApartStep
<1>1. state = "visiting" /\ visited = {} /\ Untouched
  BY DEF RenameNext, GenerateInv, Renames, Untouched
<1>2. Inv /\ Structure /\ NamesOk /\ DesignTyped /\ passes \in Nat
  BY <1>1 DEF GenerateInv, Inv, NamesOk
<1>3. ASSUME NEW d \in UnitNamed, RenameConflicting(d, System, <<>>), Counts
      PROVE  GenerateInv' /\ ApartStep
  <2>1. KindOf(d) \in DeclarationKinds /\ KindOf(d) \notin {"View", "Reference"} /\ d \in InTree
    BY DEF UnitNamed, DeclarationKinds, DataDeclarations
  <2>2. d \in Solid
    BY <1>2, <2>1, InTreeIs
  <2>3. Structure' /\ Solid' = Solid /\ OnlyMoves(d)
    BY <1>2, <1>3, TreeKept DEF RenameConflicting
  <2>4. PICK prefix : Rename(d, prefix)
    BY <1>3 DEF RenameConflicting
  <2>5. NamesOk' /\ OnlyNames(d) /\ d \in renamed'
    BY <1>2, <2>1, <2>2, <2>3, <2>4, Renaming
  <2>6. ApartStep
    BY <1>2, <2>3, <2>5, ApartBy
  <2>7. passes' \in Nat
    BY <1>2, <1>3 DEF Counts
  <2> QED BY <1>1, <2>3, <2>5, <2>6, <2>7, PassInv
<1>4. ASSUME UNCHANGED <<scopeVars, passes>>
      PROVE  GenerateInv' /\ ApartStep
  <2>1. Structure' /\ NamesOk' /\ Solid' = Solid /\ ApartStep /\ passes' \in Nat
    BY <1>2, <1>4, ScopesKept
  <2> QED BY <1>1, <2>1, PassInv
<1> QED BY <1>3, <1>4 DEF RenameNext

-----------------------------------------------------------------------------
(* The generates being expanded. *)

\* Where the next frame is.
NextBase == IF work = <<>> THEN design.contents ELSE work[Len(work)].copy

\* The stack is a sequence.
LEMMA WorkIs ==
    ASSUME Frames
    PROVE  /\ Len(work) \in Nat /\ DOMAIN work = 1 .. Len(work) /\ \A k \in 1 .. Len(work) : work[k] \in FrameType
           /\ work # <<>> => Len(work) > 0 /\ Top = work[Len(work)]
<1>1. work \in Seq(FrameType)
  BY DEF Frames
<1>2. Len(work) \in Nat /\ DOMAIN work = 1 .. Len(work) /\ \A k \in 1 .. Len(work) : work[k] \in FrameType
  BY <1>1
<1>3. work # <<>> => Len(work) > 0
  BY <1>1, <1>2
<1> QED BY <1>2, <1>3 DEF Top, Last

\* A copy that is open is a generate of its scope, as deep as what it is a copy of.
LEMMA CopyIs ==
    ASSUME Inv, NEW k \in 1 .. Len(work), work[k].copy # NoObject
    PROVE  /\ work[k].copy \in Solid \cap DOMAIN up /\ work[k].copy \in OpenScopes
           /\ up[work[k].copy] = Base(k) /\ KindOf(work[k].copy) \in GenerateKinds
           /\ Level[work[k].copy.of] = Level[work[k].gen.of] /\ Level[work[k].copy.of] \in Nat
<1>1. FrameIs(work[k], Base(k))
  BY DEF Inv, Frames, Framed
<1>2. /\ work[k].copy \in Solid \cap DOMAIN up /\ up[work[k].copy] = Base(k)
      /\ work[k].copy.of = work[k].gen.of /\ KindOf(work[k].gen) \in GenerateKinds
  BY <1>1 DEF FrameIs
<1>3. Level[work[k].copy.of] \in Nat
  BY <1>2, Levels DEF Inv, Structure
<1>4. work[k].copy \in OpenScopes
  BY DEF OpenScopes, CopiesOpen
<1> QED BY <1>2, <1>3, <1>4 DEF KindOf

\* The scope of a frame is open.
LEMMA BaseIs ==
    ASSUME Inv, NEW k \in 1 .. Len(work)
    PROVE  /\ Base(k) \in Solid /\ Base(k) \in OpenScopes /\ KindOf(Base(k)) \in BaseContents
           /\ Level[Base(k).of] < Level[work[k].gen.of]
<1>1. Len(work) \in Nat /\ design.contents \in Solid /\ design.contents # NoObject
  BY WorkIs, ContentsIs DEF Inv, Structure
<1>2. CASE k = 1
  BY <1>1, <1>2 DEF Base, OpenScopes, Inv, DesignTyped, BaseContents, Frames
<1>3. CASE k # 1
  <2>1. k - 1 \in 1 .. Len(work) /\ k - 1 # Len(work) /\ k - 1 < k
    BY <1>1, <1>3
  <2>2. work[k - 1].copy # NoObject /\ Level[work[k - 1].gen.of] < Level[work[k].gen.of]
    BY <2>1 DEF Inv, Frames
  <2> QED BY <1>3, <2>1, <2>2, CopyIs DEF Base, GenerateKinds, BaseContents
<1> QED BY <1>2, <1>3

\* The last frame is the deepest.
LEMMA LastDeepest ==
    ASSUME Inv, NEW s \in OpenScopes, work # <<>>, Top.copy # NoObject
    PROVE  Level[s.of] <= Level[Top.copy.of] /\ (s # Top.copy => Level[s.of] < Level[Top.copy.of])
<1> DEFINE n == Len(work)
<1>1. n \in 1 .. Len(work) /\ Top = work[n] /\ n \in Nat
  BY WorkIs DEF Inv
<1>2. Level[Top.copy.of] = Level[work[n].gen.of] /\ Level[Top.copy.of] \in Nat
  BY <1>1, CopyIs
<1>3. CASE s = design.contents
  <2>1. Level[s.of] < Level[work[n].gen.of]
    BY <1>1, <1>3 DEF Inv, Frames
  <2>2. Level[s.of] \in Nat
    BY <1>3, ContentsIs, Levels DEF Inv, Structure
  <2> HIDE DEF n
  <2> QED BY <1>2, <2>1, <2>2
<1>4. CASE s # design.contents
  <2>1. PICK k \in 1 .. Len(work) : s = work[k].copy /\ s # NoObject
    BY <1>4 DEF OpenScopes, CopiesOpen
  <2>2. Level[s.of] = Level[work[k].gen.of] /\ Level[s.of] \in Nat
    BY <2>1, CopyIs
  <2>3. k < n => Level[work[k].gen.of] < Level[work[n].gen.of]
    BY <1>1, <2>1 DEF Inv, Frames
  <2> QED BY <1>1, <1>2, <2>1, <2>2, <2>3
<1> QED BY <1>3, <1>4

\* The generates that are visited next.
LEMMA VisitableIs ==
    ASSUME Inv, NEW g \in Visitable, KindOf(g) \in GenerateKinds
    PROVE  /\ state = "visiting" /\ ~renaming
           /\ NextBase \in OpenScopes \cap Solid /\ g \in Generates(NextBase)
           /\ g \notin visited /\ g \in Solid \cap DOMAIN up /\ up[g] = NextBase /\ g \in Object
           /\ Level[NextBase.of] < Level[g.of] /\ Level[g.of] \in Nat
           /\ \A s \in OpenScopes : Level[s.of] <= Level[NextBase.of] /\ Level[s.of] \in Nat
           /\ \A k \in 1 .. Len(work) : work[k].copy # NoObject
           /\ \A k \in 1 .. Len(work) : Level[work[k].gen.of] < Level[g.of]
<1>1. state = "visiting" /\ ~renaming
  BY DEF Visitable
<1>2. work = <<>> => g \in Generates(design.contents)
  <2>1. g \notin Loops(design.contents)
    BY DEF Loops, GenerateKinds
  <2> QED BY <1>1, <2>1 DEF Visitable
<1>3. work # <<>> => Top.copy # NoObject /\ g \in Generates(Top.copy)
  BY <1>1 DEF Visitable
<1>4. Len(work) \in Nat /\ (work # <<>> => Len(work) > 0 /\ Top = work[Len(work)]) /\ (work = <<>> => Len(work) = 0)
  BY WorkIs DEF Inv
<1>5. design.contents \in Solid /\ design.contents # NoObject
  BY ContentsIs DEF Inv, Structure
<1>6. NextBase \in OpenScopes \cap Solid /\ g \in Generates(NextBase)
  <2>1. CASE work = <<>>
    BY <1>2, <1>5, <2>1 DEF NextBase, OpenScopes
  <2>2. CASE work # <<>>
    <3>1. Len(work) \in 1 .. Len(work) /\ work[Len(work)].copy # NoObject
      BY <1>3, <1>4, <2>2
    <3> QED BY <1>3, <1>4, <2>2, <3>1, CopyIs DEF NextBase
  <2> QED BY <2>1, <2>2
<1>7. g \notin visited /\ g \in Solid \cap DOMAIN up /\ up[g] = NextBase /\ Level[NextBase.of] < Level[g.of]
  BY <1>6, GeneratesAre DEF Generates, Inv
<1>8. g \in Object /\ Level[g.of] \in Nat
  BY <1>7, Levels DEF Inv, Structure, NodesTyped, Nodes, Solid
<1>9. \A k \in 1 .. Len(work) : work[k].copy # NoObject
  BY <1>3, <1>4 DEF Inv, Frames
<1>10. ASSUME NEW s \in OpenScopes PROVE Level[s.of] <= Level[NextBase.of] /\ Level[s.of] \in Nat
  <2>1. s \in Solid
    BY <1>5, CopyIs DEF OpenScopes, CopiesOpen
  <2>2. Level[s.of] \in Nat
    BY <2>1, Levels DEF Inv, Structure
  <2>3. CASE work = <<>>
    <3>1. CopiesOpen = {}
      BY <1>4, <2>3 DEF CopiesOpen
    <3> QED BY <2>2, <2>3, <3>1 DEF OpenScopes, NextBase
  <2>4. CASE work # <<>>
    BY <1>3, <1>4, <2>2, <2>4, LastDeepest DEF NextBase
  <2> QED BY <2>3, <2>4, <2>2
<1>11. ASSUME NEW k \in 1 .. Len(work) PROVE Level[work[k].gen.of] < Level[g.of]
  <2>1. work[k].copy \in OpenScopes /\ Level[work[k].copy.of] = Level[work[k].gen.of]
    BY <1>9, CopyIs
  <2>2. NextBase \in OpenScopes
    BY <1>6
  <2>3. Level[work[k].copy.of] <= Level[NextBase.of] /\ Level[work[k].copy.of] \in Nat /\ Level[NextBase.of] \in Nat
    BY <1>10, <2>1, <2>2
  <2> QED BY <1>7, <1>8, <2>1, <2>3
<1> QED BY <1>1, <1>6, <1>7, <1>8, <1>9, <1>10, <1>11

\* It is one of the heads.
LEMMA VisitableHead ==
    ASSUME Inv, NEW g \in Visitable, KindOf(g) \in GenerateKinds
    PROVE  g \in Heads
<1>1. NextBase \in OpenScopes /\ g \in Generates(NextBase) /\ g \notin visited
  BY VisitableIs
<1>2. ASSUME NEW k \in 1 .. Len(work) PROVE g # work[k].copy
  <2>1. Level[work[k].gen.of] < Level[g.of] /\ work[k].copy # NoObject
    BY VisitableIs
  <2>2. Level[work[k].copy.of] = Level[work[k].gen.of] /\ Level[work[k].copy.of] \in Nat
    BY <2>1, CopyIs
  <2> QED BY <2>1, <2>2
<1> QED BY <1>1, <1>2 DEF Heads, Roots, CopiesOpen

-----------------------------------------------------------------------------
(* Steps that add no head. *)

\* In a tree that is left alone nothing comes under a node or leaves.
LEMMA UnderSame ==
    ASSUME Structure, UNCHANGED treeVars
    PROVE  \A a : Under(a)' = Under(a)
<1>1. up' = up /\ lists' = lists
  BY DEF treeVars
<1>2. Structure' /\ (NodesTyped /\ UpTyped => Tree)'
  BY TreeKept, TreeUnder, PTL
<1>3. Tree /\ Tree'
  BY <1>2, TreeUnder DEF Structure
<1>4. ASSUME NEW a PROVE Under(a)' = Under(a)
  <2>1. Under(a) \subseteq Solid' /\ Solid' = Solid /\ DOMAIN up' = DOMAIN up
    BY <1>1 DEF Under, Solid
  <2>2. \A x \in Solid : x \in Under(a) <=> (x = a \/ (x \in DOMAIN up' /\ up'[x] \in Under(a)))
    BY <1>1, <1>3, UnderStep
  <2> QED BY <1>3, <2>1, <2>2, UnderKept
<1> QED BY <1>4

\* What is apart and outside stays so.
LEMMA ApartKept ==
    ASSUME HeadsApart, OpenOutside, Heads' \subseteq Heads, OpenScopes' \subseteq OpenScopes,
           \A a \in Heads' : Under(a)' \subseteq Under(a)
    PROVE  HeadsApart' /\ OpenOutside'
BY DEF HeadsApart, OpenOutside

\* What extends what is under a head has its own value there.
LEMMA ExtTyped ==
    ASSUME NodesTyped, NEW x \in Solid, NEW o \in Solid, Ext(x, o)
    PROVE  x.at[Len(o.at) + 1] \in Int
<1>1. x.at \in Seq(Int) /\ o.at \in Seq(Int)
  BY DEF NodesTyped, Nodes, Solid, Object
<1>2. Len(x.at) \in Nat /\ Len(o.at) \in Nat /\ Len(x.at) > Len(o.at)
  BY <1>1 DEF Ext
<1>3. Len(o.at) + 1 \in 1 .. Len(x.at)
  BY <1>2
<1> QED BY <1>1, <1>3

\* Copies that are fresh stay so.
LEMMA FreshKept ==
    ASSUME NodesTyped, CopiesFresh, Heads' \subseteq Heads, Solid' \subseteq Solid,
           \A a \in Heads' : Under(a)' \subseteq Under(a),
           \A a \in Heads' : \A i \in Int : Reached(a, i) => Reached(a, i)'
    PROVE  CopiesFresh'
<1> SUFFICES ASSUME NEW a \in Heads', NEW o \in Under(a)', NEW x \in Solid', Ext(x, o)
             PROVE  Reached(a, x.at[Len(o.at) + 1])'
  BY DEF CopiesFresh
<1>1. o \in Under(a) /\ o \in Solid /\ x \in Solid /\ a \in Heads
  BY DEF Under
<1>2. PICK i : i = x.at[Len(o.at) + 1]
  OBVIOUS
<1>3. i \in Int /\ Reached(a, i)
  BY <1>1, <1>2, ExtTyped DEF CopiesFresh
<1>4. Reached(a, i)'
  BY <1>3
<1> QED BY <1>2, <1>4

\* A frame stays what it is if its nodes stay where they are.
LEMMA FrameStays ==
    ASSUME NEW k, Framed(k), work'[k] = work[k], Base(k)' = Base(k), visited \subseteq visited',
           work[k].gen \in Solid', work[k].gen \in DOMAIN up' <=> work[k].gen \in DOMAIN up,
           work[k].gen \in DOMAIN up => up'[work[k].gen] = up[work[k].gen],
           work[k].copy # NoObject =>
               work[k].copy \in Solid' \cap DOMAIN up' /\ up'[work[k].copy] = up[work[k].copy]
    PROVE  Framed(k)'
<1>1. PICK f : f = work[k]
  OBVIOUS
<1>2. PICK b : b = Base(k)
  OBVIOUS
<1>3. FrameIs(f, b)
  BY <1>1, <1>2 DEF Framed
<1>4. FrameIs(f, b)'
  BY <1>1, <1>3 DEF FrameIs
<1>5. work'[k] = f /\ Base(k)' = b
  BY <1>1, <1>2
<1> QED BY <1>4, <1>5 DEF Framed, FrameIs

-----------------------------------------------------------------------------
(* Visiting a generate. *)

\* What is kept when the tree is.
QuietKept ==
    /\ Structure' /\ NamesTyped' /\ DesignTyped' /\ Registered' /\ FreshNamesDiffer' /\ passes' \in Nat
    /\ Solid' = Solid /\ up' = up /\ lists' = lists /\ design' = design /\ renaming' = renaming
    /\ \A a : Under(a)' = Under(a)

\* A step of the visitor that changes nothing in the tree.
LEMMA QuietKeeps ==
    ASSUME GenerateInv, Inv, Quiet
    PROVE  ApartStep /\ QuietKept
<1>1. UNCHANGED scopeVars /\ design' = design /\ renaming' = renaming /\ passes' = passes
  BY DEF Quiet, read
<1>2. up' = up /\ lists' = lists /\ UNCHANGED treeVars
  BY <1>1 DEF scopeVars, treeVars
<1>3. Structure /\ NamesOk
  BY DEF GenerateInv, Inv, NamesOk
<1>4. ApartStep /\ Solid' = Solid /\ Structure' /\ NamesOk'
  BY <1>1, <1>3, ScopesKept
<1>5. DesignTyped'
  BY <1>1, <1>4 DEF Inv, DesignTyped, System
<1>6. \A a : Under(a)' = Under(a)
  BY <1>2, <1>3, UnderSame
<1> QED BY <1>1, <1>2, <1>4, <1>5, <1>6 DEF QuietKept, NamesOk, GenerateInv

\* A generate is left where it is, whether or not it is to be thrown away.
Passed(g) == visited' = visited \cup {g} /\ work' = work /\ state' = state /\ Quiet

\* A generate or loop that is left, or thrown away.
LEMMA PassedKeeps ==
    ASSUME GenerateInv, Visitable # {}, NEW g, Passed(g)
    PROVE  GenerateInv' /\ ApartStep
<1>1. state = "visiting" /\ ~renaming
  BY DEF Visitable
<1>2. Inv
  BY <1>1 DEF GenerateInv
<1>3. ApartStep /\ QuietKept
  BY <1>2, QuietKeeps DEF Passed
<1>4. visited \subseteq visited' /\ g \in visited' /\ work' = work /\ state' = state
  BY DEF Passed
<1>5. Frames'
  <2>1. \A k : Base(k)' = Base(k)
    BY <1>3, <1>4 DEF Base, QuietKept
  <2>2. ASSUME NEW k \in 1 .. Len(work) PROVE Framed(k)'
    <3>1. Framed(k) /\ FrameIs(work[k], Base(k))
      BY <1>2 DEF Inv, Frames, Framed
    <3>2. work[k].gen \in Solid /\ (work[k].copy # NoObject => work[k].copy \in Solid \cap DOMAIN up)
      BY <3>1 DEF FrameIs
    <3> QED BY <1>3, <1>4, <2>1, <3>1, <3>2, FrameStays DEF QuietKept
  <2> QED BY <1>2, <1>3, <1>4, <2>2 DEF Inv, Frames, QuietKept
<1>6. Heads' \subseteq Heads /\ OpenScopes' = OpenScopes
  <2>1. \A s : Generates(s)' \subseteq Generates(s)
    BY <1>3, <1>4 DEF Generates, Listed, QuietKept
  <2>2. CopiesOpen' = CopiesOpen /\ OpenScopes' = OpenScopes
    BY <1>3, <1>4 DEF CopiesOpen, OpenScopes, QuietKept
  <2> QED BY <1>4, <2>1, <2>2 DEF Heads, Roots
<1>7. HeadsApart' /\ OpenOutside'
  BY <1>2, <1>3, <1>6, ApartKept DEF Inv, QuietKept
<1>8. CopiesFresh'
  <2>1. \A a, i : Reached(a, i) => Reached(a, i)'
    BY <1>4 DEF Reached
  <2> QED BY <1>2, <1>3, <1>6, <2>1, FreshKept DEF Inv, Structure, QuietKept
<1>9. Inv'
  BY <1>3, <1>4, <1>5, <1>7, <1>8 DEF Inv, Phases, QuietKept
<1> QED BY <1>1, <1>3, <1>9 DEF GenerateInv, Renames, QuietKept

\* An assertion stops the program.
LEMMA AssertionKeeps ==
    ASSUME GenerateInv, NEW g \in Visitable, Assertion(g)
    PROVE  GenerateInv' /\ ApartStep
<1>1. state = "visiting" /\ ~renaming /\ state' = "stopped" /\ Quiet
  BY DEF Visitable, Assertion
<1>2. Inv
  BY <1>1 DEF GenerateInv
<1>3. ApartStep /\ QuietKept
  BY <1>1, <1>2, QuietKeeps
<1> QED BY <1>1, <1>3 DEF GenerateInv, Renames, QuietKept

-----------------------------------------------------------------------------
(* The expansion of a generate begins. *)

\* The first frame of a for generate, or the only one of an if generate.
FirstFrame(frame, g) ==
    /\ frame \in FrameType /\ frame.gen = g
    /\ KindOf(g) = "ForGenerate" => frame.copy = NoObject /\ frame.bounds.step > 0
    /\ KindOf(g) = "IfGenerate" => frame.copy = g

\* A generate whose expansion begins.
LEMMA BeginKeeps ==
    ASSUME GenerateInv, NEW g \in Visitable, KindOf(g) \in GenerateKinds, NEW frame, FirstFrame(frame, g),
           Begin(frame)
    PROVE  GenerateInv' /\ ApartStep
<1>1. state = "visiting" /\ ~renaming
  BY DEF Visitable
<1>2. Inv /\ Structure /\ Tree
  BY <1>1, TreeUnder DEF GenerateInv, Inv, Structure
<1>3. /\ NextBase \in OpenScopes \cap Solid /\ g \in Generates(NextBase)
      /\ g \notin visited /\ g \in Solid \cap DOMAIN up /\ up[g] = NextBase
      /\ Level[NextBase.of] < Level[g.of] /\ Level[g.of] \in Nat
      /\ \A s \in OpenScopes : Level[s.of] <= Level[NextBase.of] /\ Level[s.of] \in Nat
      /\ \A k \in 1 .. Len(work) : work[k].copy # NoObject
      /\ \A k \in 1 .. Len(work) : Level[work[k].gen.of] < Level[g.of]
  BY <1>2, VisitableIs
<1>4. g \in Heads
  BY <1>2, VisitableHead
<1>5. ApartStep /\ QuietKept /\ state' = state
  BY <1>2, QuietKeeps DEF Begin
<1>6. visited' = visited \cup {g} /\ work' = Append(work, frame)
  BY DEF Begin, FirstFrame
<1>6a. PICK n : n = Len(work)
  OBVIOUS
<1>7. /\ n \in Nat /\ work' \in Seq(FrameType) /\ Len(work') = n + 1 /\ work'[n + 1] = frame
      /\ \A k \in 1 .. n : work'[k] = work[k]
  <2>1. work \in Seq(FrameType) /\ frame \in FrameType
    BY <1>2 DEF Inv, Frames, FirstFrame
  <2> QED BY <1>6, <1>6a, <2>1, AppendProperties, LenProperties
<1>8. n + 1 \in 1 .. Len(work') /\ \A k \in 1 .. Len(work') : k \in 1 .. n \/ k = n + 1
  BY <1>6a, <1>7
<1>9. \A k \in 1 .. n : Base(k)' = Base(k)
  <2> SUFFICES ASSUME NEW k \in 1 .. n PROVE Base(k)' = Base(k)
    OBVIOUS
  <2>1. k # 1 => k - 1 \in 1 .. n
    BY <1>6a, <1>7
  <2> QED BY <2>1, <1>5, <1>6a, <1>7 DEF Base, QuietKept
<1>10. Base(n + 1)' = NextBase
  <2>1. work = <<>> <=> n = 0
    BY <1>2, <1>6a, EmptySeq DEF Inv, Frames
  <2>2. (n + 1 = 1 <=> n = 0) /\ (n + 1) - 1 = n
    BY <1>6a, <1>7
  <2>3. n # 0 => n \in 1 .. n
    BY <1>6a, <1>7
  <2>4. Base(n + 1)' = IF n = 0 THEN design'.contents ELSE work'[n].copy
    BY <2>2 DEF Base
  <2>5. NextBase = IF n = 0 THEN design.contents ELSE work[n].copy
    BY <2>1, <1>6a DEF NextBase
  <2> QED BY <2>3, <2>4, <2>5, <1>5, <1>6a, <1>7 DEF QuietKept
<1>11. Frames'
  <2>1. ASSUME NEW k \in 1 .. n PROVE Framed(k)' /\ work[k].copy # NoObject
    <3>1. Framed(k) /\ FrameIs(work[k], Base(k))
      BY <1>2, <1>6a DEF Inv, Frames, Framed
    <3>2. work'[k] = work[k] /\ Base(k)' = Base(k) /\ work[k].copy # NoObject
      BY <1>3, <1>6a, <1>7, <1>9
    <3>3. work[k].gen \in Solid /\ work[k].copy \in Solid \cap DOMAIN up
      BY <3>1, <3>2 DEF FrameIs
    <3>4. visited \subseteq visited' /\ Solid' = Solid /\ up' = up
      BY <1>5, <1>6 DEF QuietKept
    <3> QED BY <3>1, <3>2, <3>3, <3>4, FrameStays
  <2>2. Framed(n + 1)'
    <3>1. frame.gen = g /\ work'[n + 1] = frame /\ Base(n + 1)' = NextBase
      BY <1>6a, <1>7, <1>10 DEF FirstFrame
    <3>2. g # NoObject
      BY <1>2, <1>3 DEF Structure, NodesTyped, Nodes, Solid
    <3>3. PICK b : b = NextBase
      OBVIOUS
    <3>4. Solid' = Solid /\ up' = up /\ g \in visited'
      BY <1>5, <1>6 DEF QuietKept
    <3>5. FrameIs(frame, b)'
      BY <1>3, <3>1, <3>2, <3>3, <3>4 DEF FrameIs, FirstFrame, GenerateKinds
    <3> QED BY <3>1, <3>3, <3>5 DEF Framed, FrameIs
  <2>3. Level[design.contents.of] < Level[g.of]
    <3>1. design.contents \in OpenScopes
      BY <1>2, ContentsIs DEF OpenScopes, Inv, Structure
    <3>2. Level[NextBase.of] \in Nat /\ Level[design.contents.of] \in Nat /\ Level[design.contents.of] <= Level[NextBase.of]
      BY <1>3, <3>1
    <3> QED BY <1>3, <3>2
  <2>4. \A k \in 1 .. n : /\ Level[design.contents.of] < Level[work[k].gen.of]
                          /\ \A j \in 1 .. n : j < k => Level[work[j].gen.of] < Level[work[k].gen.of]
    BY <1>2, <1>6a DEF Inv, Frames
  <2>5. frame.gen = g
    BY DEF FirstFrame
  <2>6. ASSUME NEW k \in 1 .. Len(work')
        PROVE  /\ Framed(k)' /\ (work'[k].copy = NoObject => k = Len(work'))
               /\ Level[design'.contents.of] < Level[work'[k].gen.of]
    <3>1. CASE k \in 1 .. n
      BY <1>5, <1>6a, <1>7, <2>1, <2>4, <3>1 DEF QuietKept
    <3>2. CASE k = n + 1
      BY <1>5, <1>6a, <1>7, <2>2, <2>3, <2>5, <3>2 DEF QuietKept
    <3> QED BY <1>8, <3>1, <3>2
  <2>7. ASSUME NEW j \in 1 .. Len(work'), NEW k \in 1 .. Len(work'), j < k
        PROVE  Level[work'[j].gen.of] < Level[work'[k].gen.of]
    <3>1. CASE k \in 1 .. n
      <4>1. j \in 1 .. n
        BY <1>6a, <1>7, <2>7, <3>1
      <4> QED BY <1>6a, <1>7, <2>4, <2>7, <3>1, <4>1
    <3>2. CASE k = n + 1
      <4>1. j \in 1 .. n
        BY <1>6a, <1>7, <2>7, <3>2
      <4> QED BY <1>3, <1>6a, <1>7, <2>5, <3>2, <4>1
    <3> QED BY <1>8, <3>1, <3>2
  <2> QED BY <1>6a, <1>7, <2>6, <2>7 DEF Frames
<1>12. \A a, i : Reached(a, i) => Reached(a, i)'
  BY <1>6a, <1>7 DEF Reached
<1>13. \A s : Generates(s)' \subseteq Generates(s) \ {g}
  BY <1>5, <1>6 DEF Generates, Listed, QuietKept
<1>14. \A a : Under(a)' = Under(a)
  BY <1>5 DEF QuietKept
<1>15. \A s : s \in CopiesOpen' => s \in CopiesOpen \/ s = frame.copy
  BY <1>6a, <1>7, <1>8 DEF CopiesOpen
<1>16. \A s \in CopiesOpen : s \in CopiesOpen'
  BY <1>6a, <1>7 DEF CopiesOpen
<1>17. {work'[k].gen : k \in 1 .. Len(work')} \subseteq {work[k].gen : k \in 1 .. n} \cup {g}
  BY <1>6a, <1>7, <1>8 DEF FirstFrame
<1>18. ASSUME HeadsApart' /\ OpenOutside' /\ CopiesFresh' PROVE GenerateInv'
  <2>1. Inv'
    BY <1>5, <1>6, <1>11, <1>18 DEF Inv, Phases, QuietKept
  <2> QED BY <1>1, <1>5, <2>1 DEF GenerateInv, Renames, QuietKept
<1>19. CASE KindOf(g) = "ForGenerate"
  <2>1. frame.copy = NoObject
    BY <1>19 DEF FirstFrame
  <2>2. OpenScopes' \subseteq OpenScopes
    BY <2>1, <1>5, <1>15 DEF OpenScopes, QuietKept
  <2>3. Roots' \subseteq Roots
    BY <2>2, <1>13, <1>16 DEF Roots
  <2>4. Heads' \subseteq Heads
    BY <2>3, <1>4, <1>6a, <1>17 DEF Heads
  <2>5. HeadsApart' /\ OpenOutside'
    BY <1>2, <1>14, <2>2, <2>4, ApartKept DEF Inv
  <2>6. CopiesFresh'
    BY <1>2, <1>5, <1>12, <1>14, <2>4, FreshKept DEF Inv, Structure, QuietKept
  <2> QED BY <1>5, <1>18, <2>5, <2>6
<1>20. CASE KindOf(g) = "IfGenerate"
  <2>1. frame.copy = g
    BY <1>20 DEF FirstFrame
  <2>2. OpenScopes' \subseteq OpenScopes \cup {g}
    BY <2>1, <1>5, <1>15 DEF OpenScopes, QuietKept
  <2>3. g \in CopiesOpen'
    BY <2>1, <1>6a, <1>7, <1>8 DEF CopiesOpen
  <2>4. Roots' \subseteq (Roots \cup Generates(g)) \ {g}
    BY <2>2, <2>3, <1>13, <1>16 DEF Roots
  <2>5. ASSUME NEW a \in Heads' PROVE a # g /\ (a \in Heads \/ a \in Generates(g))
    <3>1. CASE a \in Roots'
      BY <2>4, <3>1 DEF Heads
    <3>2. CASE a \in {work'[k].gen : k \in 1 .. Len(work')} /\ KindOf(a) = "ForGenerate"
      BY <1>6a, <1>17, <1>20, <3>2 DEF Heads
    <3> QED BY <2>5, <3>1, <3>2 DEF Heads
  <2>6. ASSUME NEW a \in Generates(g)
        PROVE  /\ a \in Solid \cap DOMAIN up /\ up[a] = g /\ Level[g.of] < Level[a.of] /\ Level[a.of] \in Nat
               /\ a \in Under(g) /\ Under(a) \subseteq Under(g) /\ g \notin Under(a)
    <3>1. a \in Solid \cap DOMAIN up /\ up[a] = g /\ Level[g.of] < Level[a.of] /\ Level[a.of] \in Nat
      BY <1>2, <1>3, GeneratesAre, Levels DEF Generates, Structure
    <3>2. a \in Under(g)
      BY <1>2, <1>3, <3>1, UnderStep
    <3>3. Under(a) \subseteq Under(g)
      BY <1>2, <3>2, UnderIncluded DEF Tree
    <3>4. g \in Under(a) => Level[a.of] <= Level[g.of]
      BY <1>2, UnderLevel DEF Tree
    <3> QED BY <1>3, <3>1, <3>2, <3>3, <3>4
  <2>7. g \in Under(g)
    BY <1>2, <1>3, UnderStep
  <2>8. ASSUME NEW a \in Heads', NEW b \in Heads', a # b PROVE Under(a) \cap Under(b) = {}
    <3>1. CASE a \in Heads /\ b \in Heads
      BY <1>2, <2>8, <3>1 DEF Inv, HeadsApart
    <3>2. CASE a \in Generates(g) /\ b \in Generates(g)
      BY <1>2, <2>6, <2>8, <3>2, SiblingsApart DEF Tree
    <3>3. CASE a \in Heads /\ b \in Generates(g)
      BY <1>2, <1>4, <2>5, <2>6, <3>3 DEF Inv, HeadsApart
    <3>4. CASE b \in Heads /\ a \in Generates(g)
      BY <1>2, <1>4, <2>5, <2>6, <3>4 DEF Inv, HeadsApart
    <3> QED BY <2>5, <3>1, <3>2, <3>3, <3>4
  <2>9. HeadsApart'
    BY <1>14, <2>8 DEF HeadsApart
  <2>10. ASSUME NEW a \in Heads', NEW s \in OpenScopes' PROVE s \notin Under(a)
    <3>1. CASE a \in Heads /\ s \in OpenScopes
      BY <1>2, <3>1 DEF Inv, OpenOutside
    <3>2. CASE a \in Heads /\ s = g
      BY <1>2, <1>4, <2>5, <2>7, <3>2 DEF Inv, HeadsApart
    <3>3. CASE a \in Generates(g) /\ s \in OpenScopes
      BY <1>2, <1>4, <2>6, <3>3 DEF Inv, OpenOutside
    <3>4. CASE a \in Generates(g) /\ s = g
      BY <2>6, <3>4
    <3> QED BY <2>2, <2>5, <3>1, <3>2, <3>3, <3>4
  <2>11. OpenOutside'
    BY <1>14, <2>10 DEF OpenOutside
  <2>12. \A i : ~Reached(g, i)
    <3>1. \A k \in 1 .. Len(work) : work[k].gen # g
      BY <1>2, <1>3 DEF Inv, Frames, Framed, FrameIs
    <3> QED BY <3>1 DEF Reached
  <2>13. CopiesFresh'
    <3> SUFFICES ASSUME NEW a \in Heads', NEW o \in Under(a), NEW x \in Solid, Ext(x, o)
                 PROVE  Reached(a, x.at[Len(o.at) + 1])'
      BY <1>5, <1>14 DEF CopiesFresh, QuietKept
    <3>1. CASE a \in Heads
      <4>1. Reached(a, x.at[Len(o.at) + 1])
        BY <1>2, <3>1 DEF Inv, CopiesFresh
      <4> QED BY <1>12, <4>1
    <3>2. CASE a \in Generates(g)
      <4>1. o \in Under(g)
        BY <2>6, <3>2
      <4> QED BY <1>2, <1>4, <2>12, <4>1 DEF Inv, CopiesFresh
    <3> QED BY <2>5, <3>1, <3>2
  <2> QED BY <1>5, <1>18, <2>9, <2>11, <2>13
<1> QED BY <1>19, <1>20 DEF GenerateKinds

\* Division by a positive number.
LEMMA Quotient ==
    ASSUME NEW a \in Int, NEW b \in Int, b > 0
    PROVE  a \div b \in Int
OBVIOUS

\* The bounds that are found are of integers, and the step goes forward.
LEMMA BoundsTyped ==
    ASSUME NEW h \in HeaderType, ResolveForLoopBound(h).resolved
    PROVE  ResolveForLoopBound(h) \in BoundsType /\ ResolveForLoopBound(h).step > 0
<1>1. h.init \in Int /\ h.bound \in Int /\ h.step \in Int
  BY DEF HeaderType
<1>2. ~Unresolved.resolved
  BY DEF Unresolved
<1>3. CASE ResolveForLoopBound(h) = RangeCase(h)
  <2>1. PICK width : width = 1 + (IF h.condition = "upto" THEN h.bound - h.init ELSE h.init - h.bound)
    OBVIOUS
  <2>2. PICK low : low = IF h.condition = "upto" THEN h.init ELSE h.bound
    OBVIOUS
  <2>3. width \in Int /\ low \in Int
    BY <1>1, <2>1, <2>2
  <2>4. RangeCase(h) = IF width <= 0 THEN Unresolved
                       ELSE [resolved |-> TRUE, loops |-> width, min |-> low, max |-> low + width - 1, step |-> 1]
    BY <2>1, <2>2 DEF RangeCase
  <2>5. RangeCase(h) = [resolved |-> TRUE, loops |-> width, min |-> low, max |-> low + width - 1, step |-> 1]
    BY <1>2, <1>3, <2>4
  <2> QED BY <1>3, <2>3, <2>5 DEF BoundsType
<1>4. CASE ResolveForLoopBound(h) = CalculateIterations(h)
  <2>1. PICK inc : inc = Increment(h)
    OBVIOUS
  <2>2. inc \in Int /\ Distance(h) \in Int
    BY <1>1, <2>1 DEF Increment, Distance
  <2>3. PICK loops : loops = IF Distance(h) < 0 \/ (Distance(h) = 0 /\ ~Inclusive(h)) THEN 0
                             ELSE (IF Inclusive(h) THEN Distance(h) ELSE Distance(h) - 1) \div inc + 1
    OBVIOUS
  <2>4. PICK reach : reach = IF loops = 0 THEN 0 ELSE (loops - 1) * inc
    OBVIOUS
  <2>5. CalculateIterations(h) =
          IF inc <= 0 \/ h.condition \notin Upward \cup Downward THEN Unresolved
          ELSE [resolved |-> TRUE, loops |-> loops,
                min |-> IF h.condition \in Upward THEN h.init ELSE h.init - reach,
                max |-> IF h.condition \in Upward THEN h.init + reach ELSE h.init,
                step |-> inc]
    BY <2>1, <2>3, <2>4 DEF CalculateIterations
  <2>6. inc > 0 /\ CalculateIterations(h) =
          [resolved |-> TRUE, loops |-> loops,
           min |-> IF h.condition \in Upward THEN h.init ELSE h.init - reach,
           max |-> IF h.condition \in Upward THEN h.init + reach ELSE h.init,
           step |-> inc]
    BY <1>2, <1>4, <2>2, <2>5
  <2>7. loops \in Int
    <3>1. Distance(h) \div inc \in Int /\ (Distance(h) - 1) \div inc \in Int
      BY <2>2, <2>6, Quotient
    <3> QED BY <2>3, <3>1
  <2>8. reach \in Int
    BY <2>2, <2>4, <2>7
  <2> QED BY <1>1, <1>4, <2>2, <2>6, <2>7, <2>8 DEF BoundsType
<1>5. \/ ResolveForLoopBound(h) = Unresolved \/ ResolveForLoopBound(h) = RangeCase(h)
      \/ ResolveForLoopBound(h) = CalculateIterations(h)
  BY DEF ResolveForLoopBound
<1> QED BY <1>2, <1>3, <1>4, <1>5

\* A header is what was read, or has the bound that the copy around gives it.
LEMMA HeaderTyped ==
    ASSUME Inv, NEW g \in Solid, KindOf(g) \in GenerateKinds \cup {"For"}
    PROVE  Header(g) \in HeaderType
<1>1. PICK h : h = design.header[g.of]
  OBVIOUS
<1>2. h \in HeaderType
  BY <1>1 DEF Inv, DesignTyped, GenerateKinds
<1>3. g.at \in Seq(Int)
  BY DEF Inv, Structure, NodesTyped, Nodes, Solid, Object
<1>4. CASE h.outer /\ g.at # <<>>
  <2>1. Last(g.at) \in Int
    BY <1>3, <1>4 DEF Last
  <2>2. Header(g) = [h EXCEPT !.bound = Last(g.at), !.known = TRUE]
    BY <1>1, <1>4 DEF Header
  <2> QED BY <1>2, <2>1, <2>2 DEF HeaderType
<1>5. CASE ~(h.outer /\ g.at # <<>>)
  BY <1>1, <1>2, <1>5 DEF Header
<1> QED BY <1>4, <1>5

\* A for generate is visited.
LEMMA VisitForKeeps ==
    ASSUME GenerateInv, VisitForGenerate
    PROVE  GenerateInv' /\ ApartStep
<1>1. PICK g \in Visitable :
        /\ KindOf(g) = "ForGenerate"
        /\ \/ ThrowAway(g) \/ Assertion(g) \/ Skip(g)
           \/ /\ ResolveForLoopBound(Header(g)).resolved
              /\ Begin([gen |-> g, copy |-> NoObject, next |-> ResolveForLoopBound(Header(g)).min,
                        bounds |-> ResolveForLoopBound(Header(g))])
  BY Zenon DEF VisitForGenerate
<1>2. CASE ThrowAway(g) \/ Skip(g)
  <2>1. Passed(g)
    BY <1>2 DEF ThrowAway, Skip, Passed
  <2> QED BY <2>1, PassedKeeps
<1>3. CASE Assertion(g)
  BY <1>3, AssertionKeeps
<1>4. ASSUME NEW b, b = ResolveForLoopBound(Header(g)), b.resolved,
             Begin([gen |-> g, copy |-> NoObject, next |-> b.min, bounds |-> b])
      PROVE  GenerateInv' /\ ApartStep
  <2>1. Inv
    BY DEF GenerateInv, Visitable
  <2>2. KindOf(g) \in GenerateKinds
    BY <1>1 DEF GenerateKinds
  <2>3. g \in Solid /\ g \in Object
    BY <2>1, <2>2, VisitableIs
  <2>4. b \in BoundsType /\ b.step > 0
    BY <1>4, <2>1, <2>2, <2>3, HeaderTyped, BoundsTyped
  <2>5. FirstFrame([gen |-> g, copy |-> NoObject, next |-> b.min, bounds |-> b], g)
    BY <1>1, <2>3, <2>4 DEF FirstFrame, FrameType, BoundsType
  <2> QED BY <1>4, <2>2, <2>5, BeginKeeps
<1> QED BY <1>1, <1>2, <1>3, <1>4

\* A generate is visited before it is expanded.
LEMMA PreVisitKeeps ==
    ASSUME GenerateInv, PreVisit
    PROVE  GenerateInv' /\ ApartStep
<1>1. PICK g \in Visitable : \E o \in Useless(g) : ThrowAway(o)
  BY DEF PreVisit
<1>2. PICK o \in Useless(g) : ThrowAway(o)
  BY <1>1
<1>3. Visitable # {} /\ Passed(o)
  BY <1>1, <1>2 DEF ThrowAway, Passed
<1> QED BY <1>3, PassedKeeps

\* An if generate is visited.
LEMMA VisitIfKeeps ==
    ASSUME GenerateInv, VisitIfGenerate
    PROVE  GenerateInv' /\ ApartStep
<1>1. PICK g \in Visitable :
        /\ KindOf(g) = "IfGenerate"
        /\ \/ ThrowAway(g) \/ Skip(g)
           \/ Begin([gen |-> g, copy |-> g, next |-> 0, bounds |-> Unresolved])
  BY DEF VisitIfGenerate
<1>2. CASE ThrowAway(g) \/ Skip(g)
  <2>1. Passed(g)
    BY <1>2 DEF ThrowAway, Skip, Passed
  <2> QED BY <2>1, PassedKeeps
<1>3. CASE Begin([gen |-> g, copy |-> g, next |-> 0, bounds |-> Unresolved])
  <2>1. Inv
    BY DEF GenerateInv, Visitable
  <2>2. KindOf(g) \in GenerateKinds
    BY <1>1 DEF GenerateKinds
  <2>3. g \in Object
    BY <2>1, <2>2, VisitableIs
  <2>4. FirstFrame([gen |-> g, copy |-> g, next |-> 0, bounds |-> Unresolved], g)
    BY <1>1, <2>3 DEF FirstFrame, FrameType, BoundsType, Unresolved
  <2> QED BY <1>3, <2>2, <2>4, BeginKeeps
<1> QED BY <1>1, <1>2, <1>3

-----------------------------------------------------------------------------
(* The expansion of a generate ends. *)

\* A generate has been expanded.
LEMMA FinishKeeps ==
    ASSUME GenerateInv, Finish
    PROVE  GenerateInv' /\ ApartStep
<1>1. /\ work # <<>> /\ state = "visiting" /\ work' = Front(work) /\ Quiet
      /\ UNCHANGED <<valued, visited, state>>
      /\ Top.copy = NoObject \/ Top.copy = Top.gen
  BY DEF Finish
<1>2. Inv
  BY <1>1 DEF GenerateInv
<1>3. ApartStep /\ QuietKept
  BY <1>1, <1>2, QuietKeeps
<1>4. PICK n : n = Len(work)
  OBVIOUS
<1>5. n \in Nat /\ n > 0 /\ Top = work[n] /\ n \in 1 .. n
  BY <1>1, <1>2, <1>4, WorkIs DEF Inv
<1>6. /\ work' \in Seq(FrameType) /\ Len(work') = n - 1
      /\ \A k \in 1 .. n - 1 : work'[k] = work[k]
  <2>1. work \in Seq(FrameType) /\ \A k \in 1 .. n - 1 : work[k] \in FrameType
    BY <1>2, <1>4, <1>5, WorkIs DEF Inv, Frames
  <2>2. work' = SubSeq(work, 1, n - 1)
    BY <1>1, <1>4 DEF Front
  <2>3. /\ work' \in Seq(FrameType) /\ Len(work') = IF 1 <= n - 1 THEN n - 1 - 1 + 1 ELSE 0
        /\ \A k \in 1 .. n - 1 - 1 + 1 : work'[k] = work[1 + k - 1]
    BY <1>5, <2>1, <2>2, SubSeqProperties
  <2> QED BY <1>5, <2>3
<1>7. ASSUME NEW k \in 1 .. n - 1
      PROVE  /\ k \in 1 .. n /\ Base(k)' = Base(k) /\ Framed(k) /\ work[k].copy # NoObject
             /\ Level[design.contents.of] < Level[work[k].gen.of]
             /\ Level[work[k].gen.of] < Level[work[n].gen.of]
  <2>1. k \in 1 .. n /\ k < n /\ (k # 1 => k - 1 \in 1 .. n - 1)
    BY <1>5
  <2>2. Base(k)' = Base(k)
    BY <1>3, <1>6, <2>1 DEF Base, QuietKept
  <2> QED BY <1>2, <1>4, <1>5, <2>1, <2>2 DEF Inv, Frames
<1>8. visited' = visited
  BY <1>1
<1>9. Frames'
  <2>1. ASSUME NEW k \in 1 .. n - 1 PROVE Framed(k)'
    <3>1. work[k].gen \in Solid /\ work[k].copy \in Solid \cap DOMAIN up
      BY <1>7 DEF Framed, FrameIs
    <3> QED BY <1>3, <1>6, <1>7, <1>8, <3>1, FrameStays DEF QuietKept
  <2>2. \A j, k \in 1 .. n - 1 : j < k => Level[work[j].gen.of] < Level[work[k].gen.of]
    BY <1>2, <1>4, <1>7 DEF Inv, Frames
  <2> QED BY <1>3, <1>6, <1>7, <2>1, <2>2 DEF Frames, QuietKept
<1>10. Framed(n) /\ work[n].gen \in visited
  BY <1>2, <1>4, <1>5 DEF Inv, Frames, Framed, FrameIs
<1>11. \A s : Generates(s)' = Generates(s)
  BY <1>3, <1>8 DEF Generates, Listed, QuietKept
<1>12. CopiesOpen' \subseteq CopiesOpen /\ CopiesOpen \subseteq CopiesOpen' \cup {work[n].copy}
  <2>1. \A k \in 1 .. n : k = n \/ k \in 1 .. n - 1
    BY <1>5
  <2> QED BY <1>4, <1>6, <1>7, <2>1 DEF CopiesOpen
<1>13. OpenScopes' \subseteq OpenScopes
  BY <1>3, <1>12 DEF OpenScopes, QuietKept
<1>14. work[n].copy \notin UNION {Generates(s) : s \in OpenScopes}
  <2> SUFFICES ASSUME NEW s \in OpenScopes, work[n].copy \in Generates(s) PROVE FALSE
    OBVIOUS
  <2>1. work[n].copy # work[n].gen
    BY <1>10 DEF Generates
  <2>2. work[n].copy = NoObject
    BY <1>1, <1>5, <2>1
  <2>3. s \in Solid
    BY <1>2, ContentsIs, CopyIs DEF OpenScopes, CopiesOpen, Inv, Structure
  <2>4. NoObject \in Solid
    BY <1>2, <2>2, <2>3, GeneratesAre DEF Generates, Inv
  <2> QED BY <1>2, <2>4 DEF Inv, Structure, NodesTyped, Nodes, Solid
<1>15. Roots' \subseteq Roots
  BY <1>11, <1>12, <1>13, <1>14 DEF Roots
<1>16. Heads' \subseteq Heads
  BY <1>4, <1>6, <1>7, <1>15 DEF Heads
<1>17. HeadsApart' /\ OpenOutside'
  BY <1>2, <1>3, <1>13, <1>16, ApartKept DEF Inv, QuietKept
<1>18. ASSUME NEW a \in Heads', NEW i, Reached(a, i) PROVE Reached(a, i)'
  <2>1. a # work[n].gen
    <3>1. CASE a \in Roots'
      BY <1>10, <1>11, <3>1 DEF Roots, Generates
    <3>2. CASE a \in {work'[k].gen : k \in 1 .. Len(work')}
      <4>1. PICK k \in 1 .. n - 1 : a = work[k].gen
        BY <1>6, <3>2
      <4>2. Level[work[k].gen.of] < Level[work[n].gen.of]
        BY <1>7
      <4>3. Level[work[k].gen.of] \in Nat
        BY <1>2, <1>7, Levels DEF Framed, FrameIs, Inv, Structure
      <4> QED BY <4>1, <4>2, <4>3
    <3> QED BY <3>1, <3>2 DEF Heads
  <2>2. PICK k \in 1 .. Len(work) : work[k].gen = a /\ (i < work[k].next \/ (i = work[k].next /\ work[k].copy # NoObject))
    BY <1>18 DEF Reached
  <2>3. k \in 1 .. n - 1
    BY <1>4, <1>5, <2>1, <2>2
  <2> QED BY <1>6, <2>2, <2>3 DEF Reached
<1>19. CopiesFresh'
  BY <1>2, <1>3, <1>16, <1>18, FreshKept DEF Inv, Structure, QuietKept
<1>20. Inv'
  <2>1. visited # {}
    BY <1>10
  <2> QED BY <1>3, <1>8, <1>9, <1>17, <1>19, <2>1 DEF Inv, Phases, QuietKept
<1>21. ~renaming
  BY <1>10 DEF GenerateInv, Renames
<1> QED BY <1>3, <1>20, <1>21 DEF GenerateInv, Renames, QuietKept

-----------------------------------------------------------------------------
(* What is in a copy moves out. *)

\* What is moved is in a list that the scope around has too.
LEMMA MovableIs ==
    ASSUME Structure, NEW s \in Solid, Movable(s) # NoObject
    PROVE  \E l \in DOMAIN lists[s] :
              l \in DOMAIN StatementLists /\ l # "generates" /\ Movable(s) \in ToSet(lists[s][l])
<1>1. PICK full : full = {n \in DOMAIN Moved : Listed(s, Moved[n]) # <<>>}
  OBVIOUS
<1>2. full # {} /\ Movable(s) = Head(lists[s][Moved[Min(full)]])
  BY <1>1 DEF Movable
<1>3. full \in SUBSET Nat /\ DOMAIN Moved = 1 .. 4
  BY <1>1 DEF Moved
<1>4. Min(full) \in full
  <2>1. \E x \in full : \A y \in full : x <= y
    BY <1>2, <1>3, LeastNat
  <2> QED BY <2>1 DEF Min
<1>5. PICK l : l = Moved[Min(full)]
  OBVIOUS
<1>6. Min(full) \in DOMAIN Moved /\ Listed(s, l) # <<>>
  BY <1>1, <1>4, <1>5
<1>7. l \in DOMAIN StatementLists /\ l # "generates"
  BY <1>3, <1>5, <1>6 DEF Moved, StatementLists
<1>8. l \in DOMAIN lists[s] /\ lists[s][l] # <<>>
  BY <1>6 DEF Listed
<1>9. lists[s][l] \in Seq(Object)
  BY <1>8 DEF Structure, ListsTyped
<1>10. Head(lists[s][l]) \in ToSet(lists[s][l])
  <2>1. 1 \in DOMAIN lists[s][l] /\ Head(lists[s][l]) = lists[s][l][1]
    BY <1>8, <1>9, EmptySeq
  <2> QED BY <2>1 DEF ToSet
<1> QED BY <1>2, <1>5, <1>7, <1>8, <1>10

\* What is in the copy is moved to the scope around it (_manageGenerateLocalStuff).
LEMMA MoveKeeps ==
    ASSUME GenerateInv, Move
    PROVE  GenerateInv' /\ ApartStep
<1>1. /\ work # <<>> /\ state = "visiting" /\ Top.copy # NoObject /\ Movable(Top.copy) # NoObject
      /\ MoveToScope(Top.copy, up[Top.copy], Suffix(Top), Movable(Top.copy))
      /\ work' = work /\ design' = design /\ visited' = visited /\ state' = state /\ passes' = passes
      /\ renaming' = renaming
  BY DEF Move, Moving, read, visitVars
<1>2. Inv /\ Structure /\ NamesOk
  BY <1>1 DEF GenerateInv, Inv, NamesOk
<1>3. PICK n : n = Len(work)
  OBVIOUS
<1>4. n \in Nat /\ n \in 1 .. Len(work) /\ Top = work[n] /\ work[n] \in FrameType
  BY <1>1, <1>2, <1>3, WorkIs DEF Inv
<1>5. PICK from : from = work[n].copy
  OBVIOUS
<1>6. /\ from \in Solid \cap DOMAIN up /\ from \in OpenScopes /\ up[from] = Base(n)
      /\ KindOf(from) \in GenerateKinds /\ Level[from.of] = Level[work[n].gen.of] /\ Level[from.of] \in Nat
  BY <1>1, <1>2, <1>4, <1>5, CopyIs
<1>7. PICK p : p = Base(n)
  OBVIOUS
<1>8. p \in Solid /\ p \in OpenScopes /\ KindOf(p) \in BaseContents /\ Level[p.of] < Level[from.of]
  BY <1>2, <1>4, <1>6, <1>7, BaseIs
<1>9. PICK o : o = Movable(from)
  OBVIOUS
<1>10. PICK l \in DOMAIN lists[from] : l \in DOMAIN StatementLists /\ l # "generates" /\ o \in ToSet(lists[from][l])
  BY <1>1, <1>2, <1>4, <1>5, <1>6, <1>9, MovableIs
<1>11. KindOf(o) \in StatementLists[l] /\ Level[from.of] < Level[o.of] /\ Fits(o, from, l)
  <2>1. Fits(o, from, l) /\ DOMAIN lists[from] = DOMAIN ContentOf[KindOf(from)]
    BY <1>2, <1>6, <1>10 DEF Structure, ListsTyped
  <2>2. ContentOf[KindOf(from)][l] = StatementLists[l]
    BY <1>6, <1>10, ContentIs DEF GenerateKinds
  <2> QED BY <2>1, <2>2 DEF Fits
<1>12. l = ListOf(from, o)
  BY <1>2, <1>6, <1>10, ListOfUnique DEF GenerateKinds, BaseContents
<1>13. Suffix(Top) \in Seq(Int)
  <2>1. <<>> \in Seq(Int) /\ <<work[n].next>> \in Seq(Int)
    BY <1>4 DEF FrameType
  <2> QED BY <2>1, <1>4 DEF Suffix
<1>14. Level[p.of] < Level[o.of] /\ from # p
  <2>1. Level[p.of] \in Nat /\ Level[o.of] \in Nat
    <3>1. o \in Object
      BY <1>2, <1>6, <1>10 DEF Structure, ListsTyped, ToSet
    <3> QED BY <3>1, <1>2, <1>8, Levels, LevelAssumption DEF Structure, Object
  <2> QED BY <2>1, <1>6, <1>8, <1>11
<1>15. MovesNode(o, from, p, l, l) /\ NamesOk' /\ ApartStep
  <2>1. MoveToScope(from, p, Suffix(Top), o)
    BY <1>1, <1>4, <1>5, <1>6, <1>7, <1>9
  <2> QED BY <2>1, <1>2, <1>6, <1>8, <1>10, <1>11, <1>12, <1>13, <1>14, MoveToScopeKeeps
<1>16. Structure'
  BY <1>2, <1>15, MoveStructure
<1>17. /\ Solid' = Solid /\ DOMAIN up' = DOMAIN up
       /\ \A s \in Solid : DOMAIN lists'[s] = DOMAIN lists[s]
       /\ \A s \in Solid : \A k \in DOMAIN lists[s] : k # l => lists'[s][k] = lists[s][k]
       /\ \A x \in DOMAIN up : up'[x] = IF x = o THEN p ELSE up[x]
  BY <1>2, <1>15, MoveLists
<1>18. DesignTyped'
  BY <1>1, <1>2, <1>17 DEF Inv, DesignTyped, System
\* The generates and the copies are where they were.
<1>19. \A s \in Solid : Generates(s)' = Generates(s)
  BY <1>1, <1>10, <1>17 DEF Generates, Listed
<1>20. OpenScopes' = OpenScopes /\ CopiesOpen' = CopiesOpen /\ OpenScopes \subseteq Solid
  <2>1. OpenScopes' = OpenScopes /\ CopiesOpen' = CopiesOpen
    BY <1>1 DEF OpenScopes, CopiesOpen
  <2>2. OpenScopes \subseteq Solid
    BY <1>2, ContentsIs, CopyIs DEF OpenScopes, CopiesOpen, Inv, Structure
  <2> QED BY <2>1, <2>2
<1>21. Roots' = Roots
  BY <1>19, <1>20 DEF Roots
<1>22. Heads' = Heads
  BY <1>1, <1>21 DEF Heads
<1>23. KindOf(o) \notin GenerateKinds
  BY <1>10, <1>11 DEF StatementLists, GenerateKinds
<1>24. \A a \in Heads : KindOf(a) \in GenerateKinds
  <2>1. \A s \in OpenScopes : \A a \in Generates(s) : KindOf(a) \in GenerateKinds
    BY <1>2, <1>20, GeneratesAre DEF Generates, GenerateKinds
  <2> QED BY <2>1 DEF Heads, Roots, GenerateKinds
<1>25. ASSUME NEW a \in Heads PROVE Under(a)' = Under(a)
  <2>1. p \notin Under(a) /\ from \notin Under(a)
    BY <1>2, <1>6, <1>8 DEF Inv, OpenOutside
  <2>2. ASSUME KindOf(o) # "Reference", o \in Under(a) PROVE FALSE
    <3>1. o \in Solid \cap DOMAIN up /\ up[o] = from
      BY <1>11, <2>2 DEF Fits
    <3>2. Tree /\ o # a
      BY <1>2, <1>23, <1>24, TreeUnder DEF Structure
    <3> QED BY <2>1, <2>2, <3>1, <3>2, UnderStep
  <2> QED BY <1>2, <1>15, <2>1, <2>2, MoveUnder
<1>26. HeadsApart' /\ OpenOutside'
  BY <1>2, <1>20, <1>22, <1>25, ApartKept DEF Inv
<1>27. CopiesFresh'
  <2>1. \A a, i : Reached(a, i) => Reached(a, i)'
    BY <1>1 DEF Reached
  <2> QED BY <1>2, <1>17, <1>22, <1>25, <2>1, FreshKept DEF Inv, Structure
<1>28. Frames'
  <2>1. \A k : Base(k)' = Base(k)
    BY <1>1 DEF Base
  <2>2. ASSUME NEW k \in 1 .. Len(work) PROVE Framed(k)'
    <3>1. Framed(k) /\ FrameIs(work[k], Base(k))
      BY <1>2 DEF Inv, Frames, Framed
    <3>2. /\ work[k].gen \in Solid /\ KindOf(work[k].gen) \in GenerateKinds
          /\ work[k].copy # NoObject =>
                work[k].copy \in Solid \cap DOMAIN up /\ KindOf(work[k].copy) \in GenerateKinds
      BY <3>1 DEF FrameIs, KindOf
    <3> QED BY <1>1, <1>17, <1>23, <2>1, <3>1, <3>2, FrameStays
  <2> QED BY <1>1, <1>2, <2>2 DEF Inv, Frames
<1>29. visited # {}
  BY <1>2, <1>4 DEF Inv, Frames, Framed, FrameIs
<1>30. Inv'
  BY <1>1, <1>15, <1>16, <1>18, <1>26, <1>27, <1>28, <1>29 DEF Inv, Phases, NamesOk
<1> QED BY <1>1, <1>15, <1>29, <1>30 DEF GenerateInv, Renames, NamesOk

-----------------------------------------------------------------------------
(* Copies. *)

\* What a copy is a copy of.
Source(x) == [x EXCEPT !.at = Front(@)]

\* One more index.
LEMMA AppendedAt ==
    ASSUME NEW s \in Seq(Int), NEW i \in Int, NEW c, c = Append(s, i)
    PROVE  /\ c \in Seq(Int) /\ Len(s) \in Nat /\ Len(c) = Len(s) + 1 /\ c[Len(s) + 1] = i
           /\ \A m \in 1 .. Len(s) : c[m] = s[m]
           /\ Front(c) = s /\ c # <<>>
<1>1. c \in Seq(Int) /\ Len(s) \in Nat /\ Len(c) = Len(s) + 1 /\ c[Len(s) + 1] = i /\ \A m \in 1 .. Len(s) : c[m] = s[m]
  BY AppendProperties, LenProperties
<1>2. Front(c) = s
  <2>1. PICK f : f = SubSeq(c, 1, Len(s))
    OBVIOUS
  <2>2. f \in Seq(Int) /\ Len(f) = Len(s) + 1 - 1 /\ \A k \in 1 .. Len(f) : f[k] = c[1 + k - 1]
    BY <1>1, <2>1, PartIs
  <2>3. Len(f) = Len(s) /\ \A k \in 1 .. Len(s) : f[k] = s[k]
    BY <1>1, <2>2
  <2>4. f = s
    BY <2>2, <2>3, SeqEqual
  <2>5. Front(c) = SubSeq(c, 1, Len(c) - 1) /\ Len(c) - 1 = Len(s)
    BY <1>1 DEF Front
  <2> QED BY <2>1, <2>4, <2>5
<1> QED BY <1>1, <1>2

\* A copy is an object of the same class with one more index.
LEMMA CopyAtIs ==
    ASSUME NEW o \in Object, NEW i \in Int, NEW c, c = CopyAt(o, i)
    PROVE  /\ c \in Object /\ c.of = o.of /\ KindOf(c) = KindOf(o) /\ c # NoObject /\ Source(c) = o
           /\ c.at \in Seq(Int) /\ o.at \in Seq(Int) /\ Len(o.at) \in Nat /\ Len(c.at) = Len(o.at) + 1
           /\ c.at[Len(o.at) + 1] = i /\ \A m \in 1 .. Len(o.at) : c.at[m] = o.at[m]
<1>1. o.at \in Seq(Int) /\ o.of \in DOMAIN Kind /\ o = [of |-> o.of, at |-> o.at]
  BY DEF Object
<1>2. c = [of |-> o.of, at |-> Append(o.at, i)]
  BY <1>1 DEF CopyAt
<1>3. /\ c.at \in Seq(Int) /\ Len(o.at) \in Nat /\ Len(c.at) = Len(o.at) + 1
      /\ c.at[Len(o.at) + 1] = i /\ \A m \in 1 .. Len(o.at) : c.at[m] = o.at[m]
      /\ Front(c.at) = o.at /\ c.at # <<>>
  <2>1. PICK s : s = o.at
    OBVIOUS
  <2>2. PICK a : a = Append(s, i)
    OBVIOUS
  <2>3. c.at = a
    BY <1>2, <2>1, <2>2
  <2>4. s \in Seq(Int)
    BY <1>1, <2>1
  <2>5. /\ a \in Seq(Int) /\ Len(s) \in Nat /\ Len(a) = Len(s) + 1 /\ a[Len(s) + 1] = i
        /\ \A m \in 1 .. Len(s) : a[m] = s[m]
        /\ Front(a) = s /\ a # <<>>
    <3>1. a[Len(s) + 1] = i
      BY <2>2, <2>4, AppendedAt
    <3>2. a # <<>> /\ Front(a) = s
      BY <2>2, <2>4, AppendedAt
    <3>3. Len(s) \in Nat /\ \A m \in 1 .. Len(s) : a[m] = s[m]
      BY <2>2, <2>4, AppendedAt
    <3>4. a \in Seq(Int) /\ Len(a) = Len(s) + 1
      BY <2>2, <2>4, AppendedAt
    <3> QED BY <3>1, <3>2, <3>3, <3>4
  <2> QED BY <2>1, <2>3, <2>5
<1>4. Source(c) = [of |-> o.of, at |-> Front(c.at)]
  BY <1>2 DEF Source
<1>5. c # NoObject
  BY <1>3 DEF NoObject
<1> QED BY <1>1, <1>2, <1>3, <1>4, <1>5 DEF Object, KindOf

\* A list with another node in the place of one.
Swap(list, a, b) == [k \in DOMAIN list |-> IF list[k] = a THEN b ELSE list[k]]

\* Such a list has the other node once, and the rest as often as before.
LEMMA Swapped ==
    ASSUME NEW T, NEW s \in Seq(T), NEW a, NEW b \in T, NEW c, c = Swap(s, a, b), b \notin ToSet(s), a # b
    PROVE  /\ c \in Seq(T) /\ ToSet(c) \ {b} = ToSet(s) \ {a}
           /\ a \in ToSet(s) => b \in ToSet(c)
           /\ Once(s, a) => Once(c, b)
           /\ \A x : x # b /\ Once(s, x) => Once(c, x)
<1>1. Len(s) \in Nat /\ DOMAIN s = 1 .. Len(s) /\ \A k \in DOMAIN s : s[k] \in T
  BY LenProperties, ElementOfSeq
<1>2. DOMAIN c = DOMAIN s /\ \A k \in DOMAIN s : c[k] = IF s[k] = a THEN b ELSE s[k]
  BY DEF Swap
<1>3. c \in [1 .. Len(s) -> T]
  BY <1>1 DEF Swap
<1>4. c \in Seq(T)
  BY <1>1, <1>3
<1>5. \A k \in DOMAIN s : s[k] # b
  BY DEF ToSet
<1>6. ToSet(c) \ {b} = ToSet(s) \ {a} /\ (a \in ToSet(s) => b \in ToSet(c))
  BY <1>2, <1>5 DEF ToSet
<1>7. Once(s, a) => Once(c, b)
  BY <1>2, <1>5 DEF Once
<1>8. ASSUME NEW x, x # b, Once(s, x) PROVE Once(c, x)
  BY <1>2, <1>8 DEF Once
<1> QED BY <1>4, <1>6, <1>7, <1>8

\* A list of copies.
LEMMA CopiedList ==
    ASSUME NEW s \in Seq(Object), NEW i \in Int, NEW c, c = [k \in DOMAIN s |-> CopyAt(s[k], i)]
    PROVE  /\ c \in Seq(Object) /\ ToSet(c) = {CopyAt(x, i) : x \in ToSet(s)}
           /\ \A x \in ToSet(s) : Once(s, x) => Once(c, CopyAt(x, i))
<1>1. Len(s) \in Nat /\ DOMAIN s = 1 .. Len(s) /\ \A k \in DOMAIN s : s[k] \in Object
  BY LenProperties, ElementOfSeq
<1>2. \A k \in DOMAIN s : CopyAt(s[k], i) \in Object
  BY <1>1, CopyAtIs
<1>3. c \in [1 .. Len(s) -> Object]
  BY <1>1, <1>2
<1>4. c \in Seq(Object)
  BY <1>1, <1>3
<1>5. ToSet(c) = {CopyAt(x, i) : x \in ToSet(s)}
  BY DEF ToSet
<1>6. ASSUME NEW x \in ToSet(s), Once(s, x) PROVE Once(c, CopyAt(x, i))
  <2>1. x \in Object
    BY <1>1 DEF ToSet
  <2>2. \A k \in DOMAIN s : CopyAt(s[k], i) = CopyAt(x, i) => s[k] = x
    BY <1>1, <2>1, CopyAtIs
  <2> QED BY <1>6, <2>2 DEF Once
<1> QED BY <1>4, <1>5, <1>6

\* The copies at i of what is under g, and of what is below it.
CopiesOf(set, i) == {CopyAt(o, i) : o \in set}

\* What a copy of g at i does to the tree.
CopiesNode(g, i) ==
    /\ DOMAIN up' = (DOMAIN up \ {g}) \cup CopiesOf(Below(g), i)
    /\ \A x \in DOMAIN up \ {g} : x \notin CopiesOf(Below(g), i) => up'[x] = up[x]
    /\ up'[CopyAt(g, i)] = up[g]
    /\ \A o \in Below(g) \ {g} : up'[CopyAt(o, i)] = CopyAt(up[o], i)
    /\ Solid' = Solid \cup CopiesOf(Under(g), i)
    /\ \A o \in Under(g) :
          /\ DOMAIN lists'[CopyAt(o, i)] = DOMAIN lists[o]
          /\ \A l \in DOMAIN lists[o] :
                lists'[CopyAt(o, i)][l] = [k \in DOMAIN lists[o][l] |-> CopyAt(lists[o][l][k], i)]
    /\ \A s \in Solid :
          /\ DOMAIN lists'[s] = DOMAIN lists[s]
          /\ \A l \in DOMAIN lists[s] :
                lists'[s][l] = IF s = up[g] /\ l = "generates" THEN Swap(lists[s][l], g, CopyAt(g, i)) ELSE lists[s][l]

\* A generate that can be copied at i: it hangs in the list of generates of a scope around it,
\* and nothing under it has been copied there.
Copyable(g, i) ==
    /\ i \in Int /\ g \in Solid \cap DOMAIN up /\ KindOf(g) \in GenerateKinds
    /\ up[g] \notin Under(g)
    /\ "generates" \in DOMAIN lists[up[g]] /\ g \in ToSet(lists[up[g]]["generates"])
    /\ \A o \in Under(g) : CopyAt(o, i) \notin Solid

\* Nodes and their copies.
LEMMA CopiesAre ==
    ASSUME Structure, NEW g, NEW i, Copyable(g, i)
    PROVE  /\ Below(g) \subseteq Nodes /\ g \in Below(g) /\ Below(g) \subseteq Object
           /\ Under(g) \subseteq Solid /\ Under(g) \subseteq Object /\ g \in Under(g)
           /\ \A o \in Below(g) : o \in Under(g) <=> KindOf(o) # "Reference"
           /\ \A o \in Below(g) \ {g} : o \in DOMAIN up /\ up[o] \in Under(g)
           /\ \A x \in Solid : x # g => (x \in Under(g) <=> x \in DOMAIN up /\ up[x] \in Under(g))
           /\ \A o, p \in Object : CopyAt(o, i) = CopyAt(p, i) => o = p
           /\ Solid \cap CopiesOf(Below(g), i) = {}
<1>1. BelowIs(g)
  BY BelowStep DEF Structure
<1>2. g \in Solid /\ Solid \subseteq Nodes /\ i \in Int
  BY DEF Copyable, Nodes, Solid
<1>3. /\ Below(g) \subseteq Nodes /\ g \in Below(g)
      /\ \A x \in Nodes : x \in Below(g) <=> (x = g \/ (x \in DOMAIN up /\ up[x] \in Below(g)))
  BY <1>1, <1>2 DEF BelowIs
<1>4. Below(g) \subseteq Object /\ \A o \in Nodes : o \in Solid <=> KindOf(o) # "Reference"
  BY <1>3 DEF Structure, NodesTyped
<1>5. \A x \in DOMAIN up : up[x] \in Solid
  BY DEF Structure, UpTyped
<1>6. \A o, p \in Object : CopyAt(o, i) = CopyAt(p, i) => o = p
  BY <1>2, CopyAtIs
<1>7. ASSUME NEW o \in Below(g), CopyAt(o, i) \in Solid PROVE FALSE
  <2>1. o \in Object /\ KindOf(CopyAt(o, i)) = KindOf(o)
    BY <1>2, <1>4, CopyAtIs
  <2>2. o \in Under(g)
    BY <1>2, <1>3, <1>4, <1>7, <2>1 DEF Under
  <2> QED BY <1>7, <2>2 DEF Copyable
<1> QED BY <1>2, <1>3, <1>4, <1>5, <1>6, <1>7 DEF Under, CopiesOf

\* A copy in the place of its generate keeps the tree.
LEMMA CopyStructure ==
    ASSUME Structure, NEW g, NEW i, Copyable(g, i), CopiesNode(g, i)
    PROVE  Structure'
<1>1. /\ Below(g) \subseteq Nodes /\ g \in Below(g) /\ Below(g) \subseteq Object
      /\ Under(g) \subseteq Solid /\ Under(g) \subseteq Object /\ g \in Under(g)
      /\ \A o \in Below(g) : o \in Under(g) <=> KindOf(o) # "Reference"
      /\ \A o \in Below(g) \ {g} : o \in DOMAIN up /\ up[o] \in Under(g)
      /\ \A x \in Solid : x # g => (x \in Under(g) <=> x \in DOMAIN up /\ up[x] \in Under(g))
      /\ \A o, p \in Object : CopyAt(o, i) = CopyAt(p, i) => o = p
      /\ Solid \cap CopiesOf(Below(g), i) = {}
  BY CopiesAre
<1>2. PICK parent : parent = up[g]
  OBVIOUS
<1>3. PICK c : c = CopyAt(g, i)
  OBVIOUS
<1>4. /\ i \in Int /\ g \in Solid \cap DOMAIN up /\ KindOf(g) \in GenerateKinds /\ parent \in Solid
      /\ parent \notin Under(g) /\ Level[parent.of] < Level[g.of]
      /\ "generates" \in DOMAIN lists[parent] /\ g \in ToSet(lists[parent]["generates"])
  BY <1>2 DEF Copyable, Structure, UpTyped
<1>5. /\ DOMAIN up' = (DOMAIN up \ {g}) \cup CopiesOf(Below(g), i)
      /\ \A x \in DOMAIN up \ {g} : x \notin CopiesOf(Below(g), i) => up'[x] = up[x]
      /\ up'[c] = parent
      /\ \A o \in Below(g) \ {g} : up'[CopyAt(o, i)] = CopyAt(up[o], i)
      /\ Solid' = Solid \cup CopiesOf(Under(g), i)
  BY <1>2, <1>3 DEF CopiesNode
<1>6. ASSUME NEW o \in Object
      PROVE  /\ CopyAt(o, i) \in Object /\ CopyAt(o, i) # NoObject
             /\ KindOf(CopyAt(o, i)) = KindOf(o) /\ CopyAt(o, i).of = o.of
  BY <1>4, CopyAtIs
<1>7. /\ CopiesOf(Under(g), i) \subseteq CopiesOf(Below(g), i)
      /\ \A o \in Below(g) : CopyAt(o, i) \in CopiesOf(Below(g), i)
      /\ \A o \in Under(g) : CopyAt(o, i) \in CopiesOf(Under(g), i)
      /\ Under(g) \subseteq Below(g)
  BY DEF CopiesOf, Under
<1>8. Nodes' = (Nodes \ {g}) \cup CopiesOf(Below(g), i) \cup Solid
  <2>1. Nodes' = DOMAIN up' \cup Solid' /\ Nodes = DOMAIN up \cup Solid
    BY DEF Nodes, Solid
  <2> QED BY <1>4, <1>5, <1>7, <2>1
\* Where the nodes hang.
<1>9. \A x \in Solid \cap DOMAIN up : x # g => x \in DOMAIN up' /\ up'[x] = up[x]
  BY <1>1, <1>5
<1>10. NodesTyped'
  <2> SUFFICES ASSUME NEW x \in Nodes'
               PROVE  x \in Object /\ x # NoObject /\ (x \in Solid' <=> KindOf(x) # "Reference")
    BY DEF NodesTyped
  <2>1. CASE x \in CopiesOf(Below(g), i)
    <3>1. PICK o \in Below(g) : x = CopyAt(o, i)
      BY <2>1 DEF CopiesOf
    <3>2. x \in Object /\ x # NoObject /\ KindOf(x) = KindOf(o)
      BY <1>1, <1>6, <3>1
    <3>3. x \in Solid' <=> o \in Under(g)
      <4>1. x \in CopiesOf(Under(g), i) => o \in Under(g)
        BY <1>1, <3>1 DEF CopiesOf
      <4> QED BY <1>1, <1>5, <1>7, <2>1, <3>1, <4>1
    <3> QED BY <1>1, <3>2, <3>3
  <2>2. CASE x \notin CopiesOf(Below(g), i)
    <3>1. x \in Nodes /\ (x \in Solid' <=> x \in Solid)
      BY <1>5, <1>7, <1>8, <2>2 DEF Nodes, Solid
    <3> QED BY <3>1 DEF Structure, NodesTyped
  <2> QED BY <2>1, <2>2
<1>11. UpTyped'
  <2> SUFFICES ASSUME NEW x \in DOMAIN up' PROVE up'[x] \in Solid' /\ Level[up'[x].of] < Level[x.of]
    BY DEF UpTyped
  <2>1. CASE x \in CopiesOf(Below(g), i)
    <3>1. PICK o \in Below(g) : x = CopyAt(o, i)
      BY <2>1 DEF CopiesOf
    <3>2. o \in Object /\ x.of = o.of
      BY <1>1, <1>6, <3>1
    <3>3. CASE o = g
      BY <1>3, <1>4, <1>5, <3>1, <3>2, <3>3
    <3>4. CASE o # g
      <4>1. up[o] \in Under(g) /\ up[o] \in Object /\ Level[up[o].of] < Level[o.of] /\ up'[x] = CopyAt(up[o], i)
        BY <1>1, <1>5, <3>1, <3>4 DEF Structure, UpTyped
      <4> QED BY <1>5, <1>6, <1>7, <3>2, <4>1
    <3> QED BY <3>3, <3>4
  <2>2. CASE x \notin CopiesOf(Below(g), i)
    BY <1>5, <2>2 DEF Structure, UpTyped
  <2> QED BY <2>1, <2>2
\* The lists of the copies.
<1>12. ASSUME NEW o \in Under(g), NEW l \in DOMAIN lists[o]
       PROVE  /\ lists[o][l] \in Seq(Object) /\ lists'[CopyAt(o, i)][l] \in Seq(Object)
              /\ \A y \in ToSet(lists'[CopyAt(o, i)][l]) : \E x \in ToSet(lists[o][l]) : y = CopyAt(x, i)
              /\ \A x \in ToSet(lists[o][l]) : CopyAt(x, i) \in ToSet(lists'[CopyAt(o, i)][l])
              /\ \A x \in ToSet(lists[o][l]) :
                    /\ x \in Object /\ Fits(x, o, l)
                    /\ KindOf(x) # "Reference" =>
                          /\ Once(lists[o][l], x) /\ Once(lists'[CopyAt(o, i)][l], CopyAt(x, i))
                          /\ x \in Under(g) \ {g}
  <2>1. PICK list : list = lists[o][l]
    OBVIOUS
  <2>2. PICK copied : copied = [k \in DOMAIN list |-> CopyAt(list[k], i)]
    OBVIOUS
  <2>3. list \in Seq(Object) /\ \A x \in ToSet(list) : Fits(x, o, l) /\ (KindOf(x) # "Reference" => Once(list, x))
    BY <1>1, <2>1 DEF Structure, ListsTyped
  <2>4. lists'[CopyAt(o, i)][l] = copied
    BY <2>1, <2>2 DEF CopiesNode
  <2>5. /\ copied \in Seq(Object) /\ ToSet(copied) = {CopyAt(x, i) : x \in ToSet(list)}
        /\ \A x \in ToSet(list) : Once(list, x) => Once(copied, CopyAt(x, i))
    BY <1>4, <2>2, <2>3, CopiedList
  <2>6. ASSUME NEW x \in ToSet(list), KindOf(x) # "Reference" PROVE x \in Under(g) \ {g}
    <3>1. x \in Solid \cap DOMAIN up /\ up[x] = o
      BY <2>3, <2>6 DEF Fits
    <3>2. x # g
      BY <1>2, <1>4, <3>1
    <3> QED BY <1>1, <3>1, <3>2
  <2>7. \A x \in ToSet(list) : x \in Object
    BY <2>3 DEF ToSet
  <2> QED BY <2>1, <2>3, <2>4, <2>5, <2>6, <2>7
\* The other lists.
<1>13. c \in Object /\ c \in CopiesOf(Under(g), i) /\ c \in Solid' \cap DOMAIN up' /\ up'[c] = parent /\ c # g
  BY <1>1, <1>3, <1>4, <1>5, <1>6, <1>7
<1>14. ASSUME NEW s \in Solid, NEW l \in DOMAIN lists[s]
       PROVE  /\ lists[s][l] \in Seq(Object) /\ lists'[s][l] \in Seq(Object)
              /\ \A x \in ToSet(lists'[s][l]) :
                    x # c => x \in ToSet(lists[s][l]) /\ x # g /\ (Once(lists[s][l], x) => Once(lists'[s][l], x))
              /\ \A x \in ToSet(lists[s][l]) : x # g => x \in ToSet(lists'[s][l])
              /\ c \in ToSet(lists'[s][l]) => s = parent /\ l = "generates" /\ Once(lists'[s][l], c)
  <2>1. PICK list : list = lists[s][l]
    OBVIOUS
  <2>2. list \in Seq(Object) /\ \A x \in ToSet(list) : Fits(x, s, l) /\ (KindOf(x) # "Reference" => Once(list, x))
    BY <2>1 DEF Structure, ListsTyped
  <2>3. g \in ToSet(list) => s = parent /\ l = "generates" /\ Once(list, g)
    <3>1. ASSUME g \in ToSet(list) PROVE s = parent /\ l = "generates" /\ Once(list, g)
      <4>1. KindOf(g) # "Reference"
        BY <1>4 DEF GenerateKinds
      <4>2. s = parent /\ Once(list, g)
        BY <1>2, <2>2, <3>1, <4>1 DEF Fits
      <4>3. l = "generates"
        BY <1>4, <2>1, <3>1, <4>1, <4>2 DEF Structure, InOneList
      <4> QED BY <4>2, <4>3
    <3> QED BY <3>1
  <2>4. c \notin ToSet(list)
    <3>1. KindOf(c) # "Reference"
      BY <1>1, <1>3, <1>4, <1>6 DEF GenerateKinds
    <3>2. c \notin Solid
      BY <1>1, <1>7, <1>13
    <3> QED BY <2>2, <3>1, <3>2 DEF Fits
  <2>5. CASE s = parent /\ l = "generates"
    <3>1. lists'[s][l] = Swap(list, g, c)
      BY <1>2, <1>3, <2>1, <2>5 DEF CopiesNode
    <3>2. PICK new : new = Swap(list, g, c)
      OBVIOUS
    <3>3. /\ new \in Seq(Object) /\ ToSet(new) \ {c} = ToSet(list) \ {g}
          /\ Once(list, g) => Once(new, c)
          /\ \A x : x # c /\ Once(list, x) => Once(new, x)
      BY <1>13, <2>2, <2>4, <3>2, Swapped
    <3> QED BY <1>4, <2>1, <2>2, <2>3, <2>4, <2>5, <3>1, <3>2, <3>3
  <2>6. CASE ~(s = parent /\ l = "generates")
    <3>1. lists'[s][l] = list
      BY <1>2, <2>1, <2>6 DEF CopiesNode
    <3> QED BY <2>1, <2>2, <2>3, <2>4, <2>6, <3>1
  <2> QED BY <2>5, <2>6
<1>15. c \in ToSet(lists'[parent]["generates"])
  <2>1. lists'[parent]["generates"] = Swap(lists[parent]["generates"], g, c)
    BY <1>2, <1>3, <1>4 DEF CopiesNode
  <2> QED BY <1>4, <2>1 DEF Swap, ToSet
<1>16. /\ \A o \in Under(g) : DOMAIN lists'[CopyAt(o, i)] = DOMAIN lists[o]
       /\ \A s \in Solid : DOMAIN lists'[s] = DOMAIN lists[s]
  BY DEF CopiesNode
<1>17. ListsTyped'
  <2> SUFFICES ASSUME NEW s \in Solid'
               PROVE  /\ KindOf(s) \in DOMAIN ContentOf /\ DOMAIN lists'[s] = DOMAIN ContentOf[KindOf(s)]
                      /\ \A l \in DOMAIN lists'[s] :
                            /\ lists'[s][l] \in Seq(Object)
                            /\ \A x \in ToSet(lists'[s][l]) :
                                  Fits(x, s, l)' /\ (KindOf(x) # "Reference" => Once(lists'[s][l], x))
    BY DEF ListsTyped
  <2>1. CASE s \in CopiesOf(Under(g), i)
    <3>1. PICK o \in Under(g) : s = CopyAt(o, i)
      BY <2>1 DEF CopiesOf
    <3>2. o \in Solid /\ KindOf(s) = KindOf(o) /\ s.of = o.of
      BY <1>1, <1>6, <3>1
    <3>3. KindOf(s) \in DOMAIN ContentOf /\ DOMAIN lists'[s] = DOMAIN ContentOf[KindOf(s)]
      BY <1>16, <3>1, <3>2 DEF Structure, ListsTyped
    <3>4. ASSUME NEW l \in DOMAIN lists[o], NEW y \in ToSet(lists'[s][l])
          PROVE  Fits(y, s, l)' /\ (KindOf(y) # "Reference" => Once(lists'[s][l], y))
      <4>1. PICK x \in ToSet(lists[o][l]) : y = CopyAt(x, i)
        BY <1>12, <3>1, <3>4
      <4>2. x \in Object /\ Fits(x, o, l) /\ KindOf(y) = KindOf(x) /\ y.of = x.of
        BY <1>6, <1>12, <4>1
      <4>3. ASSUME KindOf(x) # "Reference"
            PROVE  y \in Solid' \cap DOMAIN up' /\ up'[y] = s /\ Once(lists'[s][l], y)
        <5>1. x \in Under(g) \ {g} /\ Once(lists'[s][l], y)
          BY <1>12, <3>1, <4>1, <4>3
        <5>2. up[x] = o
          BY <4>2, <4>3 DEF Fits
        <5>3. up'[y] = s
          BY <1>5, <1>7, <3>1, <4>1, <5>1, <5>2
        <5> QED BY <1>5, <1>7, <4>1, <5>1, <5>3
      <4> QED BY <3>2, <4>2, <4>3 DEF Fits
    <3> QED BY <1>12, <1>16, <3>1, <3>3, <3>4
  <2>2. CASE s \in Solid
    <3>1. KindOf(s) \in DOMAIN ContentOf /\ DOMAIN lists'[s] = DOMAIN ContentOf[KindOf(s)]
      BY <1>16, <2>2 DEF Structure, ListsTyped
    <3>2. ASSUME NEW l \in DOMAIN lists[s], NEW x \in ToSet(lists'[s][l])
          PROVE  Fits(x, s, l)' /\ (KindOf(x) # "Reference" => Once(lists'[s][l], x))
      <4>1. CASE x = c
        <5>1. s = parent /\ l = "generates" /\ Once(lists'[s][l], c)
          BY <1>14, <2>2, <3>2, <4>1
        <5>2. Fits(g, parent, "generates")
          BY <1>4 DEF Structure, ListsTyped
        <5>3. KindOf(c) = KindOf(g) /\ c.of = g.of
          BY <1>1, <1>3, <1>6
        <5> QED BY <1>13, <4>1, <5>1, <5>2, <5>3 DEF Fits
      <4>2. CASE x # c
        <5>1. x \in ToSet(lists[s][l]) /\ x # g /\ (Once(lists[s][l], x) => Once(lists'[s][l], x))
          BY <1>14, <2>2, <3>2, <4>2
        <5>2. Fits(x, s, l) /\ (KindOf(x) # "Reference" => Once(lists[s][l], x))
          BY <2>2, <5>1 DEF Structure, ListsTyped
        <5> QED BY <1>5, <1>9, <5>1, <5>2 DEF Fits
      <4> QED BY <4>1, <4>2
    <3> QED BY <1>14, <1>16, <2>2, <3>1, <3>2
  <2> QED BY <1>5, <2>1, <2>2
<1>18. InOneList'
  <2> SUFFICES ASSUME NEW s \in Solid', NEW l \in DOMAIN lists'[s], NEW m \in DOMAIN lists'[s], l # m,
                      NEW x \in ToSet(lists'[s][l]) \cap ToSet(lists'[s][m]), KindOf(x) # "Reference"
               PROVE  FALSE
    BY DEF InOneList
  <2>1. CASE s \in CopiesOf(Under(g), i)
    <3>1. PICK o \in Under(g) : s = CopyAt(o, i)
      BY <2>1 DEF CopiesOf
    <3>2. l \in DOMAIN lists[o] /\ m \in DOMAIN lists[o]
      BY <1>16, <3>1
    <3>3. PICK y \in ToSet(lists[o][l]) : x = CopyAt(y, i)
      BY <1>12, <3>1, <3>2
    <3>4. PICK z \in ToSet(lists[o][m]) : x = CopyAt(z, i)
      BY <1>12, <3>1, <3>2, ZenonT(60)
    <3>5. y \in Object /\ z \in Object
      BY <1>12, <3>2
    <3>6. y = z /\ KindOf(y) # "Reference"
      BY <1>1, <1>6, <3>3, <3>4, <3>5
    <3> QED BY <1>1, <3>2, <3>6 DEF Structure, InOneList
  <2>2. CASE s \in Solid
    <3>1. l \in DOMAIN lists[s] /\ m \in DOMAIN lists[s]
      BY <1>16, <2>2
    <3>2. x # c
      BY <1>14, <2>2, <3>1
    <3>3. x \in ToSet(lists[s][l]) /\ x \in ToSet(lists[s][m])
      BY <1>14, <2>2, <3>1, <3>2
    <3> QED BY <2>2, <3>1, <3>3 DEF Structure, InOneList
  <2> QED BY <1>5, <2>1, <2>2
<1>19. Placed'
  <2> SUFFICES ASSUME NEW x \in DOMAIN up', KindOf(x) \notin {"Contents", "Reference"}
               PROVE  \E l \in DOMAIN lists'[up'[x]] : x \in ToSet(lists'[up'[x]][l])
    BY DEF Placed
  <2>1. CASE x \in CopiesOf(Below(g), i) /\ x # c
    <3>1. PICK o \in Below(g) : x = CopyAt(o, i)
      BY <2>1 DEF CopiesOf
    <3>2. o # g /\ KindOf(o) = KindOf(x)
      BY <1>1, <1>3, <1>6, <2>1, <3>1
    <3>3. o \in DOMAIN up /\ up[o] \in Under(g) /\ up'[x] = CopyAt(up[o], i)
      BY <1>1, <1>5, <3>1, <3>2
    <3>4. PICK l \in DOMAIN lists[up[o]] : o \in ToSet(lists[up[o]][l])
      BY <3>2, <3>3 DEF Structure, Placed
    <3>5. x \in ToSet(lists'[up'[x]][l])
      BY <1>12, <3>1, <3>3, <3>4
    <3> QED BY <1>16, <3>3, <3>4, <3>5
  <2>2. CASE x = c
    BY <1>4, <1>13, <1>15, <1>16, <2>2
  <2>3. CASE x \notin CopiesOf(Below(g), i)
    <3>1. x \in DOMAIN up /\ x # g /\ up'[x] = up[x]
      BY <1>5, <2>3
    <3>2. PICK l \in DOMAIN lists[up[x]] : x \in ToSet(lists[up[x]][l])
      BY <3>1 DEF Structure, Placed
    <3>3. up[x] \in Solid
      BY <3>1 DEF Structure, UpTyped
    <3> QED BY <1>14, <1>16, <3>1, <3>2, <3>3
  <2> QED BY <2>1, <2>2, <2>3
<1> QED BY <1>10, <1>11, <1>17, <1>18, <1>19 DEF Structure

\* The step Copy makes copies of the nodes and their names.
LEMMA CopyTree ==
    ASSUME Structure, NamesTyped, NEW g, NEW i, Copyable(g, i), Copy, g = Top.gen, i = Top.next
    PROVE  /\ CopiesNode(g, i)
           /\ DOMAIN nameOf' = CopiesOf(Under(g), i) \cup Solid
           /\ \A o \in Under(g) : nameOf'[CopyAt(o, i)] = nameOf[o]
           /\ \A o \in Solid : nameOf'[o] = nameOf[o]
<1>1. /\ Below(g) \subseteq Nodes /\ g \in Below(g) /\ Below(g) \subseteq Object
      /\ Under(g) \subseteq Solid /\ Under(g) \subseteq Object /\ g \in Under(g)
      /\ \A o \in Below(g) : o \in Under(g) <=> KindOf(o) # "Reference"
      /\ \A o \in Below(g) \ {g} : o \in DOMAIN up /\ up[o] \in Under(g)
      /\ \A x \in Solid : x # g => (x \in Under(g) <=> x \in DOMAIN up /\ up[x] \in Under(g))
      /\ \A o, p \in Object : CopyAt(o, i) = CopyAt(p, i) => o = p
      /\ Solid \cap CopiesOf(Below(g), i) = {}
  BY CopiesAre
<1>2. PICK parent : parent = up[g]
  OBVIOUS
<1>3. PICK c : c = CopyAt(g, i)
  OBVIOUS
<1>4. i \in Int /\ g \in Solid \cap DOMAIN up /\ parent \in Solid /\ "generates" \in DOMAIN lists[parent]
  BY <1>2 DEF Copyable, Structure, UpTyped
<1>5. \A o \in Object : Source(CopyAt(o, i)) = o
  BY <1>4, CopyAtIs
<1>6. PICK copiedUp : copiedUp = [x \in CopiesOf(Below(g), i) |-> IF x = c THEN parent ELSE CopyAt(up[Source(x)], i)]
  OBVIOUS
<1>7. PICK copiedLists : copiedLists =
          [x \in CopiesOf(Under(g), i) |-> [l \in DOMAIN lists[Source(x)] |->
              [k \in DOMAIN lists[Source(x)][l] |-> CopyAt(lists[Source(x)][l][k], i)]]]
  OBVIOUS
<1>8. PICK copiedNames : copiedNames = [x \in CopiesOf(Under(g), i) |-> nameOf[Source(x)]]
  OBVIOUS
<1>9. PICK others : others = Without(up, {g})
  OBVIOUS
<1>10. PICK otherLists : otherLists = [lists EXCEPT ![parent].generates = Swap(lists[parent].generates, g, c)]
  OBVIOUS
<1>11. Below(g) \cap DOMAIN lists = Under(g) /\ Below(g) \cap DOMAIN nameOf = Under(g)
  BY DEF NamesTyped, Under, Solid
<1>12. up' = Over(copiedUp, others)
  BY <1>2, <1>3, <1>6, <1>9 DEF Copy, CopiesOf, Source
<1>13. lists' = Over(copiedLists, otherLists)
  BY <1>2, <1>3, <1>4, <1>7, <1>10, <1>11 DEF Copy, CopiesOf, Source, Swap
<1>14. nameOf' = Over(copiedNames, nameOf)
  BY <1>8, <1>11 DEF Copy, CopiesOf, Source, OnCopies
<1>15. DOMAIN copiedUp = CopiesOf(Below(g), i) /\ DOMAIN others = DOMAIN up \ {g}
       /\ \A x \in DOMAIN up \ {g} : others[x] = up[x]
  BY <1>6, <1>9 DEF Without
<1>16. /\ DOMAIN up' = (DOMAIN up \ {g}) \cup CopiesOf(Below(g), i)
       /\ \A x \in DOMAIN up \ {g} : x \notin CopiesOf(Below(g), i) => up'[x] = up[x]
       /\ \A x \in CopiesOf(Below(g), i) : up'[x] = copiedUp[x]
  BY <1>12, <1>15 DEF Over
<1>17. \A o \in Below(g) : CopyAt(o, i) \in CopiesOf(Below(g), i)
  BY DEF CopiesOf
<1>18. up'[c] = parent
  BY <1>1, <1>3, <1>6, <1>16, <1>17
<1>19. ASSUME NEW o \in Below(g) \ {g} PROVE up'[CopyAt(o, i)] = CopyAt(up[o], i)
  <2>1. CopyAt(o, i) # c /\ Source(CopyAt(o, i)) = o
    BY <1>1, <1>3, <1>5
  <2> QED BY <1>6, <1>16, <1>17, <2>1
<1>20. /\ DOMAIN otherLists = Solid /\ \A s \in Solid : DOMAIN otherLists[s] = DOMAIN lists[s]
       /\ \A s \in Solid : \A l \in DOMAIN lists[s] :
             otherLists[s][l] = IF s = parent /\ l = "generates" THEN Swap(lists[s][l], g, c) ELSE lists[s][l]
  BY <1>4, <1>10 DEF Solid
<1>21. \A o \in Under(g) : CopyAt(o, i) \in CopiesOf(Under(g), i)
  BY DEF CopiesOf
<1>22. Solid \cap CopiesOf(Under(g), i) = {}
  BY <1>1 DEF CopiesOf, Under
<1>23. /\ Solid' = Solid \cup CopiesOf(Under(g), i)
       /\ \A s \in Solid : lists'[s] = otherLists[s]
       /\ \A s \in CopiesOf(Under(g), i) : lists'[s] = copiedLists[s]
  <2>1. DOMAIN copiedLists = CopiesOf(Under(g), i)
    BY <1>7
  <2> QED BY <1>13, <1>20, <1>22, <2>1 DEF Solid, Over
<1>24. ASSUME NEW o \in Under(g)
       PROVE  /\ DOMAIN lists'[CopyAt(o, i)] = DOMAIN lists[o]
              /\ \A l \in DOMAIN lists[o] :
                    lists'[CopyAt(o, i)][l] = [k \in DOMAIN lists[o][l] |-> CopyAt(lists[o][l][k], i)]
  <2>1. Source(CopyAt(o, i)) = o
    BY <1>1, <1>5
  <2>2. lists'[CopyAt(o, i)] = [l \in DOMAIN lists[o] |-> [k \in DOMAIN lists[o][l] |-> CopyAt(lists[o][l][k], i)]]
    BY <1>7, <1>21, <1>23, <2>1
  <2> QED BY <2>2
<1>25. /\ DOMAIN nameOf' = CopiesOf(Under(g), i) \cup Solid
       /\ \A o \in Solid : nameOf'[o] = nameOf[o]
       /\ \A x \in CopiesOf(Under(g), i) : nameOf'[x] = nameOf[Source(x)]
  <2>1. DOMAIN copiedNames = CopiesOf(Under(g), i) /\ DOMAIN nameOf = Solid
    BY <1>8 DEF NamesTyped
  <2> QED BY <1>8, <1>14, <1>22, <2>1 DEF Over
<1>26. \A o \in Under(g) : nameOf'[CopyAt(o, i)] = nameOf[o]
  BY <1>1, <1>5, <1>21, <1>25
<1>27. CopiesNode(g, i)
  BY <1>2, <1>3, <1>16, <1>18, <1>19, <1>20, <1>23, <1>24 DEF CopiesNode
<1> QED BY <1>25, <1>26, <1>27

\* A frame in which nothing is copied: what it has reached.
LEMMA UnreachedIs ==
    ASSUME Inv, work # <<>>, Top.copy = NoObject
    PROVE  ~Reached(Top.gen, Top.next)
<1>1. PICK n : n = Len(work)
  OBVIOUS
<1>2. n \in Nat /\ n \in 1 .. Len(work) /\ Top = work[n] /\ work[n].next \in Int
  BY <1>1, WorkIs DEF Inv, FrameType
<1>3. ASSUME NEW k \in 1 .. Len(work), work[k].gen = work[n].gen PROVE k = n
  <2>1. k < n => Level[work[k].gen.of] < Level[work[n].gen.of]
    BY <1>1, <1>2, <1>3 DEF Inv, Frames
  <2>2. Level[work[n].gen.of] \in Nat
    BY <1>2, Levels DEF Inv, Structure, Frames, Framed, FrameIs
  <2> QED BY <1>1, <1>2, <1>3, <2>1, <2>2
<1> QED BY <1>2, <1>3 DEF Reached

\* A generate that is to be copied.
LEMMA ToCopy ==
    ASSUME Inv, work # <<>>, Top.copy = NoObject
    PROVE  /\ Top.gen \in Heads /\ KindOf(Top.gen) = "ForGenerate" /\ Copyable(Top.gen, Top.next)
           /\ up[Top.gen] = Base(Len(work)) /\ up[Top.gen] \in OpenScopes /\ up[Top.gen] \in Solid
           /\ Top.gen \in visited
<1>1. PICK n : n = Len(work)
  OBVIOUS
<1>2. n \in Nat /\ n \in 1 .. Len(work) /\ Top = work[n] /\ work[n] \in FrameType
  BY <1>1, WorkIs DEF Inv
<1>3. PICK g : g = work[n].gen
  OBVIOUS
<1>4. FrameIs(work[n], Base(n))
  BY <1>2 DEF Inv, Frames, Framed
<1>5. g \in visited \cap Solid /\ KindOf(g) = "ForGenerate" /\ g \in DOMAIN up /\ up[g] = Base(n)
  BY <1>2, <1>3, <1>4 DEF FrameIs
<1>6. Base(n) \in Solid /\ Base(n) \in OpenScopes /\ KindOf(Base(n)) \in BaseContents
  BY <1>2, BaseIs
<1>7. g \in Heads
  BY <1>2, <1>3, <1>5 DEF Heads
<1>8. up[g] \notin Under(g)
  BY <1>5, <1>6, <1>7 DEF Inv, OpenOutside
<1>9. "generates" \in DOMAIN lists[up[g]] /\ g \in ToSet(lists[up[g]]["generates"])
  <2>1. PICK l \in DOMAIN lists[up[g]] : g \in ToSet(lists[up[g]][l])
    BY <1>5 DEF Inv, Structure, Placed
  <2>2. KindOf(g) \in ContentOf[KindOf(up[g])][l] /\ DOMAIN lists[up[g]] = DOMAIN ContentOf[KindOf(up[g])]
    BY <1>5, <1>6, <2>1 DEF Inv, Structure, ListsTyped, Fits
  <2>3. l = "generates"
    BY <1>5, <1>6, <2>1, <2>2, ContentIs DEF StatementLists, BaseContents
  <2> QED BY <2>1, <2>3
<1>10. PICK i : i = work[n].next
  OBVIOUS
<1>11. i \in Int /\ ~Reached(g, i)
  BY <1>2, <1>3, <1>10, UnreachedIs DEF FrameType
<1>12. ASSUME NEW o \in Under(g), CopyAt(o, i) \in Solid PROVE FALSE
  <2>1. o \in Object
    BY DEF Inv, Structure, NodesTyped, Nodes, Under, Solid
  <2>2. PICK x : x = CopyAt(o, i)
    OBVIOUS
  <2>3. x.of = o.of /\ Len(o.at) \in Nat /\ Len(x.at) = Len(o.at) + 1 /\ x.at[Len(o.at) + 1] = i
        /\ \A m \in 1 .. Len(o.at) : x.at[m] = o.at[m]
    <3>1. x.of = o.of
      BY <1>11, <2>1, <2>2, CopyAtIs
    <3>2. Len(o.at) \in Nat /\ Len(x.at) = Len(o.at) + 1
      BY <1>11, <2>1, <2>2, CopyAtIs
    <3>4. \A m \in 1 .. Len(o.at) : x.at[m] = o.at[m]
      <4>1. i \in Int
        BY <1>11
      <4> QED BY <2>1, <2>2, <4>1, CopyAtIs, SMTT(60)
    <3>3. x.at[Len(o.at) + 1] = i
      BY <1>11, <2>1, <2>2, CopyAtIs
    <3> QED BY <3>1, <3>2, <3>3, <3>4
  <2>4. Ext(x, o)
    BY <2>3 DEF Ext
  <2>5. Reached(g, x.at[Len(o.at) + 1])
    BY <1>7, <1>12, <2>2, <2>4 DEF Inv, CopiesFresh
  <2> QED BY <1>11, <2>3, <2>5
<1>13. Copyable(g, i)
  BY <1>5, <1>8, <1>9, <1>11, <1>12 DEF Copyable, GenerateKinds
<1> QED BY <1>1, <1>2, <1>3, <1>5, <1>6, <1>7, <1>10, <1>13

\* What is under an old head, and under a head of the copy.
LEMMA CopyUnder ==
    ASSUME Inv, NEW g \in Heads, NEW i, Copyable(g, i), CopiesNode(g, i), up[g] \in OpenScopes
    PROVE  /\ \A a \in Heads : Under(a)' = Under(a)
           /\ \A a \in Generates(g) \cup ToSet(Listed(g, "generates")) :
                 a \in Under(g) /\ g \notin Under(a) /\ Under(a) \subseteq Under(g) /\ up[a] = g
                 /\ a \in Solid \cap DOMAIN up /\ Under(CopyAt(a, i))' = CopiesOf(Under(a), i)
<1>1. /\ Below(g) \subseteq Nodes /\ g \in Below(g) /\ Below(g) \subseteq Object
      /\ Under(g) \subseteq Solid /\ Under(g) \subseteq Object /\ g \in Under(g)
      /\ \A o \in Below(g) : o \in Under(g) <=> KindOf(o) # "Reference"
      /\ \A o \in Below(g) \ {g} : o \in DOMAIN up /\ up[o] \in Under(g)
      /\ \A x \in Solid : x # g => (x \in Under(g) <=> x \in DOMAIN up /\ up[x] \in Under(g))
      /\ \A o, p \in Object : CopyAt(o, i) = CopyAt(p, i) => o = p
      /\ Solid \cap CopiesOf(Below(g), i) = {}
  BY CopiesAre DEF Inv
<1>2. Tree /\ Tree'
  <2>1. Structure'
    BY CopyStructure DEF Inv
  <2>2. (NodesTyped /\ UpTyped => Tree)'
    BY TreeUnder, PTL
  <2> QED BY <2>1, <2>2, TreeUnder DEF Inv, Structure
<1>3. PICK parent : parent = up[g]
  OBVIOUS
<1>4. PICK c : c = CopyAt(g, i)
  OBVIOUS
<1>5. /\ DOMAIN up' = (DOMAIN up \ {g}) \cup CopiesOf(Below(g), i)
      /\ \A x \in DOMAIN up \ {g} : x \notin CopiesOf(Below(g), i) => up'[x] = up[x]
      /\ up'[c] = parent
      /\ \A o \in Below(g) \ {g} : up'[CopyAt(o, i)] = CopyAt(up[o], i)
      /\ Solid' = Solid \cup CopiesOf(Under(g), i)
  BY <1>3, <1>4 DEF CopiesNode
<1>6. /\ CopiesOf(Under(g), i) \subseteq CopiesOf(Below(g), i)
      /\ \A o \in Below(g) : CopyAt(o, i) \in CopiesOf(Below(g), i)
      /\ \A o \in Under(g) : CopyAt(o, i) \in CopiesOf(Under(g), i)
      /\ Under(g) \subseteq Below(g)
  BY DEF CopiesOf, Under
<1>7. g \in Solid \cap DOMAIN up /\ parent \in Solid /\ \A x \in DOMAIN up : up[x] \in Solid
  BY <1>3 DEF Copyable, Inv, Structure, UpTyped
<1>8. \A x \in Solid : x \in DOMAIN up' <=> (x \in DOMAIN up /\ x # g)
  BY <1>1, <1>5
<1>9. \A x \in Solid : x \in DOMAIN up' => up'[x] = up[x] /\ up[x] \in Solid
  BY <1>1, <1>5, <1>7, <1>8
\* The hangers of the copies, but for the first, are copies.
<1>10. \A o \in Under(g) \ {g} : up'[CopyAt(o, i)] = CopyAt(up[o], i) /\ up[o] \in Under(g) /\ o \in DOMAIN up
  BY <1>1, <1>5, <1>6
<1>11. ASSUME NEW a \in Heads PROVE Under(a)' = Under(a)
  <2>1. parent \notin Under(a) /\ (a # g => g \notin Under(a)) /\ Under(a) \subseteq Solid
    BY <1>1, <1>3 DEF Inv, OpenOutside, HeadsApart, Under
  <2>2. a \in Solid
    <3>1. OpenScopes \subseteq Solid
      BY ContentsIs, CopyIs DEF OpenScopes, CopiesOpen, Inv, Structure
    <3>2. \A s \in OpenScopes : \A b \in Generates(s) : b \in Solid
      BY <3>1, GeneratesAre DEF Generates, Inv
    <3> QED BY <3>2 DEF Heads, Roots, Inv, Frames, Framed, FrameIs
  <2>3. ASSUME NEW x \in Solid PROVE x \in Under(a) <=> (x = a \/ (x \in DOMAIN up' /\ up'[x] \in Under(a)))
    <3>1. x \in Under(a) <=> (x = a \/ (x \in DOMAIN up /\ up[x] \in Under(a)))
      BY <1>2, UnderStep
    <3>2. CASE x # g
      BY <1>8, <1>9, <3>1, <3>2
    <3>3. CASE x = g
      BY <1>1, <1>8, <2>1, <3>3
    <3> QED BY <3>2, <3>3
  <2>4. ASSUME NEW o \in Under(g)
        PROVE  /\ CopyAt(o, i) \notin Under(a) /\ CopyAt(o, i) # a
               /\ up'[CopyAt(o, i)] \notin Under(a)
    <3>1. CopyAt(o, i) \notin Solid
      BY <1>1, <1>6
    <3>2. CASE o = g
      BY <1>4, <1>5, <2>1, <2>2, <3>1, <3>2
    <3>3. CASE o # g
      <4>1. CopyAt(up[o], i) \notin Solid
        BY <1>1, <1>6, <1>10, <3>3
      <4> QED BY <1>10, <2>1, <2>2, <3>1, <3>3, <4>1
    <3> QED BY <3>2, <3>3
  <2>5. ASSUME NEW x \in Solid' PROVE x \in Under(a) <=> (x = a \/ (x \in DOMAIN up' /\ up'[x] \in Under(a)))
    <3>1. CASE x \in Solid
      BY <2>3, <3>1
    <3>2. CASE x \in CopiesOf(Under(g), i)
      BY <2>4, <3>2 DEF CopiesOf
    <3> QED BY <1>5, <3>1, <3>2
  <2> QED BY <1>2, <1>5, <2>1, <2>5, UnderKept
<1>12. ASSUME NEW a \in Generates(g) \cup ToSet(Listed(g, "generates"))
       PROVE  a \in Under(g) /\ g \notin Under(a) /\ Under(a) \subseteq Under(g) /\ up[a] = g
              /\ a \in Solid \cap DOMAIN up /\ Under(CopyAt(a, i))' = CopiesOf(Under(a), i)
  <2>1. a \in Solid \cap DOMAIN up /\ up[a] = g /\ Level[g.of] < Level[a.of]
    BY <1>7, GeneratesAre DEF Generates, Inv
  <2>2. a \in Under(g)
    BY <1>1, <1>2, <2>1, UnderStep
  <2>3. Under(a) \subseteq Under(g)
    BY <1>2, <2>2, UnderIncluded DEF Tree
  <2>4. g \notin Under(a)
    <3>1. g \in Under(a) => Level[a.of] <= Level[g.of]
      BY <1>2, UnderLevel DEF Tree
    <3>2. Level[a.of] \in Nat /\ Level[g.of] \in Nat
      BY <1>7, <2>1, Levels DEF Inv, Structure
    <3> QED BY <2>1, <3>1, <3>2
  <2>5. PICK b : b = CopyAt(a, i)
    OBVIOUS
  <2>6. PICK set : set = CopiesOf(Under(a), i)
    OBVIOUS
  <2>7. set \subseteq Solid' /\ set \cap Solid = {}
    BY <1>1, <1>5, <1>6, <2>3, <2>6 DEF CopiesOf
  <2>8. \A o \in Under(g) : CopyAt(o, i) \in set <=> o \in Under(a)
    BY <1>1, <2>3, <2>6 DEF CopiesOf
  <2>9. ASSUME NEW o \in Under(g)
        PROVE  CopyAt(o, i) \in set <=> (CopyAt(o, i) = b \/ (CopyAt(o, i) \in DOMAIN up' /\ up'[CopyAt(o, i)] \in set))
    <3>1. CopyAt(o, i) = b <=> o = a
      BY <1>1, <2>2, <2>5
    <3>2. CopyAt(o, i) \in DOMAIN up'
      BY <1>5, <1>6
    <3>3. o \in Under(a) <=> (o = a \/ (o \in DOMAIN up /\ up[o] \in Under(a)))
      BY <1>1, <1>2, UnderStep
    <3>4. CASE o = g
      <4>1. up'[CopyAt(o, i)] \notin set /\ o # a
        BY <1>4, <1>5, <1>7, <2>2, <2>4, <2>7, <3>4, <1>2, <2>1, UnderStep
      <4> QED BY <2>4, <2>8, <3>1, <3>4, <4>1
    <3>5. CASE o # g
      <4>1. up'[CopyAt(o, i)] \in set <=> up[o] \in Under(a)
        BY <1>10, <2>8, <3>5
      <4> QED BY <1>10, <2>8, <3>1, <3>2, <3>3, <3>5, <4>1
    <3> QED BY <3>4, <3>5
  <2>10. ASSUME NEW x \in Solid PROVE x \notin set /\ x # b /\ ~(x \in DOMAIN up' /\ up'[x] \in set)
    <3>1. b \in set
      BY <1>2, <2>1, <2>2, <2>5, <2>8, UnderStep
    <3> QED BY <1>9, <2>7, <3>1
  <2>11. ASSUME NEW x \in Solid' PROVE x \in set <=> (x = b \/ (x \in DOMAIN up' /\ up'[x] \in set))
    <3>1. CASE x \in Solid
      BY <2>10, <3>1
    <3>2. CASE x \in CopiesOf(Under(g), i)
      BY <2>9, <3>2 DEF CopiesOf
    <3> QED BY <1>5, <3>1, <3>2
  <2>12. IsUnder(set, b, up', Solid')
    BY <2>7, <2>11 DEF IsUnder
  <2>13. IsUnder(Under(b)', b, up', Solid') /\ Deepens(up', Solid')
    BY <1>2 DEF Tree
  <2>14. Under(b)' = set
    BY <2>12, <2>13, UnderUnique
  <2> QED BY <2>1, <2>2, <2>3, <2>4, <2>5, <2>6, <2>14
<1> QED BY <1>11, <1>12

\* A copy that extends a node: the node is what was copied, or was extended by that.
LEMMA ExtOfCopy ==
    ASSUME NEW o \in Object, NEW p \in Object, NEW i \in Int, NEW c, c = CopyAt(p, i), Ext(c, o)
    PROVE  \/ p = o /\ c.at[Len(o.at) + 1] = i
           \/ Ext(p, o) /\ c.at[Len(o.at) + 1] = p.at[Len(o.at) + 1]
<1>1. PICK s : s = o.at
  OBVIOUS
<1>2. PICK t : t = p.at
  OBVIOUS
<1>3. PICK u : u = c.at
  OBVIOUS
<1>4. s \in Seq(Int) /\ t \in Seq(Int) /\ Len(s) \in Nat /\ Len(t) \in Nat
  BY <1>1, <1>2, LenProperties DEF Object
<1>5. c.of = p.of /\ Len(u) = Len(t) + 1
  BY <1>2, <1>3, CopyAtIs
<1>6. u[Len(t) + 1] = i
  BY <1>2, <1>3, CopyAtIs
<1>7. \A m \in 1 .. Len(t) : u[m] = t[m]
  BY <1>2, <1>3, CopyAtIs
<1>8. c.of = o.of /\ Len(u) > Len(s) /\ \A m \in 1 .. Len(s) : u[m] = s[m]
  BY <1>1, <1>3 DEF Ext
<1>9. CASE Len(s) = Len(t)
  <2>1. \A m \in 1 .. Len(s) : s[m] = t[m]
    BY <1>7, <1>8, <1>9
  <2>2. s = t
    BY <1>4, <1>9, <2>1, SeqEqual
  <2>3. p = o
    <3>1. o = [of |-> o.of, at |-> o.at] /\ p = [of |-> p.of, at |-> p.at]
      BY DEF Object
    <3> QED BY <1>1, <1>2, <1>5, <1>8, <2>2, <3>1
  <2> QED BY <1>1, <1>3, <1>6, <1>9, <2>3
<1>10. CASE Len(s) < Len(t)
  <2>1. \A m \in 1 .. Len(s) : t[m] = s[m]
    BY <1>4, <1>7, <1>8, <1>10
  <2>2. u[Len(s) + 1] = t[Len(s) + 1]
    BY <1>4, <1>7, <1>10
  <2>3. Ext(p, o)
    BY <1>1, <1>2, <1>5, <1>8, <1>10, <2>1 DEF Ext
  <2> QED BY <1>1, <1>2, <1>3, <2>2, <2>3
<1> QED BY <1>4, <1>5, <1>8, <1>9, <1>10

\* What extends a copy extends what was copied.
LEMMA ExtToCopy ==
    ASSUME NEW o \in Object, NEW x \in Object, NEW i \in Int, NEW c, c = CopyAt(o, i), Ext(x, c)
    PROVE  Ext(x, o) /\ x.at[Len(o.at) + 1] = i /\ Len(x.at) > Len(o.at) + 1
<1>1. PICK s : s = o.at
  OBVIOUS
<1>2. PICK t : t = x.at
  OBVIOUS
<1>3. PICK u : u = c.at
  OBVIOUS
<1>4. s \in Seq(Int) /\ t \in Seq(Int) /\ Len(s) \in Nat /\ Len(t) \in Nat
  BY <1>1, <1>2, LenProperties DEF Object
<1>5. c.of = o.of /\ Len(u) = Len(s) + 1
  BY <1>1, <1>3, CopyAtIs
<1>6. u[Len(s) + 1] = i
  BY <1>1, <1>3, CopyAtIs
<1>7. \A m \in 1 .. Len(s) : u[m] = s[m]
  BY <1>1, <1>3, CopyAtIs
<1>8. x.of = c.of /\ Len(t) > Len(u) /\ \A m \in 1 .. Len(u) : t[m] = u[m]
  BY <1>2, <1>3 DEF Ext
<1>9. \A m \in 1 .. Len(s) : t[m] = s[m]
  BY <1>4, <1>5, <1>7, <1>8
<1>10. t[Len(s) + 1] = i
  BY <1>4, <1>5, <1>6, <1>8
<1>11. Ext(x, o)
  BY <1>1, <1>2, <1>4, <1>5, <1>8, <1>9 DEF Ext
<1> QED BY <1>1, <1>2, <1>4, <1>5, <1>8, <1>10, <1>11

\* The generate is copied for the next value of its index: the copies are new nodes, for
\* only earlier values have been reached.
LEMMA CopyKeeps ==
    ASSUME GenerateInv, Copy
    PROVE  GenerateInv' /\ ApartStep
<1>1. /\ work # <<>> /\ state = "visiting" /\ Top.copy = NoObject
      /\ work' = [work EXCEPT ![Len(work)].copy = CopyAt(Top.gen, Top.next)]
      /\ table' = table /\ renamed' = renamed /\ design' = design /\ passes' = passes /\ renaming' = renaming
      /\ visited' = visited /\ state' = state
  BY DEF Copy, read
<1>2. Inv /\ Structure /\ NamesTyped
  BY <1>1 DEF GenerateInv, Inv
<1>3. PICK n : n = Len(work)
  OBVIOUS
<1>4. n \in Nat /\ n \in 1 .. Len(work) /\ Top = work[n] /\ work \in Seq(FrameType) /\ work[n] \in FrameType
  BY <1>1, <1>2, <1>3, WorkIs DEF Inv, Frames
<1>5. PICK g : g = Top.gen
  OBVIOUS
<1>6. PICK i : i = Top.next
  OBVIOUS
<1>7. PICK parent : parent = up[g]
  OBVIOUS
<1>8. PICK c : c = CopyAt(g, i)
  OBVIOUS
<1>9. /\ g \in Heads /\ KindOf(g) = "ForGenerate" /\ Copyable(g, i) /\ parent = Base(n) /\ parent \in OpenScopes
      /\ parent \in Solid /\ g \in visited /\ g \in Solid \cap DOMAIN up /\ i \in Int
  BY <1>1, <1>2, <1>3, <1>5, <1>6, <1>7, ToCopy DEF Copyable
<1>10. ~Reached(g, i)
  BY <1>1, <1>2, <1>5, <1>6, UnreachedIs
<1>11. /\ CopiesNode(g, i) /\ DOMAIN nameOf' = CopiesOf(Under(g), i) \cup Solid
       /\ \A o \in Under(g) : nameOf'[CopyAt(o, i)] = nameOf[o]
       /\ \A o \in Solid : nameOf'[o] = nameOf[o]
  BY <1>2, <1>5, <1>6, <1>9, CopyTree
<1>12. Structure'
  BY <1>2, <1>9, <1>11, CopyStructure
<1>13. /\ Under(g) \subseteq Solid /\ Under(g) \subseteq Object /\ g \in Under(g)
       /\ \A o, p \in Object : CopyAt(o, i) = CopyAt(p, i) => o = p
       /\ Solid \cap CopiesOf(Below(g), i) = {} /\ g \in Below(g) /\ Under(g) \subseteq Below(g)
       /\ Below(g) \subseteq Object
  BY <1>2, <1>9, CopiesAre DEF Under
<1>14. /\ \A a \in Heads : Under(a)' = Under(a)
       /\ \A a \in Generates(g) \cup ToSet(Listed(g, "generates")) :
             a \in Under(g) /\ g \notin Under(a) /\ Under(a) \subseteq Under(g) /\ up[a] = g
             /\ a \in Solid \cap DOMAIN up /\ Under(CopyAt(a, i))' = CopiesOf(Under(a), i)
  <2>1. up[g] \in OpenScopes
    BY <1>7, <1>9
  <2> QED BY <1>2, <1>9, <1>11, <2>1, CopyUnder
<1>15. /\ DOMAIN up' = (DOMAIN up \ {g}) \cup CopiesOf(Below(g), i)
       /\ \A x \in DOMAIN up \ {g} : x \notin CopiesOf(Below(g), i) => up'[x] = up[x]
       /\ up'[c] = parent
       /\ Solid' = Solid \cup CopiesOf(Under(g), i)
  BY <1>7, <1>8, <1>11 DEF CopiesNode
<1>16. /\ \A o \in Below(g) : CopyAt(o, i) \in CopiesOf(Below(g), i)
       /\ \A o \in Under(g) : CopyAt(o, i) \in CopiesOf(Under(g), i) /\ CopyAt(o, i) \notin Solid
       /\ CopiesOf(Under(g), i) \cap Solid = {}
  BY <1>13 DEF CopiesOf
<1>17. \A x \in Solid : x \in DOMAIN up' <=> (x \in DOMAIN up /\ x # g)
  BY <1>13, <1>15
<1>18. \A x \in Solid : x \in DOMAIN up' => up'[x] = up[x]
  BY <1>13, <1>15, <1>17
<1>19. ASSUME NEW o \in Object
       PROVE  CopyAt(o, i) \in Object /\ KindOf(CopyAt(o, i)) = KindOf(o) /\ CopyAt(o, i).of = o.of
              /\ CopyAt(o, i) # NoObject
  BY <1>9, CopyAtIs
<1>20. c \notin Solid /\ c \in Solid' \cap DOMAIN up' /\ c # NoObject /\ c.of = g.of /\ g \in Object /\ c \in Object
  BY <1>8, <1>13, <1>15, <1>16, <1>19
\* Names.
<1>21. NamesTyped' /\ DesignTyped'
  <2>1. ASSUME NEW o \in Solid'
        PROVE  /\ IF KindOf(o) \in DeclarationKinds THEN nameOf'[o] \in NameType ELSE nameOf'[o] = Nameless
               /\ KindOf(o) \in {"ForGenerate", "IfGenerate", "For"} => o.of \in DOMAIN design.header
    <3>1. CASE o \in Solid
      BY <1>2, <1>11, <3>1 DEF NamesTyped, Inv, DesignTyped
    <3>2. CASE o \in CopiesOf(Under(g), i)
      <4>1. PICK p \in Under(g) : o = CopyAt(p, i)
        BY <3>2 DEF CopiesOf
      <4>2. KindOf(o) = KindOf(p) /\ o.of = p.of /\ nameOf'[o] = nameOf[p] /\ p \in Solid
        BY <1>11, <1>13, <1>19, <4>1
      <4> QED BY <1>2, <4>2 DEF NamesTyped, Inv, DesignTyped
    <3> QED BY <1>15, <3>1, <3>2
  <2>2. NamesTyped'
    BY <1>11, <1>15, <2>1 DEF NamesTyped
  <2>3. design.contents \in Solid /\ KindOf(design.contents) = "Contents" /\ KindOf(System) = "View"
        /\ \A m \in DOMAIN design.header : design.header[m] \in HeaderType
    BY <1>2 DEF Inv, DesignTyped
  <2>4. DesignTyped'
    BY <1>1, <1>15, <2>1, <2>3 DEF DesignTyped, System
  <2> QED BY <2>2, <2>4
<1>22. Registered' /\ FreshNamesDiffer'
  <2>1. \A o \in renamed : o \in Solid /\ nameOf'[o] = nameOf[o]
    BY <1>2, <1>11 DEF GenerateInv, Registered, NamesTyped
  <2> QED BY <1>1, <1>11, <2>1 DEF GenerateInv, Registered, FreshNamesDiffer
<1>23. ApartStep
  <2>1. DOMAIN nameOf = Solid
    BY <1>2 DEF NamesTyped
  <2> QED BY <1>11, <1>18, <2>1, ApartStays
\* Frames.
<1>24. /\ Len(work') = n /\ work' \in Seq(FrameType) /\ \A k \in 1 .. n : k # n => work'[k] = work[k]
       /\ work'[n] = [work[n] EXCEPT !.copy = c] /\ work'[n].gen = g /\ work'[n].copy = c
       /\ work'[n].next = i /\ work'[n].bounds = work[n].bounds
  <2>1. work' = [work EXCEPT ![n].copy = c]
    BY <1>1, <1>3, <1>5, <1>6, <1>8
  <2>2. [work[n] EXCEPT !.copy = c] \in FrameType
    BY <1>4, <1>20 DEF FrameType
  <2>3. work' = [work EXCEPT ![n] = [work[n] EXCEPT !.copy = c]]
    BY <1>4, <2>1
  <2> HIDE DEF FrameType
  <2>4. Len(work') = n /\ work' \in Seq(FrameType) /\ \A k \in 1 .. n : k # n => work'[k] = work[k]
    BY <1>3, <1>4, <2>2, <2>3, ExceptSeq
  <2>5. work'[n] = [work[n] EXCEPT !.copy = c]
    BY <1>3, <1>4, <2>3
  <2>6. work[n].gen = g /\ work[n].next = i /\ work[n] = [gen |-> work[n].gen, copy |-> work[n].copy,
                                                          next |-> work[n].next, bounds |-> work[n].bounds]
    BY <1>4, <1>5, <1>6 DEF FrameType
  <2> QED BY <2>4, <2>5, <2>6
<1>25. ASSUME NEW k \in 1 .. n, k # n
       PROVE  work[k].copy # NoObject /\ Level[work[k].gen.of] < Level[g.of] /\ work[k].gen # g /\ work[k].copy # g
              /\ work[k].gen \in Solid
  <2>1. work[k].copy # NoObject /\ Level[work[k].gen.of] < Level[g.of] /\ FrameIs(work[k], Base(k))
    BY <1>2, <1>3, <1>4, <1>5, <1>25 DEF Inv, Frames, Framed
  <2>2. work[k].copy.of = work[k].gen.of /\ work[k].gen \in Solid
    BY <2>1 DEF FrameIs
  <2>3. Level[work[k].gen.of] \in Nat
    BY <1>2, <2>2, Levels DEF Structure
  <2> QED BY <2>1, <2>2, <2>3
<1>26. \A k \in 1 .. n : Base(k)' = Base(k)
  <2> SUFFICES ASSUME NEW k \in 1 .. n PROVE Base(k)' = Base(k)
    OBVIOUS
  <2>1. k # 1 => k - 1 \in 1 .. n /\ k - 1 # n
    BY <1>4
  <2> QED BY <1>1, <1>24, <2>1 DEF Base
<1>27. Frames'
  <2>1. ASSUME NEW k \in 1 .. n, k # n PROVE Framed(k)'
    <3>1. Framed(k) /\ FrameIs(work[k], Base(k))
      BY <1>2, <1>3 DEF Inv, Frames, Framed
    <3>2. work[k].gen \in Solid /\ work[k].copy \in Solid \cap DOMAIN up /\ work[k].gen # g /\ work[k].copy # g
      BY <1>25, <2>1, <3>1 DEF FrameIs
    <3> QED BY <1>1, <1>15, <1>17, <1>18, <1>24, <1>26, <2>1, <3>1, <3>2, FrameStays
  <2>2. Framed(n)'
    <3>1. PICK f : f = work'[n]
      OBVIOUS
    <3>2. PICK b : b = Base(n)
      OBVIOUS
    <3>3. FrameIs(work[n], b)
      BY <1>2, <1>3, <1>4, <3>2 DEF Inv, Frames, Framed
    <3>4. f.gen = g /\ f.copy = c /\ f.bounds = work[n].bounds /\ b = parent
      BY <1>9, <1>24, <3>1, <3>2
    <3>5. g \in visited' \cap Solid' /\ g \notin DOMAIN up'
      BY <1>1, <1>9, <1>15, <1>17
    <3>6. f.bounds.step > 0
      BY <1>4, <1>5, <1>9, <3>3, <3>4 DEF FrameIs
    <3>7. FrameIs(f, b)'
      BY <1>9, <1>15, <1>20, <3>4, <3>5, <3>6 DEF FrameIs, GenerateKinds
    <3>8. Base(n)' = b
      BY <1>4, <1>3, <1>26, <3>2
    <3> QED BY <3>1, <3>7, <3>8 DEF Framed, FrameIs
  <2>3. \A k \in 1 .. n : work'[k].gen = work[k].gen
    BY <1>4, <1>5, <1>24
  <2>4. \A k \in 1 .. n : Framed(k)' /\ (work'[k].copy = NoObject => k = n)
    BY <1>24, <1>25, <2>1, <2>2
  <2>5. /\ \A k \in 1 .. n : Level[design.contents.of] < Level[work[k].gen.of]
        /\ \A j, k \in 1 .. n : j < k => Level[work[j].gen.of] < Level[work[k].gen.of]
    BY <1>2, <1>3 DEF Inv, Frames
  <2> QED BY <1>1, <1>24, <2>3, <2>4, <2>5 DEF Frames
\* What is to be expanded.
<1>28. CopiesOpen' = (CopiesOpen \ {NoObject}) \cup {c} /\ OpenScopes' = OpenScopes \cup {c}
  <2>1. CopiesOpen' = {work'[k].copy : k \in 1 .. n}
    BY <1>24 DEF CopiesOpen
  <2>2. CopiesOpen' = (CopiesOpen \ {NoObject}) \cup {c}
    BY <1>1, <1>3, <1>4, <1>24, <1>25, <2>1 DEF CopiesOpen
  <2> QED BY <1>1, <1>20, <2>2 DEF OpenScopes
<1>29. OpenScopes \subseteq Solid
  BY <1>2, ContentsIs, CopyIs DEF OpenScopes, CopiesOpen, Inv, Structure
<1>30. ASSUME NEW s \in OpenScopes, NEW a \in Generates(s)' PROVE a = c \/ a \in Generates(s)
  <2>1. s \in Solid /\ "generates" \in DOMAIN lists'[s] /\ a \in ToSet(lists'[s]["generates"]) /\ a \notin visited
    BY <1>1, <1>29, <1>30 DEF Generates, Listed, ToSet
  <2>2. "generates" \in DOMAIN lists[s]
    BY <1>11, <2>1 DEF CopiesNode
  <2>3. lists'[s]["generates"] = lists[s]["generates"] \/ lists'[s]["generates"] = Swap(lists[s]["generates"], g, c)
    BY <1>8, <1>11, <2>1, <2>2 DEF CopiesNode
  <2>4. a \in ToSet(lists[s]["generates"]) \/ a = c
    BY <2>1, <2>3 DEF Swap, ToSet
  <2> QED BY <2>1, <2>2, <2>4 DEF Generates, Listed
<1>31. ASSUME NEW a \in Generates(c)' PROVE \E b \in ToSet(Listed(g, "generates")) : a = CopyAt(b, i)
  <2>1. "generates" \in DOMAIN lists'[c] /\ a \in ToSet(lists'[c]["generates"])
    BY DEF Generates, Listed, ToSet
  <2>2. DOMAIN lists'[c] = DOMAIN lists[g]
    BY <1>8, <1>11, <1>13 DEF CopiesNode
  <2>3. lists'[c]["generates"] = [k \in DOMAIN lists[g]["generates"] |-> CopyAt(lists[g]["generates"][k], i)]
    BY <1>8, <1>11, <1>13, <2>1, <2>2 DEF CopiesNode
  <2>4. \E b \in ToSet(lists[g]["generates"]) : a = CopyAt(b, i)
    BY <2>1, <2>3 DEF ToSet
  <2> QED BY <2>1, <2>2, <2>4 DEF Listed
<1>32. ASSUME NEW a \in Heads'
       PROVE  a \in Heads \/ \E b \in ToSet(Listed(g, "generates")) : a = CopyAt(b, i)
  <2>1. CASE a \in Roots'
    <3>1. PICK s \in OpenScopes' : a \in Generates(s)'
      BY <2>1 DEF Roots
    <3>2. a # c /\ a \notin CopiesOpen \ {NoObject}
      BY <1>28, <2>1 DEF Roots
    <3>3. CASE s = c
      BY <1>31, <3>1, <3>3
    <3>4. CASE s \in OpenScopes
      <4>1. a \in Generates(s)
        BY <1>30, <3>1, <3>2, <3>4
      <4>2. a # NoObject
        <5>1. a \in Solid
          BY <1>2, <1>29, <3>4, <4>1, GeneratesAre DEF Generates
        <5> QED BY <1>2, <5>1 DEF Structure, NodesTyped, Nodes, Solid
      <4> QED BY <3>2, <3>4, <4>1, <4>2 DEF Heads, Roots
    <3> QED BY <1>28, <3>1, <3>3, <3>4
  <2>2. CASE a \in {work'[k].gen : k \in 1 .. Len(work')} /\ KindOf(a) = "ForGenerate"
    <3>1. PICK k \in 1 .. n : a = work'[k].gen
      BY <1>24, <2>2
    <3>2. a = work[k].gen
      BY <1>4, <1>5, <1>24, <3>1
    <3> QED BY <1>3, <2>2, <3>2 DEF Heads
  <2> QED BY <2>1, <2>2 DEF Heads
<1>33. \A b \in ToSet(Listed(g, "generates")) :
          /\ Under(CopyAt(b, i))' = CopiesOf(Under(b), i) /\ Under(b) \subseteq Under(g) /\ g \notin Under(b)
          /\ CopiesOf(Under(b), i) \cap Solid = {}
  BY <1>14, <1>16 DEF CopiesOf
<1>34. \A a \in Heads : Under(a)' = Under(a) /\ Under(a) \subseteq Solid
  BY <1>14 DEF Under
<1>35. HeadsApart'
  <2> SUFFICES ASSUME NEW a \in Heads', NEW b \in Heads', a # b, NEW x \in Under(a)', x \in Under(b)' PROVE FALSE
    BY DEF HeadsApart
  <2>1. CASE a \in Heads /\ b \in Heads
    BY <1>2, <1>34, <2>1 DEF Inv, HeadsApart
  <2>2. CASE a \in Heads /\ \E q \in ToSet(Listed(g, "generates")) : b = CopyAt(q, i)
    BY <1>33, <1>34, <2>2
  <2>3. CASE b \in Heads /\ \E q \in ToSet(Listed(g, "generates")) : a = CopyAt(q, i)
    BY <1>33, <1>34, <2>3
  <2>4. ASSUME NEW p \in ToSet(Listed(g, "generates")), NEW q \in ToSet(Listed(g, "generates")),
               a = CopyAt(p, i), b = CopyAt(q, i)
        PROVE  FALSE
    <3>1. x \in CopiesOf(Under(p), i) /\ x \in CopiesOf(Under(q), i)
      BY <1>33, <2>4
    <3>2. PICK y \in Under(p), z \in Under(q) : x = CopyAt(y, i) /\ x = CopyAt(z, i)
      BY <3>1 DEF CopiesOf
    <3>3. y \in Object /\ z \in Object
      BY <1>13, <1>33, <3>2
    <3>4. y = z
      BY <1>13, <3>2, <3>3
    <3>5. p # q /\ p \in Solid \cap DOMAIN up /\ q \in Solid \cap DOMAIN up /\ up[p] = up[q]
      BY <1>14, <2>4
    <3>6. Tree
      BY <1>2, TreeUnder DEF Structure
    <3>7. Under(p) \cap Under(q) = {}
      BY <3>5, <3>6, SiblingsApart DEF Tree
    <3> QED BY <3>2, <3>4, <3>7
  <2> QED BY <1>32, <2>1, <2>2, <2>3, <2>4
<1>36. OpenOutside'
  <2> SUFFICES ASSUME NEW a \in Heads', NEW s \in OpenScopes', s \in Under(a)' PROVE FALSE
    BY DEF OpenOutside
  <2>1. CASE a \in Heads
    BY <1>2, <1>20, <1>28, <1>34, <2>1 DEF Inv, OpenOutside
  <2>2. ASSUME NEW q \in ToSet(Listed(g, "generates")), a = CopyAt(q, i) PROVE FALSE
    <3>1. s \in CopiesOf(Under(q), i)
      BY <1>33, <2>2
    <3>2. s = c
      BY <1>28, <1>29, <1>33, <3>1
    <3>3. PICK y \in Under(q) : s = CopyAt(y, i)
      BY <3>1 DEF CopiesOf
    <3>4. y = g
      BY <1>8, <1>13, <1>20, <1>33, <3>2, <3>3
    <3> QED BY <1>33, <3>3, <3>4
  <2> QED BY <1>32, <2>1, <2>2
<1>37. /\ \A a : \A j \in Int : Reached(a, j) => Reached(a, j)'
       /\ Reached(g, i)'
  <2>1. ASSUME NEW a, NEW j \in Int, Reached(a, j) PROVE Reached(a, j)'
    <3>1. PICK k \in 1 .. n : work[k].gen = a /\ (j < work[k].next \/ (j = work[k].next /\ work[k].copy # NoObject))
      BY <1>3, <2>1 DEF Reached
    <3>2. work'[k].gen = a /\ (j < work'[k].next \/ (j = work'[k].next /\ work'[k].copy # NoObject))
      <4>1. CASE k = n
        BY <1>4, <1>5, <1>6, <1>20, <1>24, <3>1, <4>1
      <4>2. CASE k # n
        BY <1>24, <3>1, <4>2
      <4> QED BY <4>1, <4>2
    <3> QED BY <1>24, <3>2 DEF Reached
  <2>2. Reached(g, i)'
    BY <1>3, <1>4, <1>20, <1>24 DEF Reached
  <2> QED BY <2>1, <2>2
<1>38. CopiesFresh'
  <2> SUFFICES ASSUME NEW a \in Heads', NEW o \in Under(a)', NEW x \in Solid', Ext(x, o)
               PROVE  Reached(a, x.at[Len(o.at) + 1])'
    BY DEF CopiesFresh
  <2>1. \A y \in Solid : y \in Object
    BY <1>2 DEF Structure, NodesTyped, Nodes, Solid
  <2>2. ASSUME NEW y \in Under(g), NEW p \in Solid, Ext(p, y), p.at[Len(y.at) + 1] = i PROVE FALSE
    BY <1>2, <1>9, <1>10, <2>2 DEF Inv, CopiesFresh
  <2>3. ASSUME a \in Heads, NEW p \in Solid, Ext(p, o) PROVE Reached(a, p.at[Len(o.at) + 1])'
    <3>1. PICK j : j = p.at[Len(o.at) + 1]
      OBVIOUS
    <3>2. o \in Under(a) /\ o \in Solid
      BY <1>34, <2>3
    <3>3. Reached(a, j) /\ j \in Int
      BY <1>2, <2>3, <3>1, <3>2, ExtTyped DEF Inv, CopiesFresh, Structure
    <3>4. Reached(a, j)'
      BY <1>37, <3>3
    <3> QED BY <3>1, <3>4
  <2>4. CASE a \in Heads /\ x \in Solid
    BY <2>3, <2>4
  <2>5. CASE a \in Heads /\ x \in CopiesOf(Under(g), i)
    <3>1. PICK p \in Under(g) : x = CopyAt(p, i)
      BY <2>5 DEF CopiesOf
    <3>2. o \in Under(a) /\ o \in Object /\ p \in Object /\ p \in Solid
      BY <1>13, <1>34, <2>1, <2>5
    <3>3. \/ p = o /\ x.at[Len(o.at) + 1] = i
          \/ Ext(p, o) /\ x.at[Len(o.at) + 1] = p.at[Len(o.at) + 1]
      BY <1>9, <3>1, <3>2, ExtOfCopy
    <3>4. CASE p = o /\ x.at[Len(o.at) + 1] = i
      <4>1. a = g
        BY <1>2, <1>9, <2>5, <3>2, <3>4 DEF Inv, HeadsApart
      <4> QED BY <1>37, <3>4, <4>1
    <3>5. CASE Ext(p, o) /\ x.at[Len(o.at) + 1] = p.at[Len(o.at) + 1]
      <4>1. Reached(a, p.at[Len(o.at) + 1])'
        BY <2>3, <2>5, <3>2, <3>5
      <4> QED BY <3>5, <4>1
    <3> QED BY <3>3, <3>4, <3>5
  <2>6. ASSUME NEW q \in ToSet(Listed(g, "generates")), a = CopyAt(q, i) PROVE FALSE
    <3>1. PICK y \in Under(q) : o = CopyAt(y, i)
      BY <1>33, <2>6 DEF CopiesOf
    <3>2. y \in Under(g) /\ y \in Object
      BY <1>13, <1>33, <3>1
    <3>3. x \in Object
      BY <1>12 DEF Structure, NodesTyped, Nodes, Solid
    <3>4. Ext(x, y) /\ x.at[Len(y.at) + 1] = i /\ Len(x.at) > Len(y.at) + 1
      BY <1>9, <3>1, <3>2, <3>3, ExtToCopy
    <3>5. CASE x \in Solid
      BY <2>2, <3>2, <3>4, <3>5
    <3>6. CASE x \in CopiesOf(Under(g), i)
      <4>1. PICK p \in Under(g) : x = CopyAt(p, i)
        BY <3>6 DEF CopiesOf
      <4>2. p \in Object /\ p \in Solid
        BY <1>13, <4>1
      <4>3. \/ p = y
            \/ Ext(p, y) /\ x.at[Len(y.at) + 1] = p.at[Len(y.at) + 1]
        BY <1>9, <3>2, <3>4, <4>1, <4>2, ExtOfCopy
      <4>4. Len(x.at) = Len(p.at) + 1 /\ Len(p.at) \in Nat
        BY <1>9, <4>1, <4>2, CopyAtIs
      <4>5. p # y
        BY <3>4, <4>4
      <4> QED BY <2>2, <3>2, <3>4, <4>2, <4>3, <4>5
    <3> QED BY <1>15, <3>5, <3>6
  <2> QED BY <1>15, <1>32, <2>4, <2>5, <2>6
<1>39. Inv'
  BY <1>1, <1>9, <1>12, <1>21, <1>27, <1>35, <1>36, <1>38 DEF Inv, Phases
<1>40. ~renaming
  BY <1>9 DEF GenerateInv, Renames
<1> QED BY <1>1, <1>22, <1>23, <1>39, <1>40 DEF GenerateInv, Renames

-----------------------------------------------------------------------------
(* A copy goes, and what it is a copy of comes back. *)

\* What putting g in the place of copy does to the tree.
Restores(g, copy) ==
    /\ copy \in Solid \cap DOMAIN up /\ g \in Solid /\ g \notin DOMAIN up /\ copy # g /\ g.of = copy.of
    /\ KindOf(copy) \in GenerateKinds
    /\ "generates" \in DOMAIN lists[up[copy]] /\ copy \in ToSet(lists[up[copy]]["generates"])
    /\ DOMAIN up' = (DOMAIN up \ Below(copy)) \cup {g}
    /\ \A x \in DOMAIN up \ Below(copy) : x # g => up'[x] = up[x]
    /\ up'[g] = up[copy]
    /\ Solid' = Solid \ Under(copy)
    /\ \A s \in Solid \ Under(copy) :
          /\ DOMAIN lists'[s] = DOMAIN lists[s]
          /\ \A l \in DOMAIN lists[s] :
                lists'[s][l] = IF s = up[copy] /\ l = "generates" THEN Swap(lists[s][l], copy, g) ELSE lists[s][l]

\* What goes with a node.
LEMMA BelowGone ==
    ASSUME Structure, NEW o, o \in Solid \cap DOMAIN up
    PROVE  /\ Below(o) \subseteq Nodes /\ o \in Under(o) /\ Under(o) \subseteq Solid
           /\ \A x \in Solid : x \in Below(o) <=> x \in Under(o)
           /\ \A x \in DOMAIN up : x \in Below(o) <=> (x = o \/ up[x] \in Under(o))
           /\ \A x \in Below(o) : x \in DOMAIN up
           /\ up[o] \in Solid /\ up[o] \notin Under(o)
<1>1. BelowIs(o)
  BY BelowStep DEF Structure
<1>2. /\ Solid \subseteq Nodes /\ DOMAIN up \subseteq Nodes /\ \A x \in DOMAIN up : up[x] \in Solid
      /\ Level[up[o].of] < Level[o.of]
  BY DEF Nodes, Solid, Structure, UpTyped
<1>3. up[o] \notin Under(o)
  <2>1. Tree
    BY TreeUnder DEF Structure
  <2>2. up[o] \in Under(o) => Level[o.of] <= Level[up[o].of]
    BY <2>1, UnderLevel DEF Tree
  <2>3. Level[o.of] \in Nat /\ Level[up[o].of] \in Nat
    BY <1>2, Levels DEF Structure
  <2> QED BY <1>2, <2>2, <2>3
<1> QED BY <1>1, <1>2, <1>3 DEF BelowIs, Under

\* What goes with a copy of a node that is not in the tree.
LEMMA GoneIs ==
    ASSUME Structure, NEW copy, copy \in Solid \cap DOMAIN up, NEW g, g \in Solid, g \notin DOMAIN up, copy # g
    PROVE  /\ Below(copy) \subseteq Nodes /\ copy \in Under(copy) /\ Under(copy) \subseteq Solid
           /\ \A x \in Solid : x \in Below(copy) <=> x \in Under(copy)
           /\ \A x \in DOMAIN up : x \in Below(copy) <=> (x = copy \/ up[x] \in Under(copy))
           /\ g \notin Below(copy) /\ up[copy] \in Solid /\ up[copy] \notin Under(copy)
BY BelowGone

\* A generate in the place of its copy keeps the tree.
LEMMA RestoreStructure ==
    ASSUME Structure, NEW g, NEW copy, Restores(g, copy)
    PROVE  Structure'
<1>1. PICK parent : parent = up[copy]
  OBVIOUS
<1>2. /\ copy \in Solid \cap DOMAIN up /\ g \in Solid /\ g \notin DOMAIN up /\ copy # g /\ g.of = copy.of
      /\ KindOf(copy) \in GenerateKinds /\ KindOf(g) = KindOf(copy)
      /\ "generates" \in DOMAIN lists[parent] /\ copy \in ToSet(lists[parent]["generates"])
      /\ DOMAIN up' = (DOMAIN up \ Below(copy)) \cup {g}
      /\ \A x \in DOMAIN up \ Below(copy) : x # g => up'[x] = up[x]
      /\ up'[g] = parent
      /\ Solid' = Solid \ Under(copy)
      /\ \A s \in Solid' : DOMAIN lists'[s] = DOMAIN lists[s]
  BY <1>1 DEF Restores, KindOf
<1>3. /\ Below(copy) \subseteq Nodes /\ copy \in Under(copy) /\ Under(copy) \subseteq Solid
      /\ \A x \in Solid : x \in Below(copy) <=> x \in Under(copy)
      /\ \A x \in DOMAIN up : x \in Below(copy) <=> (x = copy \/ up[x] \in Under(copy))
      /\ g \notin Below(copy) /\ parent \in Solid /\ parent \notin Under(copy)
  BY <1>1, <1>2, GoneIs
<1>4. g \in Solid' /\ parent \in Solid' /\ \A x \in DOMAIN up : up[x] \in Solid /\ Level[up[x].of] < Level[x.of]
  BY <1>2, <1>3 DEF Structure, UpTyped
<1>5. Nodes' \subseteq Nodes /\ \A x \in Nodes' : x \in Solid' <=> x \in Solid
  <2>1. Nodes' = DOMAIN up' \cup Solid' /\ Nodes = DOMAIN up \cup Solid
    BY DEF Nodes, Solid
  <2> QED BY <1>2, <1>3, <1>4, <2>1
<1>6. NodesTyped'
  BY <1>5 DEF Structure, NodesTyped
<1>7. UpTyped'
  <2> SUFFICES ASSUME NEW x \in DOMAIN up' PROVE up'[x] \in Solid' /\ Level[up'[x].of] < Level[x.of]
    BY DEF UpTyped
  <2>1. CASE x = g
    BY <1>1, <1>2, <1>4, <2>1
  <2>2. CASE x # g
    BY <1>2, <1>3, <1>4, <2>2
  <2> QED BY <2>1, <2>2
<1>8. \A x \in Solid' \cap DOMAIN up : x \in DOMAIN up' /\ up'[x] = up[x]
  BY <1>2, <1>3
<1>9. ASSUME NEW s \in Solid', NEW l \in DOMAIN lists[s]
      PROVE  /\ lists[s][l] \in Seq(Object) /\ lists'[s][l] \in Seq(Object)
             /\ \A x \in ToSet(lists'[s][l]) :
                   x # g => x \in ToSet(lists[s][l]) /\ x # copy /\ (Once(lists[s][l], x) => Once(lists'[s][l], x))
             /\ \A x \in ToSet(lists[s][l]) : x # copy => x \in ToSet(lists'[s][l])
             /\ g \in ToSet(lists'[s][l]) => s = parent /\ l = "generates" /\ Once(lists'[s][l], g)
  <2>1. PICK list : list = lists[s][l]
    OBVIOUS
  <2>2. s \in Solid
    BY <1>2
  <2>3. list \in Seq(Object) /\ \A x \in ToSet(list) : Fits(x, s, l) /\ (KindOf(x) # "Reference" => Once(list, x))
    BY <2>1, <2>2 DEF Structure, ListsTyped
  <2>4. KindOf(copy) # "Reference" /\ KindOf(g) # "Reference"
    BY <1>2 DEF GenerateKinds
  <2>5. copy \in ToSet(list) => s = parent /\ l = "generates" /\ Once(list, copy)
    <3>1. ASSUME copy \in ToSet(list) PROVE s = parent /\ l = "generates" /\ Once(list, copy)
      <4>1. s = parent /\ Once(list, copy)
        BY <1>1, <2>3, <2>4, <3>1 DEF Fits
      <4>2. l = "generates"
        BY <1>2, <2>1, <2>2, <2>4, <3>1, <4>1 DEF Structure, InOneList
      <4> QED BY <4>1, <4>2
    <3> QED BY <3>1
  <2>6. g \notin ToSet(list)
    BY <1>2, <2>3, <2>4 DEF Fits
  <2>7. CASE s = parent /\ l = "generates"
    <3>1. lists'[s][l] = Swap(list, copy, g)
      BY <1>1, <1>2, <2>1, <2>7 DEF Restores
    <3>2. PICK new : new = Swap(list, copy, g)
      OBVIOUS
    <3>3. g \in Object
      BY <1>2 DEF Structure, NodesTyped, Nodes, Solid
    <3>4. /\ new \in Seq(Object) /\ ToSet(new) \ {g} = ToSet(list) \ {copy}
          /\ Once(list, copy) => Once(new, g)
          /\ \A x : x # g /\ Once(list, x) => Once(new, x)
      BY <1>2, <2>3, <2>6, <3>2, <3>3, Swapped
    <3> QED BY <1>2, <2>1, <2>3, <2>4, <2>5, <2>7, <3>1, <3>2, <3>4
  <2>8. CASE ~(s = parent /\ l = "generates")
    <3>1. lists'[s][l] = list
      BY <1>1, <1>2, <2>1, <2>8 DEF Restores
    <3> QED BY <2>1, <2>3, <2>5, <2>6, <2>8, <3>1
  <2> QED BY <2>7, <2>8
<1>10. g \in ToSet(lists'[parent]["generates"])
  <2>1. lists'[parent]["generates"] = Swap(lists[parent]["generates"], copy, g)
    BY <1>1, <1>2, <1>4 DEF Restores
  <2> QED BY <1>2, <2>1 DEF Swap, ToSet
<1>11. ListsTyped'
  <2> SUFFICES ASSUME NEW s \in Solid'
               PROVE  /\ KindOf(s) \in DOMAIN ContentOf /\ DOMAIN lists'[s] = DOMAIN ContentOf[KindOf(s)]
                      /\ \A l \in DOMAIN lists'[s] :
                            /\ lists'[s][l] \in Seq(Object)
                            /\ \A x \in ToSet(lists'[s][l]) :
                                  Fits(x, s, l)' /\ (KindOf(x) # "Reference" => Once(lists'[s][l], x))
    BY DEF ListsTyped
  <2>1. KindOf(s) \in DOMAIN ContentOf /\ DOMAIN lists'[s] = DOMAIN ContentOf[KindOf(s)]
    BY <1>2 DEF Structure, ListsTyped
  <2>2. ASSUME NEW l \in DOMAIN lists[s], NEW x \in ToSet(lists'[s][l])
        PROVE  Fits(x, s, l)' /\ (KindOf(x) # "Reference" => Once(lists'[s][l], x))
    <3>1. CASE x = g
      <4>1. s = parent /\ l = "generates" /\ Once(lists'[s][l], g)
        BY <1>9, <2>2, <3>1
      <4>2. Fits(copy, parent, "generates")
        BY <1>2, <1>3 DEF Structure, ListsTyped
      <4> QED BY <1>2, <1>4, <3>1, <4>1, <4>2 DEF Fits
    <3>2. CASE x # g
      <4>1. x \in ToSet(lists[s][l]) /\ x # copy /\ (Once(lists[s][l], x) => Once(lists'[s][l], x))
        BY <1>9, <2>2, <3>2
      <4>2. Fits(x, s, l) /\ (KindOf(x) # "Reference" => Once(lists[s][l], x))
        BY <1>2, <4>1 DEF Structure, ListsTyped
      <4>3. ASSUME KindOf(x) # "Reference" PROVE x \in Solid' \cap DOMAIN up' /\ up'[x] = s
        <5>1. x \in Solid \cap DOMAIN up /\ up[x] = s
          BY <4>2, <4>3 DEF Fits
        <5>2. x \notin Under(copy)
          BY <1>2, <1>3, <4>1, <5>1
        <5> QED BY <1>2, <1>8, <5>1, <5>2
      <4> QED BY <4>1, <4>2, <4>3 DEF Fits
    <3> QED BY <3>1, <3>2
  <2> QED BY <1>2, <1>9, <2>1, <2>2
<1>12. InOneList'
  <2> SUFFICES ASSUME NEW s \in Solid', NEW l \in DOMAIN lists'[s], NEW m \in DOMAIN lists'[s], l # m,
                      NEW x \in ToSet(lists'[s][l]) \cap ToSet(lists'[s][m]), KindOf(x) # "Reference"
               PROVE  FALSE
    BY DEF InOneList
  <2>1. l \in DOMAIN lists[s] /\ m \in DOMAIN lists[s] /\ s \in Solid
    BY <1>2
  <2>2. x # g
    BY <1>9, <2>1
  <2>3. x \in ToSet(lists[s][l]) /\ x \in ToSet(lists[s][m])
    BY <1>9, <2>1, <2>2
  <2> QED BY <2>1, <2>3 DEF Structure, InOneList
<1>13. Placed'
  <2> SUFFICES ASSUME NEW x \in DOMAIN up', KindOf(x) \notin {"Contents", "Reference"}
               PROVE  \E l \in DOMAIN lists'[up'[x]] : x \in ToSet(lists'[up'[x]][l])
    BY DEF Placed
  <2>1. CASE x = g
    BY <1>2, <1>4, <1>10, <2>1
  <2>2. CASE x # g
    <3>1. x \in DOMAIN up /\ x \notin Below(copy) /\ up'[x] = up[x] /\ up[x] \in Solid' /\ x # copy
      BY <1>2, <1>3, <1>4, <2>2
    <3>2. PICK l \in DOMAIN lists[up[x]] : x \in ToSet(lists[up[x]][l])
      BY <3>1 DEF Structure, Placed
    <3>3. x \in ToSet(lists'[up[x]][l])
      BY <1>9, <3>1, <3>2
    <3> QED BY <1>2, <3>1, <3>2, <3>3
  <2> QED BY <2>1, <2>2
<1> QED BY <1>6, <1>7, <1>11, <1>12, <1>13 DEF Structure

\* A frame whose copy is to go: the copy is not what it is a copy of.
LEMMA ToRestore ==
    ASSUME Inv, work # <<>>, Top.copy # NoObject, Top.copy # Top.gen
    PROVE  /\ KindOf(Top.gen) = "ForGenerate" /\ Top.gen \in visited \cap Solid /\ Top.gen \notin DOMAIN up
           /\ Top.copy \in Solid \cap DOMAIN up /\ Top.copy.of = Top.gen.of /\ KindOf(Top.copy) \in GenerateKinds
           /\ up[Top.copy] = Base(Len(work)) /\ up[Top.copy] \in Solid \cap OpenScopes
           /\ "generates" \in DOMAIN lists[up[Top.copy]]
           /\ Top.copy \in ToSet(lists[up[Top.copy]]["generates"])
           /\ Top.bounds.step > 0
<1>1. PICK n : n = Len(work)
  OBVIOUS
<1>2. n \in 1 .. Len(work) /\ Top = work[n]
  BY <1>1, WorkIs DEF Inv
<1>3. PICK c : c = work[n].copy
  OBVIOUS
<1>4. FrameIs(work[n], Base(n))
  BY <1>2 DEF Inv, Frames, Framed
<1>5. /\ work[n].gen \in visited \cap Solid /\ KindOf(work[n].gen) = "ForGenerate" /\ work[n].gen \notin DOMAIN up
      /\ c \in Solid \cap DOMAIN up /\ up[c] = Base(n) /\ c.of = work[n].gen.of /\ KindOf(c) = "ForGenerate"
      /\ work[n].bounds.step > 0
  BY <1>2, <1>3, <1>4 DEF FrameIs, GenerateKinds, KindOf
<1>6. Base(n) \in Solid /\ Base(n) \in OpenScopes /\ KindOf(Base(n)) \in BaseContents
  BY <1>2, BaseIs
<1>7. "generates" \in DOMAIN lists[up[c]] /\ c \in ToSet(lists[up[c]]["generates"])
  <2>1. PICK l \in DOMAIN lists[up[c]] : c \in ToSet(lists[up[c]][l])
    BY <1>5 DEF Inv, Structure, Placed
  <2>2. KindOf(c) \in ContentOf[KindOf(up[c])][l] /\ DOMAIN lists[up[c]] = DOMAIN ContentOf[KindOf(up[c])]
    BY <1>5, <1>6, <2>1 DEF Inv, Structure, ListsTyped, Fits
  <2>3. l = "generates"
    BY <1>5, <1>6, <2>1, <2>2, ContentIs DEF StatementLists, BaseContents
  <2> QED BY <2>1, <2>3
<1> QED BY <1>1, <1>2, <1>3, <1>5, <1>6, <1>7 DEF GenerateKinds

\* The step Restore takes the copy's nodes away, and their names.
LEMMA RestoreTree ==
    ASSUME Inv, Restore
    PROVE  /\ Restores(Top.gen, Top.copy) /\ DOMAIN nameOf' = Solid'
           /\ \A o \in Solid' : nameOf'[o] = nameOf[o]
           /\ renamed' = renamed \ Below(Top.copy)
<1>1. work # <<>> /\ Top.copy # NoObject /\ Top.copy # Top.gen
  BY DEF Restore, Moving
<1>2. PICK g : g = Top.gen
  OBVIOUS
<1>3. PICK copy : copy = Top.copy
  OBVIOUS
<1>4. PICK parent : parent = up[copy]
  OBVIOUS
<1>5. /\ KindOf(g) = "ForGenerate" /\ g \in visited \cap Solid /\ g \notin DOMAIN up
      /\ copy \in Solid \cap DOMAIN up /\ copy.of = g.of /\ KindOf(copy) \in GenerateKinds /\ copy # g
      /\ parent \in Solid
      /\ "generates" \in DOMAIN lists[parent] /\ copy \in ToSet(lists[parent]["generates"])
  BY <1>1, <1>2, <1>3, <1>4, ToRestore
<1>6. /\ Below(copy) \subseteq Nodes /\ copy \in Under(copy) /\ Under(copy) \subseteq Solid
      /\ \A x \in Solid : x \in Below(copy) <=> x \in Under(copy)
      /\ \A x \in DOMAIN up : x \in Below(copy) <=> (x = copy \/ up[x] \in Under(copy))
      /\ g \notin Below(copy) /\ up[copy] \in Solid /\ up[copy] \notin Under(copy)
  BY <1>5, GoneIs DEF Inv
<1>7. PICK others : others = Without(up, Below(copy))
  OBVIOUS
<1>8. PICK otherLists : otherLists = Without(lists, Below(copy))
  OBVIOUS
<1>9. PICK first : first = [x \in {g} |-> parent]
  OBVIOUS
<1>10. up' = Over(first, others) /\ nameOf' = Without(nameOf, Below(copy)) /\ renamed' = renamed \ Below(copy)
  BY <1>2, <1>3, <1>4, <1>7, <1>9 DEF Restore
<1>11. lists' = [otherLists EXCEPT ![parent].generates = Swap(@, copy, g)]
  BY <1>2, <1>3, <1>4, <1>8 DEF Restore, Swap
<1>12. /\ DOMAIN up' = (DOMAIN up \ Below(copy)) \cup {g}
       /\ \A x \in DOMAIN up \ Below(copy) : x # g => up'[x] = up[x]
       /\ up'[g] = parent
  BY <1>7, <1>9, <1>10 DEF Over, Without
<1>13. DOMAIN otherLists = Solid \ Under(copy) /\ \A s \in Solid \ Under(copy) : otherLists[s] = lists[s]
  BY <1>6, <1>8 DEF Without, Solid
<1>14. /\ Solid' = Solid \ Under(copy)
       /\ \A s \in Solid \ Under(copy) :
             /\ DOMAIN lists'[s] = DOMAIN lists[s]
             /\ \A l \in DOMAIN lists[s] :
                   lists'[s][l] = IF s = parent /\ l = "generates" THEN Swap(lists[s][l], copy, g) ELSE lists[s][l]
  BY <1>4, <1>5, <1>6, <1>11, <1>13 DEF Solid
<1>15. Restores(g, copy)
  BY <1>4, <1>5, <1>12, <1>14 DEF Restores
<1>16. DOMAIN nameOf' = Solid' /\ \A o \in Solid' : nameOf'[o] = nameOf[o]
  <2>1. DOMAIN nameOf = Solid
    BY DEF Inv, NamesTyped
  <2> QED BY <1>6, <1>10, <1>14, <2>1 DEF Without
<1> QED BY <1>2, <1>3, <1>10, <1>15, <1>16

\* The generate comes back, and the copy is deleted: the value has been reached.
LEMMA RestoreKeeps ==
    ASSUME GenerateInv, Restore
    PROVE  GenerateInv' /\ ApartStep
<1>1. /\ work # <<>> /\ state = "visiting" /\ Top.copy # NoObject /\ Top.copy # Top.gen
      /\ work' = [work EXCEPT ![Len(work)].copy = NoObject, ![Len(work)].next = @ + Top.bounds.step]
      /\ table' = table /\ design' = design /\ passes' = passes /\ renaming' = renaming
      /\ visited' = visited /\ state' = state
  BY DEF Restore, Moving, read
<1>2. Inv /\ Structure /\ NamesTyped
  BY <1>1 DEF GenerateInv, Inv
<1>3. PICK n : n = Len(work)
  OBVIOUS
<1>4. n \in Nat /\ n \in 1 .. Len(work) /\ Top = work[n] /\ work \in Seq(FrameType) /\ work[n] \in FrameType
  BY <1>1, <1>2, <1>3, WorkIs DEF Inv, Frames
<1>5. PICK g : g = Top.gen
  OBVIOUS
<1>6. PICK copy : copy = Top.copy
  OBVIOUS
<1>7. PICK parent : parent = up[copy]
  OBVIOUS
<1>8. /\ KindOf(g) = "ForGenerate" /\ g \in visited \cap Solid /\ g \notin DOMAIN up
      /\ copy \in Solid \cap DOMAIN up /\ copy.of = g.of /\ copy # g
      /\ parent = Base(n) /\ parent \in Solid \cap OpenScopes /\ Top.bounds.step > 0
  BY <1>1, <1>2, <1>3, <1>5, <1>6, <1>7, ToRestore
<1>9. /\ Restores(g, copy) /\ DOMAIN nameOf' = Solid'
      /\ \A o \in Solid' : nameOf'[o] = nameOf[o]
      /\ renamed' = renamed \ Below(copy)
  BY <1>2, <1>5, <1>6, RestoreTree
<1>10. Structure'
  BY <1>2, <1>9, RestoreStructure
<1>11. Tree /\ Tree'
  <2>1. (NodesTyped /\ UpTyped => Tree)'
    BY TreeUnder, PTL
  <2> QED BY <1>2, <1>10, <2>1, TreeUnder DEF Structure
<1>12. /\ copy \in Under(copy) /\ Under(copy) \subseteq Solid
       /\ \A x \in Solid : x \in Below(copy) <=> x \in Under(copy)
       /\ \A x \in DOMAIN up : x \in Below(copy) <=> (x = copy \/ up[x] \in Under(copy))
       /\ g \notin Below(copy) /\ parent \notin Under(copy)
  BY <1>2, <1>7, <1>8, GoneIs, ZenonT(60)
<1>13. /\ DOMAIN up' = (DOMAIN up \ Below(copy)) \cup {g}
       /\ \A x \in DOMAIN up \ Below(copy) : x # g => up'[x] = up[x]
       /\ up'[g] = parent
       /\ Solid' = Solid \ Under(copy)
  BY <1>7, <1>9 DEF Restores
<1>14. /\ \A x \in Solid' : x # g => (x \in DOMAIN up' <=> x \in DOMAIN up)
       /\ \A x \in Solid' \cap DOMAIN up : up'[x] = up[x]
       /\ g \in Solid' \cap DOMAIN up' /\ Solid' \subseteq Solid
  BY <1>8, <1>12, <1>13
\* Names.
<1>15. /\ NamesTyped' /\ Registered' /\ FreshNamesDiffer'
  <2>1. NamesTyped'
    BY <1>2, <1>9, <1>14 DEF NamesTyped
  <2>2. \A o \in renamed' : o \in renamed /\ o \in Solid' /\ nameOf'[o] = nameOf[o]
    BY <1>2, <1>9, <1>12, <1>13 DEF GenerateInv, Registered, NamesTyped
  <2> QED BY <1>1, <1>9, <2>1, <2>2 DEF GenerateInv, Registered, FreshNamesDiffer
<1>16. ApartStep
  <2>1. \A o \in Solid' \cap DOMAIN up : nameOf'[o] = nameOf[o] /\ up'[o] = up[o]
    BY <1>9, <1>14
  <2> QED BY <1>9, <2>1, ApartStays
\* What is not as deep as the copy stays.
<1>17. ASSUME NEW x \in Solid, Level[x.of] < Level[g.of] PROVE x \in Solid' /\ x # copy /\ x # g
  <2>1. Level[x.of] \in Nat /\ Level[g.of] \in Nat /\ Level[copy.of] = Level[g.of]
    BY <1>2, <1>8, Levels DEF Structure
  <2>2. x \in Under(copy) => Level[copy.of] <= Level[x.of]
    BY <1>11, UnderLevel DEF Tree
  <2> QED BY <1>12, <1>13, <1>17, <2>1, <2>2
<1>18. DesignTyped'
  <2>1. design.contents \in Solid /\ Level[design.contents.of] < Level[g.of]
    BY <1>2, <1>4, <1>5 DEF Inv, DesignTyped, Frames
  <2> QED BY <1>1, <1>2, <1>14, <1>17, <2>1 DEF Inv, DesignTyped, System
<1>19. /\ Len(work') = n /\ work' \in Seq(FrameType) /\ \A k \in 1 .. n : k # n => work'[k] = work[k]
       /\ work'[n].gen = g /\ work'[n].copy = NoObject
       /\ work'[n].next = work[n].next + work[n].bounds.step /\ work'[n].bounds = work[n].bounds
       /\ work[n].next \in Int /\ work[n].bounds.step \in Int /\ work[n].bounds.step > 0
  <2>1. PICK f : f = [gen |-> work[n].gen, copy |-> NoObject, next |-> work[n].next + work[n].bounds.step,
                      bounds |-> work[n].bounds]
    OBVIOUS
  <2>2. work[n] = [gen |-> work[n].gen, copy |-> work[n].copy, next |-> work[n].next, bounds |-> work[n].bounds]
    BY <1>4 DEF FrameType
  <2>3. work' = [work EXCEPT ![n] = f]
    <3>1. PICK w : w = [work EXCEPT ![n].copy = NoObject]
      OBVIOUS
    <3>2. DOMAIN w = DOMAIN work /\ w[n] = [work[n] EXCEPT !.copy = NoObject] /\ \A k \in DOMAIN work : k # n => w[k] = work[k]
      BY <1>4, <3>1
    <3>3. w[n] = [gen |-> work[n].gen, copy |-> NoObject, next |-> work[n].next, bounds |-> work[n].bounds]
      BY <2>2, <3>2
    <3>4. work' = [w EXCEPT ![n] = [w[n] EXCEPT !.next = @ + work[n].bounds.step]]
      BY <1>1, <1>3, <1>4, <3>1
    <3>5. [w[n] EXCEPT !.next = @ + work[n].bounds.step] = f
      BY <2>1, <3>3
    <3> QED BY <1>4, <3>1, <3>4, <3>5
  <2>4. work[n].next \in Int /\ work[n].bounds.step \in Int
    BY <1>4 DEF FrameType, BoundsType
  <2>5. f \in FrameType
    BY <1>4, <2>1, <2>4 DEF FrameType
  <2> HIDE DEF FrameType
  <2>6. Len(work') = n /\ work' \in Seq(FrameType) /\ \A k \in 1 .. n : k # n => work'[k] = work[k]
    BY <1>3, <1>4, <2>3, <2>5, ExceptSeq
  <2>7. work'[n] = f
    BY <1>3, <1>4, <2>3
  <2> QED BY <1>4, <1>5, <1>8, <2>1, <2>4, <2>6, <2>7
<1>20. ASSUME NEW k \in 1 .. n, k # n
       PROVE  /\ Framed(k) /\ work[k].copy # NoObject /\ work[k].copy # copy
              /\ work[k].gen \in Solid' /\ work[k].gen # g
              /\ work[k].copy \in Solid' \cap DOMAIN up /\ work[k].copy # g
              /\ Level[work[k].gen.of] < Level[g.of]
  <2>1. Framed(k) /\ work[k].copy # NoObject /\ Level[work[k].gen.of] < Level[g.of]
    BY <1>2, <1>3, <1>4, <1>5, <1>20 DEF Inv, Frames
  <2>2. work[k].gen \in Solid /\ work[k].copy \in Solid \cap DOMAIN up /\ work[k].copy.of = work[k].gen.of
    BY <2>1 DEF Framed, FrameIs
  <2> QED BY <1>17, <2>1, <2>2
<1>21. \A k \in 1 .. n : Base(k)' = Base(k)
  <2> SUFFICES ASSUME NEW k \in 1 .. n PROVE Base(k)' = Base(k)
    OBVIOUS
  <2>1. k # 1 => k - 1 \in 1 .. n /\ k - 1 # n
    BY <1>4
  <2> QED BY <1>1, <1>19, <2>1 DEF Base
<1>22. Frames'
  <2>1. ASSUME NEW k \in 1 .. n, k # n PROVE Framed(k)'
    BY <1>1, <1>14, <1>19, <1>20, <1>21, <2>1, FrameStays
  <2>2. Framed(n)'
    <3>1. PICK f : f = work'[n]
      OBVIOUS
    <3>2. PICK b : b = parent
      OBVIOUS
    <3>3. f.gen = g /\ f.copy = NoObject /\ f.bounds.step > 0
      BY <1>19, <3>1
    <3>4. FrameIs(f, b)'
      BY <1>1, <1>8, <1>13, <1>14, <3>2, <3>3 DEF FrameIs, GenerateKinds
    <3>5. Base(n)' = b
      BY <1>3, <1>4, <1>8, <1>21, <3>2
    <3> QED BY <3>1, <3>4, <3>5 DEF Framed, FrameIs
  <2>3. \A k \in 1 .. n : work'[k].gen = work[k].gen
    BY <1>4, <1>5, <1>19
  <2>4. \A k \in 1 .. n : Framed(k)' /\ (work'[k].copy = NoObject => k = n)
    BY <1>19, <1>20, <2>1, <2>2
  <2>5. /\ \A k \in 1 .. n : Level[design.contents.of] < Level[work[k].gen.of]
        /\ \A j, k \in 1 .. n : j < k => Level[work[j].gen.of] < Level[work[k].gen.of]
    BY <1>2, <1>3 DEF Inv, Frames
  <2>6. ASSUME NEW k \in 1 .. n
        PROVE  /\ Framed(k)' /\ (work'[k].copy = NoObject => k = n)
               /\ Level[design'.contents.of] < Level[work'[k].gen.of]
    BY <1>1, <2>3, <2>4, <2>5
  <2>7. \A j, k \in 1 .. n : j < k => Level[work'[j].gen.of] < Level[work'[k].gen.of]
    BY <2>3, <2>5
  <2>8. Len(work') = n /\ work' \in Seq(FrameType)
    BY <1>19
  <2> QED BY <2>6, <2>7, <2>8, Zenon DEF Frames
\* What is to be expanded.
<1>23. /\ OpenScopes' \subseteq OpenScopes \cap Solid' /\ CopiesOpen \subseteq CopiesOpen' \cup {copy}
  <2>1. CopiesOpen' = {work'[k].copy : k \in 1 .. n}
    BY <1>19 DEF CopiesOpen
  <2>2. ASSUME NEW s \in CopiesOpen', s # NoObject PROVE s \in CopiesOpen /\ s \in Solid'
    <3>1. PICK k \in 1 .. n : s = work'[k].copy /\ k # n
      BY <1>19, <2>1, <2>2
    <3> QED BY <1>3, <1>19, <1>20, <3>1 DEF CopiesOpen
  <2>3. design.contents \in Solid'
    BY <1>1, <1>18 DEF DesignTyped
  <2>4. CopiesOpen \subseteq CopiesOpen' \cup {copy}
    BY <1>3, <1>4, <1>6, <1>19, <2>1 DEF CopiesOpen
  <2> QED BY <1>1, <2>2, <2>3, <2>4 DEF OpenScopes
<1>24. ASSUME NEW s \in OpenScopes', NEW a \in Generates(s)' PROVE a \in Generates(s) /\ a \in Solid' /\ a # copy
  <2>1. s \in Solid' /\ "generates" \in DOMAIN lists'[s] /\ a \in ToSet(lists'[s]["generates"]) /\ a \notin visited
    BY <1>1, <1>23 DEF Generates, Listed, ToSet
  <2>2. "generates" \in DOMAIN lists[s]
    BY <1>9, <1>13, <2>1 DEF Restores
  <2>3. lists'[s]["generates"] = lists[s]["generates"] \/ lists'[s]["generates"] = Swap(lists[s]["generates"], copy, g)
    BY <1>9, <1>13, <2>1, <2>2 DEF Restores
  <2>4. a \in ToSet(lists[s]["generates"]) \/ a = g
    BY <2>1, <2>3 DEF Swap, ToSet
  <2>5. Fits(a, s, "generates")'
    BY <1>10, <2>1 DEF Structure, ListsTyped
  <2>6. a \in Generates(s)
    BY <1>8, <2>1, <2>2, <2>4 DEF Generates, Listed
  <2>7. KindOf(a) # "Reference"
    BY <1>2, <1>14, <2>1, <2>6, GeneratesAre DEF Generates
  <2>8. a \in Solid'
    BY <2>5, <2>7 DEF Fits
  <2> QED BY <1>12, <1>13, <2>6, <2>8
<1>25. ASSUME NEW a \in Heads' PROVE a \in Heads /\ a \in Solid'
  <2>1. CASE a \in Roots'
    <3>1. PICK s \in OpenScopes' : a \in Generates(s)' /\ a \notin CopiesOpen'
      BY <2>1 DEF Roots
    <3>2. a \in Generates(s) /\ a \in Solid' /\ a # copy /\ s \in OpenScopes
      BY <1>23, <1>24, <3>1
    <3>3. a \notin CopiesOpen
      BY <1>23, <3>1, <3>2
    <3> QED BY <3>2, <3>3 DEF Heads, Roots
  <2>2. CASE a \in {work'[k].gen : k \in 1 .. Len(work')} /\ KindOf(a) = "ForGenerate"
    <3>1. PICK k \in 1 .. n : a = work'[k].gen
      BY <1>19, <2>2
    <3>2. a = work[k].gen /\ a \in Solid'
      BY <1>4, <1>5, <1>14, <1>19, <1>20, <3>1
    <3> QED BY <1>3, <2>2, <3>2 DEF Heads
  <2> QED BY <2>1, <2>2 DEF Heads
<1>26. ASSUME NEW a \in Heads' PROVE Under(a)' = Under(a)
  <2>1. a \in Heads /\ a \in Solid' /\ a \notin Under(copy)
    BY <1>13, <1>25
  <2>2. copy \in OpenScopes
    BY <1>1, <1>3, <1>4, <1>6 DEF OpenScopes, CopiesOpen
  <2>3. copy \notin Under(a) /\ parent \notin Under(a)
    BY <1>2, <1>8, <2>1, <2>2 DEF Inv, OpenOutside
  <2>4. Under(a) \cap Under(copy) = {}
    BY <1>11, <2>1, <2>3, UnderComparable DEF Tree
  <2>5. Under(a) \subseteq Solid'
    BY <1>13, <2>4 DEF Under
  <2>6. ASSUME NEW x \in Solid' PROVE x \in Under(a) <=> (x = a \/ (x \in DOMAIN up' /\ up'[x] \in Under(a)))
    <3>1. x \in Under(a) <=> (x = a \/ (x \in DOMAIN up /\ up[x] \in Under(a)))
      BY <1>11, <1>14, UnderStep
    <3>2. CASE x = g
      BY <1>8, <1>13, <2>3, <3>1, <3>2
    <3>3. CASE x # g
      BY <1>14, <3>1, <3>3
    <3> QED BY <3>2, <3>3
  <2> QED BY <1>11, <2>5, <2>6, UnderKept
<1>27. HeadsApart' /\ OpenOutside'
  BY <1>2, <1>23, <1>25, <1>26, ApartKept DEF Inv
<1>28. CopiesFresh'
  <2>1. ASSUME NEW a, NEW j \in Int, Reached(a, j) PROVE Reached(a, j)'
    <3>1. PICK k \in 1 .. n : work[k].gen = a /\ (j < work[k].next \/ (j = work[k].next /\ work[k].copy # NoObject))
      BY <1>3, <2>1 DEF Reached
    <3>2. work'[k].gen = a /\ (j < work'[k].next \/ (j = work'[k].next /\ work'[k].copy # NoObject))
      <4>1. CASE k = n
        BY <1>4, <1>5, <1>19, <3>1, <4>1
      <4>2. CASE k # n
        BY <1>19, <3>1, <4>2
      <4> QED BY <4>1, <4>2
    <3> QED BY <1>19, <3>2 DEF Reached
  <2> QED BY <1>2, <1>14, <1>25, <1>26, <2>1, FreshKept DEF Inv, Structure
<1>29. Inv'
  BY <1>1, <1>8, <1>10, <1>15, <1>18, <1>22, <1>27, <1>28 DEF Inv, Phases
<1>30. ~renaming
  BY <1>8 DEF GenerateInv, Renames
<1> QED BY <1>1, <1>15, <1>16, <1>29, <1>30 DEF GenerateInv, Renames

-----------------------------------------------------------------------------
(* The values of an index, and what a loop's actions become. *)

\* A list s in which r is put in the place p: c.
IsReplaced(s, t, p, r, n, c) ==
    /\ DOMAIN s = 1 .. t /\ DOMAIN r = 1 .. n /\ DOMAIN c = 1 .. t - 1 + n
    /\ \A k \in 1 .. t - 1 + n :
          /\ k < p => c[k] = s[k]
          /\ k >= p /\ k < p + n => c[k] = r[k - (p - 1)]
          /\ k >= p + n => c[k] = s[k + 1 - n]

\* The elements of such a list.
LEMMA ReplacedElements ==
    ASSUME NEW t \in Nat, NEW n \in Nat, NEW p \in 1 .. t, NEW s, NEW r, NEW c, IsReplaced(s, t, p, r, n, c),
           Once(s, s[p])
    PROVE  /\ ToSet(c) = (ToSet(s) \ {s[p]}) \cup ToSet(r)
           /\ \A x : x \notin ToSet(r) /\ Once(s, x) => Once(c, x)
<1>2. PICK o : o = s[p]
  OBVIOUS
<1>1. DOMAIN s = 1 .. t
  BY DEF IsReplaced
<1>3. p \in 1 .. t /\ s[p] = o /\ Once(s, o)
  BY <1>2
<1>12. n \in Nat /\ DOMAIN r = 1 .. n
  BY DEF IsReplaced
<1>13. DOMAIN c = 1 .. t - 1 + n
  BY DEF IsReplaced
<1>14. \A k \in DOMAIN c :
          /\ k < p => c[k] = s[k]
          /\ k >= p /\ k < p + n => c[k] = r[k - (p - 1)]
          /\ k >= p + n => c[k] = s[k + 1 - n]
  BY DEF IsReplaced
\* Where the elements are from.
<1>15. ASSUME NEW x \in ToSet(c) PROVE x \in (ToSet(s) \ {o}) \cup ToSet(r)
  <2>1. PICK k \in DOMAIN c : x = c[k]
    BY <1>15 DEF ToSet
  <2>2. k \in Int /\ 1 <= k /\ k <= t - 1 + n
    BY <1>1, <1>12, <1>13
  <2>3. CASE k < p
    <3>1. k \in DOMAIN s /\ x = s[k] /\ k # p
      BY <1>1, <1>3, <1>14, <2>1, <2>2, <2>3
    <3>2. x # o
      BY <1>1, <1>3, <3>1 DEF Once
    <3> QED BY <3>1, <3>2 DEF ToSet
  <2>4. CASE k >= p /\ k < p + n
    <3>1. k - (p - 1) \in DOMAIN r /\ x = r[k - (p - 1)]
      BY <1>3, <1>12, <1>14, <2>1, <2>2, <2>4
    <3> QED BY <3>1 DEF ToSet
  <2>5. CASE k >= p + n
    <3>1. k + 1 - n \in DOMAIN s /\ x = s[k + 1 - n] /\ k + 1 - n # p
      BY <1>1, <1>3, <1>12, <1>14, <2>1, <2>2, <2>5
    <3>2. x # o
      BY <1>1, <1>3, <3>1 DEF Once
    <3> QED BY <3>1, <3>2 DEF ToSet
  <2> QED BY <1>3, <1>12, <2>2, <2>3, <2>4, <2>5
\* Where they come to.
<1>16. ASSUME NEW j \in DOMAIN s, j # p PROVE \E k \in DOMAIN c : c[k] = s[j]
  <2>1. CASE j < p
    <3>1. j \in DOMAIN c /\ c[j] = s[j]
      BY <1>1, <1>3, <1>12, <1>13, <1>14, <2>1
    <3> QED BY <3>1
  <2>2. CASE j > p
    <3>1. j - 1 + n \in DOMAIN c /\ j - 1 + n >= p + n /\ (j - 1 + n) + 1 - n = j
      BY <1>1, <1>3, <1>12, <1>13, <2>2
    <3>2. c[j - 1 + n] = s[j]
      BY <1>14, <3>1
    <3> QED BY <3>1, <3>2
  <2> QED BY <1>1, <1>3, <1>16, <2>1, <2>2
<1>17. ASSUME NEW j \in DOMAIN r PROVE \E k \in DOMAIN c : c[k] = r[j]
  <2>1. j + (p - 1) \in DOMAIN c /\ j + (p - 1) >= p /\ j + (p - 1) < p + n /\ j + (p - 1) - (p - 1) = j
    BY <1>1, <1>3, <1>12, <1>13
  <2>2. PICK q \in DOMAIN c : q = j + (p - 1)
    BY <2>1
  <2>4. q >= p /\ q < p + n /\ q - (p - 1) = j
    <3>1. j \in Int /\ p \in Int
      BY <1>12
    <3> QED BY <2>1, <2>2, <3>1
  <2>3. c[q] = r[j]
    BY <1>14, <2>4
  <2> QED BY <2>3
<1>18. ToSet(c) = (ToSet(s) \ {o}) \cup ToSet(r)
  BY <1>3, <1>15, <1>16, <1>17 DEF ToSet
<1>19. ASSUME NEW x, x \notin ToSet(r), Once(s, x), NEW j \in DOMAIN c, NEW k \in DOMAIN c, c[j] = x, c[k] = x
       PROVE  j = k
  <2>1. ASSUME NEW i \in DOMAIN c, c[i] = x
        PROVE  \/ i < p /\ i \in DOMAIN s /\ s[i] = x
               \/ i >= p + n /\ i + 1 - n \in DOMAIN s /\ s[i + 1 - n] = x
    <3>1. i \in Int /\ 1 <= i /\ i <= t - 1 + n
      BY <1>1, <1>12, <1>13
    <3>2. ~(i >= p /\ i < p + n)
      <4>1. ASSUME i >= p, i < p + n PROVE FALSE
        <5>1. i - (p - 1) \in DOMAIN r /\ x = r[i - (p - 1)]
          BY <1>3, <1>12, <1>14, <2>1, <3>1, <4>1
        <5> QED BY <1>19, <5>1 DEF ToSet
      <4> QED BY <4>1
    <3>3. ASSUME i < p PROVE i \in DOMAIN s /\ s[i] = x
      BY <1>1, <1>3, <1>14, <2>1, <3>1, <3>3
    <3>4. ASSUME i >= p + n PROVE i + 1 - n \in DOMAIN s /\ s[i + 1 - n] = x
      BY <1>1, <1>3, <1>12, <1>14, <2>1, <3>1, <3>4
    <3> QED BY <1>3, <1>12, <3>1, <3>2, <3>3, <3>4
  <2>2. j \in Int /\ k \in Int
    BY <1>13
  <2>3. \A u, v \in DOMAIN s : s[u] = x /\ s[v] = x => u = v
    BY <1>19 DEF Once
  <2>4. (j < p /\ j \in DOMAIN s /\ s[j] = x) \/ (j >= p + n /\ j + 1 - n \in DOMAIN s /\ s[j + 1 - n] = x)
    BY <1>19, <2>1
  <2>5. (k < p /\ k \in DOMAIN s /\ s[k] = x) \/ (k >= p + n /\ k + 1 - n \in DOMAIN s /\ s[k + 1 - n] = x)
    BY <1>19, <2>1
  <2> QED BY <1>3, <1>12, <2>2, <2>3, <2>4, <2>5
<1> QED BY <1>2, <1>18, <1>19 DEF Once

\* The parts of a list before and after a place.
LEMMA PartsIs ==
    ASSUME NEW T, NEW s \in Seq(T), NEW p \in 1 .. Len(s), NEW a, a = SubSeq(s, 1, p - 1),
           NEW b, b = SubSeq(s, p + 1, Len(s))
    PROVE  /\ a \in Seq(T) /\ Len(a) = p - 1 /\ \A k \in 1 .. p - 1 : a[k] = s[k]
           /\ b \in Seq(T) /\ Len(b) = Len(s) - p /\ \A k \in 1 .. Len(s) - p : b[k] = s[p + k]
<1>1. /\ Len(s) \in Nat /\ p \in Nat \ {0} /\ p - 1 \in Nat /\ p <= Len(s)
      /\ p + 1 \in Nat \ {0} /\ p + 1 <= Len(s) + 1
  BY LenProperties
<1>2. a \in Seq(T) /\ Len(a) = p - 1 /\ \A k \in 1 .. p - 1 : a[k] = s[k]
  <2>1. a \in Seq(T) /\ Len(a) = (p - 1) + 1 - 1 /\ \A k \in 1 .. Len(a) : a[k] = s[1 + k - 1]
    BY <1>1, PartIs
  <2> QED BY <1>1, <2>1
<1>3. b \in Seq(T) /\ Len(b) = Len(s) - p /\ \A k \in 1 .. Len(s) - p : b[k] = s[p + k]
  <2>1. b \in Seq(T) /\ Len(b) = Len(s) + 1 - (p + 1) /\ \A k \in 1 .. Len(b) : b[k] = s[(p + 1) + k - 1]
    BY <1>1, PartIs
  <2>2. Len(s) + 1 - (p + 1) = Len(s) - p /\ \A k \in Int : (p + 1) + k - 1 = p + k
    BY <1>1
  <2> QED BY <1>1, <2>1, <2>2
<1> QED BY <1>2, <1>3

IsConcat(c, a, r, b) == c = a \o r \o b

\* A concatenation of three lists, element by element.
LEMMA Concat3 ==
    ASSUME NEW T, NEW a \in Seq(T), NEW r \in Seq(T), NEW b \in Seq(T), NEW c, IsConcat(c, a, r, b)
    PROVE  /\ c \in Seq(T) /\ DOMAIN c = 1 .. Len(a) + Len(r) + Len(b)
           /\ \A k \in 1 .. Len(a) + Len(r) + Len(b) :
                 /\ k <= Len(a) => c[k] = a[k]
                 /\ k > Len(a) /\ k <= Len(a) + Len(r) => c[k] = r[k - Len(a)]
                 /\ k > Len(a) + Len(r) => c[k] = b[k - (Len(a) + Len(r))]
<1>10. PICK la : la = Len(a)
  OBVIOUS
<1>11. PICK n : n = Len(r)
  OBVIOUS
<1>12. PICK lb : lb = Len(b)
  OBVIOUS
<1>1. la \in Nat /\ n \in Nat /\ lb \in Nat
  BY <1>10, <1>11, <1>12, LenProperties
<1>2. PICK ar : ar = a \o r
  OBVIOUS
<1>3. /\ ar \in Seq(T) /\ Len(ar) = la + n
      /\ \A k \in 1 .. Len(ar) : ar[k] = IF k <= la THEN a[k] ELSE r[k - la]
  BY <1>2, <1>10, <1>11, ConcatIs
<1>4. /\ c \in Seq(T) /\ Len(c) = Len(ar) + lb
      /\ \A k \in 1 .. Len(c) : c[k] = IF k <= Len(ar) THEN ar[k] ELSE b[k - Len(ar)]
  <2>1. PICK d : d = ar \o b
    OBVIOUS
  <2>2. ar \in Seq(T) /\ b \in Seq(T)
    BY <1>3
  <2>3. /\ d \in Seq(T) /\ Len(d) = Len(ar) + Len(b)
        /\ \A k \in 1 .. Len(d) : d[k] = IF k <= Len(ar) THEN ar[k] ELSE b[k - Len(ar)]
    BY <2>1, <2>2, ConcatIs
  <2>4. c = d
    BY <1>2, <2>1 DEF IsConcat
  <2> QED BY <1>12, <2>3, <2>4
<1>5. DOMAIN c = 1 .. Len(c)
  BY <1>4, LenProperties
<1>6. DOMAIN c = 1 .. la + n + lb
  BY <1>3, <1>4, <1>5
<1>7. \A k \in 1 .. la + n : ar[k] = IF k <= la THEN a[k] ELSE r[k - la]
  BY <1>3
<1>8. \A k \in 1 .. la + n + lb : c[k] = IF k <= la + n THEN ar[k] ELSE b[k - (la + n)]
  BY <1>3, <1>4
<1>13. ASSUME NEW k \in 1 .. la + n + lb
       PROVE  /\ k <= la => c[k] = a[k]
              /\ k > la /\ k <= la + n => c[k] = r[k - la]
              /\ k > la + n => c[k] = b[k - (la + n)]
  <2>4. k \in Int /\ 1 <= k
    BY <1>1
  <2>5. /\ k <= la => k \in 1 .. la + n /\ k <= la + n
        /\ k > la /\ k <= la + n => k \in 1 .. la + n /\ ~(k <= la)
        /\ k > la + n => ~(k <= la + n)
    BY <1>1, <2>4
  <2>1. k <= la => c[k] = a[k]
    BY <1>7, <1>8, <2>5
  <2>2. k > la /\ k <= la + n => c[k] = r[k - la]
    <3>1. ASSUME k > la, k <= la + n PROVE c[k] = r[k - la]
      <4>1. k \in 1 .. la + n /\ ~(k <= la)
        BY <2>5, <3>1
      <4>2. ar[k] = r[k - la]
        BY <1>7, <4>1
      <4> QED BY <1>8, <3>1, <4>2
    <3> QED BY <3>1
  <2>3. k > la + n => c[k] = b[k - (la + n)]
    BY <1>8, <2>5
  <2> QED BY <2>1, <2>2, <2>3
<1> QED BY <1>4, <1>6, <1>10, <1>11, <1>12, <1>13

\* List c is list s with list r in the place of o.
ReplacedBy(s, o, r) == SubSeq(s, 1, PlaceIn(s, o) - 1) \o r \o SubSeq(s, PlaceIn(s, o) + 1, Len(s))

\* What is put in the place of an element of a list.
LEMMA Replaced ==
    ASSUME NEW T, NEW s \in Seq(T), NEW o \in ToSet(s), NEW r \in Seq(T), Once(s, o),
           NEW c, c = ReplacedBy(s, o, r)
    PROVE  /\ c \in Seq(T) /\ ToSet(c) = (ToSet(s) \ {o}) \cup ToSet(r)
           /\ \A x : x \notin ToSet(r) /\ Once(s, x) => Once(c, x)
<1>1. PICK t : t = Len(s)
  OBVIOUS
<1>2. PICK n : n = Len(r)
  OBVIOUS
<1>3. t \in Nat /\ DOMAIN s = 1 .. t /\ n \in Nat /\ DOMAIN r = 1 .. n
  BY <1>1, <1>2, LenProperties
<1>4. PICK p : p = PlaceIn(s, o)
  OBVIOUS
<1>5. p \in 1 .. t /\ s[p] = o
  BY <1>3, <1>4 DEF PlaceIn, ToSet
<1>6. PICK a : a = SubSeq(s, 1, p - 1)
  OBVIOUS
<1>7. PICK b : b = SubSeq(s, p + 1, t)
  OBVIOUS
<1>8. /\ a \in Seq(T) /\ Len(a) = p - 1 /\ \A k \in 1 .. p - 1 : a[k] = s[k]
      /\ b \in Seq(T) /\ Len(b) = t - p /\ \A k \in 1 .. t - p : b[k] = s[p + k]
  <2>1. p \in 1 .. Len(s) /\ b = SubSeq(s, p + 1, Len(s))
    BY <1>1, <1>5, <1>7
  <2>2. a \in Seq(T) /\ Len(a) = p - 1
    BY <1>6, <2>1, PartsIs
  <2>3. \A k \in 1 .. p - 1 : a[k] = s[k]
    BY <1>6, <2>1, PartsIs
  <2>4. b \in Seq(T) /\ Len(b) = Len(s) - p
    BY <1>6, <2>1, PartsIs
  <2>5. \A k \in 1 .. Len(s) - p : b[k] = s[p + k]
    BY <1>6, <2>1, PartsIs
  <2> QED BY <1>1, <2>2, <2>3, <2>4, <2>5
<1>10. IsConcat(c, a, r, b)
  BY <1>1, <1>4, <1>6, <1>7 DEF IsConcat, ReplacedBy
<1>11. PICK la : la = Len(a)
  OBVIOUS
<1>12. PICK lb : lb = Len(b)
  OBVIOUS
<1>13. /\ c \in Seq(T) /\ DOMAIN c = 1 .. la + n + lb
       /\ \A k \in 1 .. la + n + lb :
             /\ k <= la => c[k] = a[k]
             /\ k > la /\ k <= la + n => c[k] = r[k - la]
             /\ k > la + n => c[k] = b[k - (la + n)]
  <2>1. a \in Seq(T) /\ b \in Seq(T)
    BY <1>8
  <2>2. c \in Seq(T) /\ DOMAIN c = 1 .. Len(a) + Len(r) + Len(b)
    BY <1>10, <2>1, Concat3
  <2>3. \A k \in 1 .. Len(a) + Len(r) + Len(b) : k <= Len(a) => c[k] = a[k]
    BY <1>10, <2>1, Concat3
  <2>4. \A k \in 1 .. Len(a) + Len(r) + Len(b) : k > Len(a) /\ k <= Len(a) + Len(r) => c[k] = r[k - Len(a)]
    BY <1>10, <2>1, Concat3
  <2>5. \A k \in 1 .. Len(a) + Len(r) + Len(b) : k > Len(a) + Len(r) => c[k] = b[k - (Len(a) + Len(r))]
    BY <1>10, <2>1, Concat3
  <2> QED BY <1>2, <1>11, <1>12, <2>2, <2>3, <2>4, <2>5
<1>14. la = p - 1 /\ lb = t - p
  BY <1>8, <1>11, <1>12
<1>15. IsReplaced(s, t, p, r, n, c)
  <2>1. la + n + lb = t - 1 + n
    BY <1>3, <1>5, <1>14
  <2>2. ASSUME NEW k \in 1 .. t - 1 + n
        PROVE  /\ k < p => k <= la /\ k \in 1 .. p - 1
               /\ k >= p /\ k < p + n => k > la /\ k <= la + n /\ k - la = k - (p - 1)
               /\ k >= p + n => k > la + n /\ k - (la + n) \in 1 .. t - p /\ p + (k - (la + n)) = k + 1 - n
    BY <1>3, <1>5, <1>14
  <2>3. ASSUME NEW k \in 1 .. t - 1 + n
        PROVE  /\ k < p => c[k] = s[k]
               /\ k >= p /\ k < p + n => c[k] = r[k - (p - 1)]
               /\ k >= p + n => c[k] = s[k + 1 - n]
    <3>1. k < p => c[k] = s[k]
      BY <1>8, <1>13, <2>1, <2>2
    <3>2. k >= p /\ k < p + n => c[k] = r[k - (p - 1)]
      BY <1>13, <2>1, <2>2
    <3>3. k >= p + n => c[k] = s[k + 1 - n]
      BY <1>8, <1>13, <2>1, <2>2
    <3> QED BY <3>1, <3>2, <3>3
  <2>4. DOMAIN c = 1 .. t - 1 + n
    BY <1>13, <2>1
  <2> QED BY <1>3, <2>3, <2>4 DEF IsReplaced
<1> HIDE DEF IsReplaced
<1>16. ToSet(c) = (ToSet(s) \ {o}) \cup ToSet(r) /\ \A x : x \notin ToSet(r) /\ Once(s, x) => Once(c, x)
  <2>1. Once(s, s[p])
    BY <1>5
  <2>2. ToSet(c) = (ToSet(s) \ {s[p]}) \cup ToSet(r)
    BY <1>3, <1>5, <1>15, <2>1, ReplacedElements
  <2>3. \A x : x \notin ToSet(r) /\ Once(s, x) => Once(c, x)
    BY <1>3, <1>5, <1>15, <2>1, ReplacedElements
  <2> QED BY <1>5, <2>2, <2>3
<1> QED BY <1>13, <1>16

-----------------------------------------------------------------------------
(* A loop is unrolled. *)

\* The values are what their recursive definition says.
ValuesOver(h, n, f) == f = [k \in 1 .. n |-> IF k = 1 THEN h.init ELSE Advance(h, f[k - 1])]

\* Values that the recursion of ValuesOf describes exist, whatever their number.
LEMMA ValuesExist ==
    ASSUME NEW h
    PROVE  \A n \in Nat : \E f : ValuesOver(h, n, f)
<1> DEFINE bad == {n \in Nat : ~ \E f : ValuesOver(h, n, f)}
<1>1. SUFFICES ASSUME bad # {} PROVE FALSE
  OBVIOUS
<1>2. PICK m \in bad : \A n \in bad : m <= n
  <2>1. bad \in SUBSET Nat
    OBVIOUS
  <2> QED BY <1>1, <2>1, LeastNat
<1>3. CASE m = 0
  <2>1. PICK f : f = [k \in 1 .. 0 |-> 0]
    OBVIOUS
  <2>2. 1 .. 0 = {}
    OBVIOUS
  <2>3. ValuesOver(h, 0, f)
    BY <2>1, <2>2 DEF ValuesOver
  <2> QED BY <1>3, <2>3
<1>4. CASE m # 0
  <2>1. m \in Nat /\ m - 1 \in Nat /\ m - 1 \notin bad
    BY <1>2, <1>4
  <2>2. PICK f : ValuesOver(h, m - 1, f)
    BY <2>1
  <2>3. \A k \in 1 .. m - 1 : f[k] = IF k = 1 THEN h.init ELSE Advance(h, f[k - 1])
    BY <2>2, Zenon DEF ValuesOver
  <2>4. PICK g : g = [k \in 1 .. m |-> IF k = m THEN (IF m = 1 THEN h.init ELSE Advance(h, f[m - 1])) ELSE f[k]]
    OBVIOUS
  <2>5. ASSUME NEW k \in 1 .. m PROVE g[k] = IF k = 1 THEN h.init ELSE Advance(h, g[k - 1])
    <3>1. k # 1 => k - 1 \in 1 .. m - 1 /\ k - 1 \in 1 .. m /\ k - 1 # m
      BY <2>1
    <3>2. k # 1 => g[k - 1] = f[k - 1]
      BY <2>4, <3>1
    <3>3. CASE k = m
      BY <2>4, <3>2, <3>3
    <3>4. CASE k # m
      <4>1. k \in 1 .. m - 1
        BY <2>1, <3>4
      <4>2. g[k] = f[k]
        BY <2>4, <3>4
      <4> QED BY <2>3, <3>2, <4>1, <4>2
    <3> QED BY <3>3, <3>4
  <2>6. ValuesOver(h, m, g)
    <3>1. PICK e : e = [k \in 1 .. m |-> IF k = 1 THEN h.init ELSE Advance(h, g[k - 1])]
      OBVIOUS
    <3>2. DOMAIN g = 1 .. m /\ g = [k \in 1 .. m |-> g[k]]
      BY <2>4
    <3>3. e = g
      BY <2>5, <3>1, <3>2
    <3> QED BY <3>1, <3>3 DEF ValuesOver
  <2> QED BY <2>6
<1> QED BY <1>3, <1>4

\* So ValuesOf is what its recursion says.
LEMMA ValuesAre ==
    ASSUME NEW h, NEW n \in Nat
    PROVE  /\ DOMAIN ValuesOf(h, n) = 1 .. n
           /\ \A k \in 1 .. n : ValuesOf(h, n)[k] = IF k = 1 THEN h.init ELSE Advance(h, ValuesOf(h, n)[k - 1])
           /\ ValuesOf(h, n) = [k \in DOMAIN ValuesOf(h, n) |-> ValuesOf(h, n)[k]]
<1> DEFINE v == CHOOSE f : f = [k \in 1 .. n |-> IF k = 1 THEN h.init ELSE Advance(h, f[k - 1])]
<1>1. ValuesOf(h, n) = v
  BY DEF ValuesOf
<1>2. \E f : f = [k \in 1 .. n |-> IF k = 1 THEN h.init ELSE Advance(h, f[k - 1])]
  <2>1. \E f : ValuesOver(h, n, f)
    BY ValuesExist
  <2> QED BY <2>1, Zenon DEF ValuesOver
<1>3. v = [k \in 1 .. n |-> IF k = 1 THEN h.init ELSE Advance(h, v[k - 1])]
  BY <1>2, Zenon
<1> HIDE DEF v
<1>4. DOMAIN v = 1 .. n /\ \A k \in 1 .. n : v[k] = IF k = 1 THEN h.init ELSE Advance(h, v[k - 1])
  BY <1>3, Zenon
<1>5. v = [k \in DOMAIN v |-> v[k]]
  BY <1>3
<1> QED BY <1>1, <1>4, <1>5, Zenon

\* A function over the first numbers is as long as there are of them.
LEMMA LengthIs ==
    ASSUME NEW v, NEW n \in Nat, DOMAIN v = 1 .. n, v = [k \in DOMAIN v |-> v[k]]
    PROVE  Len(v) = n
<1>1. PICK S : S = {v[k] : k \in 1 .. n}
  OBVIOUS
<1>2. v \in [1 .. n -> S]
  BY <1>1
<1>3. v \in Seq(S)
  BY <1>2, SeqDef
<1>4. Len(v) \in Nat /\ DOMAIN v = 1 .. Len(v)
  BY <1>3, LenProperties
<1>5. n \in 1 .. n \/ n = 0
  OBVIOUS
<1>6. Len(v) \in 1 .. Len(v) \/ Len(v) = 0
  BY <1>4
<1> QED BY <1>4, <1>5, <1>6

\* The iterations that are counted are a number.
LEMMA QuotientNat ==
    ASSUME NEW a \in Nat, NEW b \in Int, b > 0
    PROVE  a \div b \in Nat
<1>1. a \div b \in Int /\ b * (a \div b) <= a /\ a < b * (a \div b) + b
  OBVIOUS
<1>2. PICK q : q = a \div b
  OBVIOUS
<1>3. ASSUME q < 0 PROVE FALSE
  <2>1. q \in Int /\ a < b * q + b
    BY <1>1, <1>2
  <2>2. b * q + b = b * (q + 1) /\ q + 1 <= 0
    BY <1>3, <2>1
  <2>3. b * (q + 1) <= 0
    BY <2>1, <2>2
  <2> QED BY <2>1, <2>2, <2>3
<1> QED BY <1>1, <1>2, <1>3

\* The iterations of a header that is resolved are counted, and their values a list.
LEMMA LoopsAre ==
    ASSUME NEW h \in HeaderType, ResolveForLoopBound(h).resolved
    PROVE  ResolveForLoopBound(h).loops \in Nat
<1>1. h.init \in Int /\ h.bound \in Int /\ h.step \in Int
  BY DEF HeaderType
<1>2. ~Unresolved.resolved
  BY DEF Unresolved
<1>3. CASE ResolveForLoopBound(h) = RangeCase(h)
  <2>1. PICK width : width = 1 + (IF h.condition = "upto" THEN h.bound - h.init ELSE h.init - h.bound)
    OBVIOUS
  <2>2. PICK low : low = IF h.condition = "upto" THEN h.init ELSE h.bound
    OBVIOUS
  <2>3. width \in Int
    BY <1>1, <2>1
  <2>4. RangeCase(h) = IF width <= 0 THEN Unresolved
                       ELSE [resolved |-> TRUE, loops |-> width, min |-> low, max |-> low + width - 1, step |-> 1]
    BY <2>1, <2>2 DEF RangeCase
  <2>5. width > 0 /\ RangeCase(h).loops = width
    BY <1>2, <1>3, <2>3, <2>4
  <2> QED BY <1>3, <2>3, <2>5
<1>4. CASE ResolveForLoopBound(h) = CalculateIterations(h)
  <2>1. PICK inc : inc = Increment(h)
    OBVIOUS
  <2>2. inc \in Int /\ Distance(h) \in Int
    BY <1>1, <2>1 DEF Increment, Distance
  <2>3. PICK loops : loops = IF Distance(h) < 0 \/ (Distance(h) = 0 /\ ~Inclusive(h)) THEN 0
                             ELSE (IF Inclusive(h) THEN Distance(h) ELSE Distance(h) - 1) \div inc + 1
    OBVIOUS
  <2>4. PICK reach : reach = IF loops = 0 THEN 0 ELSE (loops - 1) * inc
    OBVIOUS
  <2>5. CalculateIterations(h) =
          IF inc <= 0 \/ h.condition \notin Upward \cup Downward THEN Unresolved
          ELSE [resolved |-> TRUE, loops |-> loops,
                min |-> IF h.condition \in Upward THEN h.init ELSE h.init - reach,
                max |-> IF h.condition \in Upward THEN h.init + reach ELSE h.init,
                step |-> inc]
    BY <2>1, <2>3, <2>4 DEF CalculateIterations
  <2>6. inc > 0 /\ CalculateIterations(h).loops = loops
    BY <1>2, <1>4, <2>2, <2>5
  <2>7. loops \in Nat
    <3>1. CASE Distance(h) < 0 \/ (Distance(h) = 0 /\ ~Inclusive(h))
      BY <2>3, <3>1
    <3>2. CASE ~(Distance(h) < 0 \/ (Distance(h) = 0 /\ ~Inclusive(h)))
      <4>1. PICK a : a = IF Inclusive(h) THEN Distance(h) ELSE Distance(h) - 1
        OBVIOUS
      <4>2. a \in Nat
        BY <2>2, <3>2, <4>1
      <4>3. a \div inc \in Nat
        BY <2>2, <2>6, <4>2, QuotientNat
      <4> QED BY <2>3, <3>2, <4>1, <4>3
    <3> QED BY <3>1, <3>2
  <2> QED BY <1>4, <2>6, <2>7
<1>5. \/ ResolveForLoopBound(h) = Unresolved \/ ResolveForLoopBound(h) = RangeCase(h)
      \/ ResolveForLoopBound(h) = CalculateIterations(h)
  BY DEF ResolveForLoopBound
<1> QED BY <1>2, <1>3, <1>4, <1>5

\* As many values as iterations are substituted.
LEMMA ValuesListed ==
    ASSUME NEW h \in HeaderType, ResolveForLoopBound(h).resolved
    PROVE  Len(UnrolledValues(h, ResolveForLoopBound(h))) = ResolveForLoopBound(h).loops
<1>1. PICK n : n = ResolveForLoopBound(h).loops
  OBVIOUS
<1>2. n \in Nat
  BY <1>1, LoopsAre
<1>3. PICK v : v = ValuesOf(h, n)
  OBVIOUS
<1>4. DOMAIN v = 1 .. n
  BY <1>2, <1>3, ValuesAre
<1>5. v = [k \in DOMAIN v |-> v[k]]
  <2>1. \E f : v = [k \in 1 .. n |-> f[k]]
    <3>1. PICK w : ValuesOver(h, n, w)
      BY <1>2, ValuesExist
    <3>2. ValuesOver(h, n, v)
      <4>1. v = CHOOSE f : f = [k \in 1 .. n |-> IF k = 1 THEN h.init ELSE Advance(h, f[k - 1])]
        BY <1>3, Zenon DEF ValuesOf
      <4> QED BY <3>1, <4>1, Zenon DEF ValuesOver
    <3>3. v = [k \in 1 .. n |-> IF k = 1 THEN h.init ELSE Advance(h, v[k - 1])]
      BY <3>2, Zenon DEF ValuesOver
    <3>4. PICK f : f = [k \in 1 .. n |-> IF k = 1 THEN h.init ELSE Advance(h, v[k - 1])]
      OBVIOUS
    <3> QED BY <3>3, <3>4
  <2> QED BY <1>4, <2>1
<1>6. Len(v) = n
  BY <1>2, <1>4, <1>5, LengthIs
<1> QED BY <1>1, <1>3, <1>6 DEF UnrolledValues

\* A place in a list that is repeated is a place of the list in one of the iterations.
LEMMA Divided ==
    ASSUME NEW n \in Nat, NEW l \in Nat, NEW m \in 1 .. n * l
    PROVE  /\ l > 0 /\ ((m - 1) % l) + 1 \in 1 .. l /\ ((m - 1) \div l) + 1 \in 1 .. n
<1>1. l > 0 /\ m - 1 \in Nat /\ m - 1 < n * l /\ n * l \in Nat
  <2>1. n * l \in Nat
    OBVIOUS
  <2>2. m \in Int /\ 1 <= m /\ m <= n * l
    BY <2>1
  <2>3. l # 0
    BY <2>2
  <2> QED BY <2>1, <2>2, <2>3
<1>2. PICK a : a = m - 1
  OBVIOUS
<1>3. a \in Nat /\ a < n * l
  BY <1>1, <1>2
<1>4. a % l \in 0 .. l - 1
  BY <1>1, <1>3
<1>5. PICK q : q = a \div l
  OBVIOUS
<1>6. q \in Nat /\ l * q <= a
  BY <1>1, <1>3, <1>5, QuotientNat
<1>7. q < n
  <2>1. ASSUME q >= n PROVE FALSE
    <3>1. l * q >= l * n
      BY <1>1, <1>6, <2>1
    <3>2. l * n = n * l
      OBVIOUS
    <3>3. l * q \in Int /\ l * n \in Int
      BY <1>6
    <3> QED BY <1>3, <1>6, <3>1, <3>2, <3>3
  <2> QED BY <1>6, <2>1
<1> QED BY <1>1, <1>2, <1>4, <1>5, <1>6, <1>7

\* A list that is repeated holds copies of its elements.
LEMMA RepeatedIs ==
    ASSUME NEW body \in Seq(Object), NEW n \in Nat, NEW r, r = Repeated(body, n)
    PROVE  /\ r \in Seq(Object)
           /\ \A x \in ToSet(r) : \E o \in ToSet(body), k \in 1 .. n : x = CopyAt(o, k)
<1>1. PICK l : l = Len(body)
  OBVIOUS
<1>2. l \in Nat /\ DOMAIN body = 1 .. l
  BY <1>1, LenProperties
<1>3. n * l \in Nat
  BY <1>2
<1>4. DOMAIN r = 1 .. n * l
  BY <1>1 DEF Repeated
<1>5. ASSUME NEW m \in 1 .. n * l
      PROVE  \E o \in ToSet(body), k \in 1 .. n : r[m] = CopyAt(o, k) /\ r[m] \in Object
  <2>1. ((m - 1) % l) + 1 \in 1 .. l /\ ((m - 1) \div l) + 1 \in 1 .. n
    BY <1>2, Divided
  <2>2. PICK j \in 1 .. l : j = ((m - 1) % l) + 1
    BY <2>1
  <2>3. PICK k \in 1 .. n : k = ((m - 1) \div l) + 1
    BY <2>1
  <2>4. r[m] = CopyAt(body[j], k)
    BY <1>1, <2>2, <2>3 DEF Repeated
  <2>5. body[j] \in ToSet(body) /\ body[j] \in Object
    BY <1>2, ElementOfSeq, <1>1 DEF ToSet
  <2>6. k \in Int
    OBVIOUS
  <2>7. r[m] \in Object
    BY <2>4, <2>5, <2>6, CopyAtIs
  <2> QED BY <2>4, <2>5, <2>7
<1>6. r \in [1 .. n * l -> Object]
  <2>1. r = [m \in 1 .. n * l |-> r[m]]
    BY <1>1 DEF Repeated
  <2> QED BY <1>5, <2>1
<1>7. r \in Seq(Object)
  BY <1>3, <1>6, SeqDef
<1> QED BY <1>4, <1>5, <1>7 DEF ToSet

\* What putting references in the place of loop f does to the tree.
Unrolls(f, new) ==
    /\ f \in Solid \cap DOMAIN up /\ KindOf(f) = "For"
    /\ "actions" \in DOMAIN lists[up[f]] /\ f \in ToSet(lists[up[f]]["actions"])
    /\ \A x \in new :
          /\ x \in Object /\ x # NoObject /\ KindOf(x) = "Reference"
          /\ KindOf(x) \in ContentOf[KindOf(up[f])]["actions"] /\ Level[up[f].of] < Level[x.of]
    /\ DOMAIN up' = (DOMAIN up \ Below(f)) \cup new
    /\ \A x \in new : up'[x] = up[f]
    /\ \A x \in DOMAIN up \ Below(f) : x \notin new => up'[x] = up[x]
    /\ Solid' = Solid \ Under(f)
    /\ \A s \in Solid \ Under(f) :
          /\ DOMAIN lists'[s] = DOMAIN lists[s]
          /\ \A l \in DOMAIN lists[s] : ~(s = up[f] /\ l = "actions") => lists'[s][l] = lists[s][l]
    /\ \E r \in Seq(Object) :
          ToSet(r) \subseteq new /\ lists'[up[f]]["actions"] = ReplacedBy(lists[up[f]]["actions"], f, r)

\* References in the place of a loop keep the tree.
LEMMA UnrollStructure ==
    ASSUME Structure, NEW f, NEW new, Unrolls(f, new)
    PROVE  Structure'
<1>1. PICK parent : parent = up[f]
  OBVIOUS
<1>2. /\ f \in Solid \cap DOMAIN up /\ KindOf(f) = "For"
      /\ "actions" \in DOMAIN lists[parent] /\ f \in ToSet(lists[parent]["actions"])
      /\ \A x \in new :
            /\ x \in Object /\ x # NoObject /\ KindOf(x) = "Reference"
            /\ KindOf(x) \in ContentOf[KindOf(parent)]["actions"] /\ Level[parent.of] < Level[x.of]
      /\ DOMAIN up' = (DOMAIN up \ Below(f)) \cup new
      /\ \A x \in new : up'[x] = parent
      /\ \A x \in DOMAIN up \ Below(f) : x \notin new => up'[x] = up[x]
      /\ Solid' = Solid \ Under(f)
      /\ \A s \in Solid' : DOMAIN lists'[s] = DOMAIN lists[s]
  BY <1>1, Zenon DEF Unrolls
<1>3. /\ Below(f) \subseteq Nodes /\ f \in Under(f) /\ Under(f) \subseteq Solid
      /\ \A x \in Solid : x \in Below(f) <=> x \in Under(f)
      /\ \A x \in DOMAIN up : x \in Below(f) <=> (x = f \/ up[x] \in Under(f))
      /\ parent \in Solid /\ parent \notin Under(f)
  BY <1>1, <1>2, BelowGone
<1>4. parent \in Solid' /\ \A x \in DOMAIN up : up[x] \in Solid /\ Level[up[x].of] < Level[x.of]
  BY <1>2, <1>3 DEF Structure, UpTyped
<1>5. \A x \in Solid : KindOf(x) # "Reference" /\ x \notin new
  BY <1>2 DEF Structure, NodesTyped, Nodes, Solid
<1>6. NodesTyped'
  <2>1. Nodes' = DOMAIN up' \cup Solid' /\ Nodes = DOMAIN up \cup Solid
    BY DEF Nodes, Solid
  <2>2. ASSUME NEW x \in Nodes' PROVE x \in Object /\ x # NoObject /\ (x \in Solid' <=> KindOf(x) # "Reference")
    <3>1. CASE x \in new
      BY <1>2, <1>5, <3>1
    <3>2. CASE x \notin new
      <4>1. x \in Nodes /\ (x \in Solid' <=> x \in Solid)
        BY <1>2, <1>3, <2>1, <2>2, <3>2
      <4> QED BY <4>1 DEF Structure, NodesTyped
    <3> QED BY <3>1, <3>2
  <2> QED BY <2>2 DEF NodesTyped
<1>7. UpTyped'
  <2> SUFFICES ASSUME NEW x \in DOMAIN up' PROVE up'[x] \in Solid' /\ Level[up'[x].of] < Level[x.of]
    BY DEF UpTyped
  <2>1. CASE x \in new
    BY <1>2, <1>4, <2>1
  <2>2. CASE x \notin new
    BY <1>2, <1>3, <1>4, <2>2
  <2> QED BY <2>1, <2>2
<1>8. \A x \in Solid' \cap DOMAIN up : x \in DOMAIN up' /\ up'[x] = up[x]
  BY <1>2, <1>3, <1>5
<1>9. ASSUME NEW s \in Solid', NEW l \in DOMAIN lists[s]
      PROVE  /\ lists'[s][l] \in Seq(Object)
             /\ \A x \in ToSet(lists'[s][l]) :
                   \/ x \in new /\ s = parent /\ l = "actions"
                   \/ x \in ToSet(lists[s][l]) /\ x # f /\ (Once(lists[s][l], x) => x \in new \/ Once(lists'[s][l], x))
             /\ \A x \in ToSet(lists[s][l]) : x # f => x \in ToSet(lists'[s][l])
  <2>1. PICK list : list = lists[s][l]
    OBVIOUS
  <2>2. s \in Solid
    BY <1>2
  <2>3. list \in Seq(Object) /\ \A x \in ToSet(list) : Fits(x, s, l) /\ (KindOf(x) # "Reference" => Once(list, x))
    BY <2>1, <2>2 DEF Structure, ListsTyped
  <2>4. f \in ToSet(list) => s = parent /\ l = "actions"
    <3>1. ASSUME f \in ToSet(list) PROVE s = parent /\ l = "actions"
      <4>1. s = parent
        BY <1>1, <1>2, <2>3, <3>1 DEF Fits
      <4>2. l = "actions"
        BY <1>2, <2>1, <2>2, <3>1, <4>1 DEF Structure, InOneList
      <4> QED BY <4>1, <4>2
    <3> QED BY <3>1
  <2>5. CASE s = parent /\ l = "actions"
    <3>1. PICK r \in Seq(Object) : ToSet(r) \subseteq new /\ lists'[s][l] = ReplacedBy(list, f, r)
      BY <1>1, <2>1, <2>5 DEF Unrolls
    <3>2. f \in ToSet(list) /\ Once(list, f)
      BY <1>2, <2>1, <2>3, <2>5
    <3>3. PICK c : c = ReplacedBy(list, f, r)
      OBVIOUS
    <3>4. c \in Seq(Object) /\ ToSet(c) = (ToSet(list) \ {f}) \cup ToSet(r)
      BY <2>3, <3>2, <3>3, Replaced
    <3>5. \A x : x \notin ToSet(r) /\ Once(list, x) => Once(c, x)
      BY <2>3, <3>2, <3>3, Replaced
    <3> QED BY <2>1, <2>5, <3>1, <3>3, <3>4, <3>5
  <2>6. CASE ~(s = parent /\ l = "actions")
    <3>1. lists'[s][l] = list
      BY <1>1, <1>2, <2>1, <2>6 DEF Unrolls
    <3> QED BY <2>1, <2>3, <2>4, <2>6, <3>1
  <2> QED BY <2>5, <2>6
<1>10. ListsTyped'
  <2> SUFFICES ASSUME NEW s \in Solid'
               PROVE  /\ KindOf(s) \in DOMAIN ContentOf /\ DOMAIN lists'[s] = DOMAIN ContentOf[KindOf(s)]
                      /\ \A l \in DOMAIN lists'[s] :
                            /\ lists'[s][l] \in Seq(Object)
                            /\ \A x \in ToSet(lists'[s][l]) :
                                  Fits(x, s, l)' /\ (KindOf(x) # "Reference" => Once(lists'[s][l], x))
    BY DEF ListsTyped
  <2>1. KindOf(s) \in DOMAIN ContentOf /\ DOMAIN lists'[s] = DOMAIN ContentOf[KindOf(s)]
    BY <1>2 DEF Structure, ListsTyped
  <2>2. ASSUME NEW l \in DOMAIN lists[s], NEW x \in ToSet(lists'[s][l])
        PROVE  Fits(x, s, l)' /\ (KindOf(x) # "Reference" => Once(lists'[s][l], x))
    <3>1. CASE x \in new /\ s = parent /\ l = "actions"
      BY <1>2, <3>1 DEF Fits
    <3>2. CASE ~(x \in new /\ s = parent /\ l = "actions")
      <4>1. x \in ToSet(lists[s][l]) /\ x # f /\ (Once(lists[s][l], x) => x \in new \/ Once(lists'[s][l], x))
        BY <1>9, <2>2, <3>2
      <4>2. Fits(x, s, l) /\ (KindOf(x) # "Reference" => Once(lists[s][l], x))
        BY <1>2, <4>1 DEF Structure, ListsTyped
      <4>3. ASSUME KindOf(x) # "Reference" PROVE x \in Solid' \cap DOMAIN up' /\ up'[x] = s
        <5>1. x \in Solid \cap DOMAIN up /\ up[x] = s
          BY <4>2, <4>3 DEF Fits
        <5>2. x \notin Under(f)
          BY <1>2, <1>3, <4>1, <5>1
        <5> QED BY <1>2, <1>8, <5>1, <5>2
      <4> QED BY <1>2, <4>1, <4>2, <4>3 DEF Fits
    <3> QED BY <3>1, <3>2
  <2> QED BY <1>2, <1>9, <2>1, <2>2
<1>11. InOneList'
  <2> SUFFICES ASSUME NEW s \in Solid', NEW l \in DOMAIN lists'[s], NEW m \in DOMAIN lists'[s], l # m,
                      NEW x \in ToSet(lists'[s][l]) \cap ToSet(lists'[s][m]), KindOf(x) # "Reference"
               PROVE  FALSE
    BY DEF InOneList
  <2>1. l \in DOMAIN lists[s] /\ m \in DOMAIN lists[s] /\ s \in Solid /\ x \notin new
    BY <1>2
  <2>2. x \in ToSet(lists[s][l]) /\ x \in ToSet(lists[s][m])
    BY <1>9, <2>1
  <2> QED BY <2>1, <2>2 DEF Structure, InOneList
<1>12. Placed'
  <2> SUFFICES ASSUME NEW x \in DOMAIN up', KindOf(x) \notin {"Contents", "Reference"}
               PROVE  \E l \in DOMAIN lists'[up'[x]] : x \in ToSet(lists'[up'[x]][l])
    BY DEF Placed
  <2>1. x \notin new /\ x \in DOMAIN up /\ x \notin Below(f) /\ up'[x] = up[x] /\ up[x] \in Solid' /\ x # f
    BY <1>2, <1>3, <1>4
  <2>2. PICK l \in DOMAIN lists[up[x]] : x \in ToSet(lists[up[x]][l])
    BY <2>1 DEF Structure, Placed
  <2>3. x \in ToSet(lists'[up[x]][l])
    BY <1>9, <2>1, <2>2
  <2> QED BY <1>2, <2>1, <2>2, <2>3
<1> QED BY <1>6, <1>7, <1>10, <1>11, <1>12 DEF Structure

\* The values of the index of loop f, and the copies of its actions.
ValuesFor(f) == UnrolledValues(Header(f), ResolveForLoopBound(Header(f)))
BodyCopies(f) == IterationCopies(ToSet(lists[f].actions), Len(ValuesFor(f)))

\* The last case of Unroll: copies of the actions take the place of the loop.
UnrolledTo(f) ==
    /\ ResolveForLoopBound(Header(f)).resolved
    /\ up' = Over([x \in BodyCopies(f) |-> up[f]], Without(up, (Below(f) \ {f}) \cup {f}))
    /\ lists' = [Without(lists, (Below(f) \ {f}) \cup {f}) EXCEPT ![up[f]].actions =
                    SubSeq(@, 1, PlaceIn(lists[up[f]].actions, f) - 1)
                    \o Repeated(lists[f].actions, Len(ValuesFor(f)))
                    \o SubSeq(@, PlaceIn(lists[up[f]].actions, f) + 1, Len(@))]
    /\ nameOf' = Without(nameOf, (Below(f) \ {f}) \cup {f})
    /\ renamed' = renamed \ (Below(f) \ {f})
    /\ visited' = visited \cup {f}
    /\ UNCHANGED <<table, read, passes, renaming, work, thrown, state>>

\* What Unroll does is one of these.
LEMMA UnrollCases ==
    ASSUME Unroll
    PROVE  \E f \in Visitable : KindOf(f) = "For" /\ (ThrowAway(f) \/ Assertion(f) \/ Skip(f) \/ UnrolledTo(f))
BY Zenon DEF Unroll, UnrolledTo, ValuesFor, BodyCopies

\* The loops that are visited are actions of the contents, which have no generates left.
LEMMA LoopIs ==
    ASSUME Inv, NEW f \in Visitable, KindOf(f) = "For"
    PROVE  /\ work = <<>> /\ state = "visiting" /\ ~renaming /\ Generates(design.contents) = {}
           /\ f \in Solid \cap DOMAIN up /\ up[f] = design.contents /\ KindOf(up[f]) = "Contents"
           /\ up[f] \in Solid /\ Level[up[f].of] < Level[f.of]
           /\ "actions" \in DOMAIN lists[up[f]] /\ f \in ToSet(lists[up[f]]["actions"])
           /\ "actions" \in DOMAIN lists[f] /\ lists[f]["actions"] \in Seq(Object)
           /\ \A x \in ToSet(lists[f]["actions"]) : KindOf(x) = "Reference" /\ Level[f.of] < Level[x.of]
<1>1. \A s \in Solid : \A g \in Generates(s) : KindOf(g) # "For"
  <2> SUFFICES ASSUME NEW s \in Solid, NEW g \in Generates(s) PROVE KindOf(g) # "For"
    OBVIOUS
  <2>1. g \in ToSet(Listed(s, "generates"))
    BY DEF Generates
  <2>2. KindOf(g) \in {"ForGenerate", "IfGenerate"}
    BY <2>1, GeneratesAre DEF Inv
  <2> QED BY <2>2
<1>2. design.contents \in Solid /\ KindOf(design.contents) = "Contents"
  BY DEF Inv, DesignTyped
<1>3. state = "visiting" /\ ~renaming
  BY DEF Visitable
<1>4. work # <<>> => Top.copy = NoObject \/ Top.copy \in Solid
  <2>1. ASSUME work # <<>>, Top.copy # NoObject PROVE Top.copy \in Solid
    <3>1. PICK n : n = Len(work)
      OBVIOUS
    <3>2. n \in 1 .. Len(work) /\ Top = work[n]
      BY <2>1, <3>1, WorkIs DEF Inv
    <3> QED BY <2>1, <3>2, CopyIs
  <2> QED BY <2>1
<1>5. work = <<>> /\ Generates(design.contents) = {} /\ f \in Loops(design.contents)
  BY <1>1, <1>2, <1>4, Zenon DEF Visitable
<1>6. "actions" \in DOMAIN lists[design.contents] /\ f \in ToSet(lists[design.contents]["actions"])
  BY <1>5 DEF Loops, Listed, ToSet
<1>7. Fits(f, design.contents, "actions")
  BY <1>2, <1>6 DEF Inv, Structure, ListsTyped
<1>8. f \in Solid \cap DOMAIN up /\ up[f] = design.contents /\ Level[up[f].of] < Level[f.of]
  BY <1>7 DEF Fits
<1>9. KindOf(f) = "For" /\ DOMAIN lists[f] = DOMAIN ContentOf["For"] /\ f \in Solid
  BY <1>8 DEF Inv, Structure, ListsTyped
<1>10. ContentOf["For"] = [initDeclarations |-> {"Variable"}, actions |-> {"Reference"}]
  BY ContentIs
<1>11. "actions" \in DOMAIN lists[f] /\ ContentOf["For"]["actions"] = {"Reference"}
  BY <1>9, <1>10
<1>12. lists[f]["actions"] \in Seq(Object) /\ \A x \in ToSet(lists[f]["actions"]) : Fits(x, f, "actions")
  BY <1>9, <1>11 DEF Inv, Structure, ListsTyped
<1>13. \A x \in ToSet(lists[f]["actions"]) : KindOf(x) = "Reference" /\ Level[f.of] < Level[x.of]
  BY <1>9, <1>11, <1>12 DEF Fits
<1> QED BY <1>2, <1>3, <1>5, <1>6, <1>8, <1>11, <1>12, <1>13

\* The step Unroll puts copies of the actions in the place of the loop.
LEMMA UnrollTree ==
    ASSUME Inv, NEW f \in Visitable, KindOf(f) = "For", UnrolledTo(f)
    PROVE  /\ Unrolls(f, BodyCopies(f))
           /\ DOMAIN nameOf' = Solid' /\ \A o \in Solid' : nameOf'[o] = nameOf[o]
           /\ renamed' = renamed \ (Below(f) \ {f})
<1>1. PICK s : s = up[f]
  OBVIOUS
<1>2. /\ f \in Solid \cap DOMAIN up /\ s = design.contents /\ KindOf(s) = "Contents"
      /\ s \in Solid /\ Level[s.of] < Level[f.of]
      /\ "actions" \in DOMAIN lists[s] /\ f \in ToSet(lists[s]["actions"])
      /\ "actions" \in DOMAIN lists[f] /\ lists[f]["actions"] \in Seq(Object)
      /\ \A x \in ToSet(lists[f]["actions"]) : KindOf(x) = "Reference" /\ Level[f.of] < Level[x.of]
  BY <1>1, LoopIs
<1>3. /\ Below(f) \subseteq Nodes /\ f \in Under(f) /\ Under(f) \subseteq Solid
      /\ \A x \in Solid : x \in Below(f) <=> x \in Under(f)
      /\ \A x \in DOMAIN up : x \in Below(f) <=> (x = f \/ up[x] \in Under(f))
      /\ s \notin Under(f)
  BY <1>1, <1>2, BelowGone DEF Inv
<1>4. f \in Below(f) /\ (Below(f) \ {f}) \cup {f} = Below(f)
  BY <1>2, <1>3
<1>5. PICK n : n = Len(ValuesFor(f))
  OBVIOUS
<1>6. n \in Nat
  <2>1. Header(f) \in HeaderType
    BY <1>2, HeaderTyped
  <2>2. ResolveForLoopBound(Header(f)).resolved
    BY DEF UnrolledTo
  <2>3. n = ResolveForLoopBound(Header(f)).loops
    BY <1>5, <2>1, <2>2, ValuesListed DEF ValuesFor
  <2> QED BY <2>1, <2>2, <2>3, LoopsAre
<1>7. PICK body : body = lists[f]["actions"]
  OBVIOUS
<1>8. BodyCopies(f) = {CopyAt(o, k) : o \in ToSet(body), k \in 1 .. n}
  BY <1>5, <1>7 DEF BodyCopies, IterationCopies
<1>9. body \in Seq(Object) /\ \A o \in ToSet(body) : o \in Object /\ KindOf(o) = "Reference" /\ Level[f.of] < Level[o.of]
  <2>1. body \in Seq(Object)
    BY <1>2, <1>7
  <2>2. DOMAIN body = 1 .. Len(body)
    BY <2>1, LenProperties
  <2>3. \A o \in ToSet(body) : o \in Object
    BY <2>1, <2>2, ElementOfSeq DEF ToSet
  <2> QED BY <1>2, <1>7, <2>1, <2>3
<1>10. PICK new : new = BodyCopies(f)
  OBVIOUS
<1>11. ASSUME NEW x \in new
       PROVE  /\ x \in Object /\ x # NoObject /\ KindOf(x) = "Reference"
              /\ KindOf(x) \in ContentOf[KindOf(s)]["actions"] /\ Level[s.of] < Level[x.of]
  <2>1. PICK o \in ToSet(body), k \in 1 .. n : x = CopyAt(o, k)
    BY <1>8, <1>10
  <2>2. o \in Object /\ k \in Int /\ KindOf(o) = "Reference" /\ Level[f.of] < Level[o.of]
    BY <1>9
  <2>3. x \in Object /\ x.of = o.of /\ x # NoObject
    BY <2>1, <2>2, CopyAtIs
  <2>4. KindOf(x) = "Reference"
    BY <2>2, <2>3 DEF KindOf
  <2>5. Level[s.of] \in Nat /\ Level[f.of] \in Nat /\ Level[x.of] \in Nat
    <3>1. NodesTyped
      BY DEF Inv, Structure
    <3>2. x.of \in DOMAIN Kind
      BY <2>3 DEF Object
    <3> QED BY <1>2, <3>1, <3>2, Levels, LevelAssumption
  <2>6. "Reference" \in ContentOf["Contents"]["actions"]
    <3>1. StatementLists["actions"] = {"For", "Reference"}
      BY DEF StatementLists
    <3> QED BY <3>1, ContentIs
  <2> QED BY <1>2, <2>2, <2>3, <2>4, <2>5, <2>6
<1>12. PICK others : others = Without(up, Below(f))
  OBVIOUS
<1>13. PICK first : first = [x \in new |-> s]
  OBVIOUS
<1>14. PICK otherLists : otherLists = Without(lists, Below(f))
  OBVIOUS
<1>15. up' = Over(first, others) /\ nameOf' = Without(nameOf, Below(f)) /\ renamed' = renamed \ (Below(f) \ {f})
  BY <1>1, <1>4, <1>10, <1>12, <1>13 DEF UnrolledTo
<1>16. PICK r : r = Repeated(body, n)
  OBVIOUS
<1>17. lists' = [otherLists EXCEPT ![s]["actions"] =
                    SubSeq(@, 1, PlaceIn(lists[s]["actions"], f) - 1) \o r
                    \o SubSeq(@, PlaceIn(lists[s]["actions"], f) + 1, Len(@))]
  BY <1>1, <1>4, <1>5, <1>7, <1>14, <1>16, Zenon DEF UnrolledTo
<1>18. /\ DOMAIN up' = (DOMAIN up \ Below(f)) \cup new
       /\ \A x \in new : up'[x] = s
       /\ \A x \in DOMAIN up \ Below(f) : x \notin new => up'[x] = up[x]
  BY <1>12, <1>13, <1>15 DEF Over, Without
<1>19. DOMAIN otherLists = Solid \ Under(f) /\ \A p \in Solid \ Under(f) : otherLists[p] = lists[p]
  BY <1>3, <1>14 DEF Without, Solid
<1>20. PICK list : list = SubSeq(otherLists[s]["actions"], 1, PlaceIn(lists[s]["actions"], f) - 1) \o r
                          \o SubSeq(otherLists[s]["actions"], PlaceIn(lists[s]["actions"], f) + 1, Len(otherLists[s]["actions"]))
  OBVIOUS
<1>21. lists' = [otherLists EXCEPT ![s]["actions"] = list]
  BY <1>17, <1>20, Zenon
<1>22. list = ReplacedBy(lists[s]["actions"], f, r)
  <2>1. otherLists[s] = lists[s]
    BY <1>2, <1>3, <1>19
  <2> QED BY <1>20, <2>1, Zenon DEF ReplacedBy
<1>23. /\ Solid' = Solid \ Under(f)
       /\ \A p \in Solid \ Under(f) :
             /\ DOMAIN lists'[p] = DOMAIN lists[p]
             /\ \A l \in DOMAIN lists[p] : ~(p = s /\ l = "actions") => lists'[p][l] = lists[p][l]
       /\ lists'[s]["actions"] = list
  BY <1>2, <1>3, <1>19, <1>21 DEF Solid
<1>24. \E q \in Seq(Object) : ToSet(q) \subseteq new /\ lists'[s]["actions"] = ReplacedBy(lists[s]["actions"], f, q)
  <2>1. r \in Seq(Object)
    BY <1>6, <1>9, <1>16, RepeatedIs
  <2>2. \A x \in ToSet(r) : \E o \in ToSet(body), k \in 1 .. n : x = CopyAt(o, k)
    BY <1>6, <1>9, <1>16, RepeatedIs
  <2>3. ToSet(r) \subseteq new
    BY <1>8, <1>10, <2>2
  <2> QED BY <1>22, <1>23, <2>1, <2>3
<1>25. Unrolls(f, new)
  BY <1>1, <1>2, <1>11, <1>18, <1>23, <1>24, Zenon DEF Unrolls
<1>26. DOMAIN nameOf' = Solid' /\ \A o \in Solid' : nameOf'[o] = nameOf[o]
  <2>1. DOMAIN nameOf = Solid
    BY DEF Inv, NamesTyped
  <2> QED BY <1>3, <1>15, <1>23, <2>1 DEF Without
<1> QED BY <1>10, <1>15, <1>25, <1>26

\* A loop that is unrolled.
LEMMA UnrolledKeeps ==
    ASSUME GenerateInv, NEW f \in Visitable, KindOf(f) = "For", UnrolledTo(f)
    PROVE  GenerateInv' /\ ApartStep
<1>1. /\ visited' = visited \cup {f} /\ table' = table /\ design' = design /\ passes' = passes
      /\ renaming' = renaming /\ work' = work /\ state' = state
  BY DEF UnrolledTo, read
<1>2. Inv /\ Structure /\ NamesTyped
  BY DEF GenerateInv, Inv, Visitable
<1>3. PICK s : s = design.contents
  OBVIOUS
<1>4. /\ work = <<>> /\ state = "visiting" /\ ~renaming /\ Generates(s) = {}
      /\ f \in Solid \cap DOMAIN up /\ up[f] = s /\ KindOf(s) = "Contents" /\ s \in Solid
  BY <1>2, <1>3, LoopIs
<1>5. PICK new : new = BodyCopies(f)
  OBVIOUS
<1>6. /\ Unrolls(f, new) /\ DOMAIN nameOf' = Solid' /\ \A o \in Solid' : nameOf'[o] = nameOf[o]
      /\ renamed' = renamed \ (Below(f) \ {f})
  BY <1>2, <1>5, UnrollTree
<1>7. Structure'
  BY <1>2, <1>6, UnrollStructure
<1>8. /\ f \in Under(f) /\ Under(f) \subseteq Solid
      /\ \A x \in Solid : x \in Below(f) <=> x \in Under(f)
      /\ \A x \in DOMAIN up : x \in Below(f) <=> (x = f \/ up[x] \in Under(f))
      /\ s \notin Under(f)
  BY <1>2, <1>4, BelowGone
<1>9. /\ DOMAIN up' = (DOMAIN up \ Below(f)) \cup new
      /\ \A x \in new : KindOf(x) = "Reference"
      /\ \A x \in DOMAIN up \ Below(f) : x \notin new => up'[x] = up[x]
      /\ Solid' = Solid \ Under(f)
      /\ \A p \in Solid \ Under(f) :
            /\ DOMAIN lists'[p] = DOMAIN lists[p]
            /\ \A l \in DOMAIN lists[p] : ~(p = s /\ l = "actions") => lists'[p][l] = lists[p][l]
  BY <1>4, <1>6, Zenon DEF Unrolls
<1>10. \A x \in Solid : KindOf(x) # "Reference"
  BY <1>2 DEF Structure, NodesTyped, Nodes, Solid
<1>11. \A x \in Solid' : x \notin new /\ (x \in DOMAIN up' <=> x \in DOMAIN up) /\ (x \in DOMAIN up => up'[x] = up[x])
  BY <1>8, <1>9, <1>10
\* Names.
<1>12. NamesTyped' /\ Registered' /\ FreshNamesDiffer'
  <2>1. NamesTyped'
    BY <1>2, <1>6, <1>9 DEF NamesTyped
  <2>2. f \notin renamed
    BY <1>4, KindsDiffer DEF GenerateInv, Registered, DeclarationKinds
  <2>3. \A o \in renamed' : o \in renamed /\ o \in Solid' /\ nameOf'[o] = nameOf[o]
    BY <1>2, <1>6, <1>8, <1>9, <2>2 DEF GenerateInv, Registered, NamesTyped
  <2> QED BY <1>1, <1>6, <2>1, <2>3 DEF GenerateInv, Registered, FreshNamesDiffer
<1>13. ApartStep
  <2>1. \A o \in Solid' \cap DOMAIN up : nameOf'[o] = nameOf[o] /\ up'[o] = up[o]
    BY <1>6, <1>11
  <2> QED BY <1>6, <2>1, ApartStays
\* The rest.
<1>14. DesignTyped'
  BY <1>1, <1>2, <1>3, <1>4, <1>8, <1>9 DEF Inv, DesignTyped, System
<1>15. Frames' /\ CopiesOpen' = {}
  BY <1>1, <1>4 DEF Frames, CopiesOpen
<1>16. Generates(s)' = {}
  <2>1. "generates" \in DOMAIN lists'[s] => "generates" \in DOMAIN lists[s] /\ lists'[s]["generates"] = lists[s]["generates"]
    BY <1>4, <1>8, <1>9
  <2> QED BY <1>1, <1>4, <2>1 DEF Generates, Listed, ToSet
<1>17. Heads' = {}
  <2>1. OpenScopes' \subseteq {s}
    BY <1>1, <1>3, <1>15 DEF OpenScopes
  <2>2. Roots' = {}
    BY <1>16, <2>1 DEF Roots
  <2> QED BY <1>1, <1>4, <2>2 DEF Heads
<1>18. HeadsApart' /\ OpenOutside' /\ CopiesFresh'
  BY <1>17 DEF HeadsApart, OpenOutside, CopiesFresh
<1>19. Phases'
  BY <1>1 DEF Phases
<1>20. Inv'
  BY <1>7, <1>12, <1>14, <1>15, <1>18, <1>19 DEF Inv
<1> QED BY <1>1, <1>4, <1>12, <1>13, <1>20 DEF GenerateInv, Renames

\* A loop is visited.
LEMMA UnrollKeeps ==
    ASSUME GenerateInv, Unroll
    PROVE  GenerateInv' /\ ApartStep
<1>1. PICK f \in Visitable : KindOf(f) = "For" /\ (ThrowAway(f) \/ Assertion(f) \/ Skip(f) \/ UnrolledTo(f))
  BY UnrollCases
<1>2. CASE ThrowAway(f) \/ Skip(f)
  <2>1. Passed(f)
    BY <1>2 DEF ThrowAway, Skip, Passed
  <2> QED BY <2>1, PassedKeeps
<1>3. CASE Assertion(f)
  BY <1>3, AssertionKeeps
<1>4. CASE UnrolledTo(f)
  BY <1>1, <1>4, UnrolledKeeps
<1> QED BY <1>1, <1>2, <1>3, <1>4

-----------------------------------------------------------------------------
(* What was thrown away goes. *)

\* The visitor is in nothing that was thrown away, and expands nothing there: t is deeper.
Discarded(t) ==
    /\ t \in Solid \cap DOMAIN up /\ KindOf(t) \notin {"Contents", "Reference"}
    /\ \A s \in OpenScopes : Level[s.of] < Level[t.of]
    /\ \A k \in 1 .. Len(work) : work[k].copy # NoObject /\ Level[work[k].gen.of] < Level[t.of]

\* The trash holds one such node, or nothing.
ThrownInv == thrown # {} => \E t : thrown = {t} /\ state = "visiting" /\ visited # {} /\ Discarded(t)

\* What taking t out of list l of its parent and deleting it does to the tree.
Drops(t, l) ==
    /\ t \in Solid \cap DOMAIN up /\ KindOf(t) \notin {"Contents", "Reference"}
    /\ l \in DOMAIN lists[up[t]] /\ t \in ToSet(lists[up[t]][l])
    /\ DOMAIN up' = DOMAIN up \ Below(t)
    /\ \A x \in DOMAIN up \ Below(t) : up'[x] = up[x]
    /\ Solid' = Solid \ Under(t)
    /\ \A s \in Solid \ Under(t) :
          /\ DOMAIN lists'[s] = DOMAIN lists[s]
          /\ \A m \in DOMAIN lists[s] :
                lists'[s][m] = IF s = up[t] /\ m = l THEN RemoveAt(lists[s][m], PlaceIn(lists[s][m], t))
                               ELSE lists[s][m]

\* Without the node the tree is a tree.
LEMMA DropStructure ==
    ASSUME Structure, NEW t, NEW l, Drops(t, l)
    PROVE  Structure'
<1>1. PICK parent : parent = up[t]
  OBVIOUS
<1>2. /\ t \in Solid \cap DOMAIN up /\ KindOf(t) \notin {"Contents", "Reference"}
      /\ l \in DOMAIN lists[parent] /\ t \in ToSet(lists[parent][l])
      /\ DOMAIN up' = DOMAIN up \ Below(t)
      /\ \A x \in DOMAIN up \ Below(t) : up'[x] = up[x]
      /\ Solid' = Solid \ Under(t)
      /\ \A s \in Solid' : DOMAIN lists'[s] = DOMAIN lists[s]
  BY <1>1 DEF Drops
<1>3. /\ Below(t) \subseteq Nodes /\ t \in Under(t) /\ Under(t) \subseteq Solid
      /\ \A x \in Solid : x \in Below(t) <=> x \in Under(t)
      /\ \A x \in DOMAIN up : x \in Below(t) <=> (x = t \/ up[x] \in Under(t))
      /\ parent \in Solid /\ parent \notin Under(t)
  BY <1>1, <1>2, BelowGone
<1>4. parent \in Solid' /\ \A x \in DOMAIN up : up[x] \in Solid /\ Level[up[x].of] < Level[x.of]
  BY <1>2, <1>3 DEF Structure, UpTyped
<1>5. Nodes' \subseteq Nodes /\ \A x \in Nodes' : x \in Solid' <=> x \in Solid
  <2>1. Nodes' = DOMAIN up' \cup Solid' /\ Nodes = DOMAIN up \cup Solid
    BY DEF Nodes, Solid
  <2> QED BY <1>2, <1>3, <1>4, <2>1
<1>6. NodesTyped'
  BY <1>5 DEF Structure, NodesTyped
<1>7. UpTyped'
  <2> SUFFICES ASSUME NEW x \in DOMAIN up' PROVE up'[x] \in Solid' /\ Level[up'[x].of] < Level[x.of]
    BY DEF UpTyped
  <2> QED BY <1>2, <1>3, <1>4
<1>8. \A x \in Solid' \cap DOMAIN up : x \in DOMAIN up' /\ up'[x] = up[x]
  BY <1>2, <1>3
<1>9. ASSUME NEW s \in Solid', NEW m \in DOMAIN lists[s]
      PROVE  /\ lists'[s][m] \in Seq(Object) /\ t \notin ToSet(lists'[s][m])
             /\ \A x \in ToSet(lists'[s][m]) :
                   x \in ToSet(lists[s][m]) /\ (Once(lists[s][m], x) => Once(lists'[s][m], x))
             /\ \A x \in ToSet(lists[s][m]) : x # t => x \in ToSet(lists'[s][m])
  <2>1. PICK list : list = lists[s][m]
    OBVIOUS
  <2>2. s \in Solid
    BY <1>2
  <2>3. list \in Seq(Object) /\ \A x \in ToSet(list) : Fits(x, s, m) /\ (KindOf(x) # "Reference" => Once(list, x))
    BY <2>1, <2>2 DEF Structure, ListsTyped
  <2>4. KindOf(t) # "Reference"
    BY <1>2
  <2>5. t \in ToSet(list) => s = parent /\ m = l
    <3>1. ASSUME t \in ToSet(list) PROVE s = parent /\ m = l
      <4>1. s = parent
        BY <1>1, <2>3, <2>4, <3>1 DEF Fits
      <4>2. m = l
        BY <1>2, <2>1, <2>2, <2>4, <3>1, <4>1 DEF Structure, InOneList
      <4> QED BY <4>1, <4>2
    <3> QED BY <3>1
  <2>6. CASE s = parent /\ m = l
    <3>1. PICK new : new = RemoveAt(list, PlaceIn(list, t))
      OBVIOUS
    <3>2. lists'[s][m] = new
      BY <1>1, <1>2, <2>1, <2>6, <3>1 DEF Drops
    <3>3. t \in ToSet(list) /\ Once(list, t)
      BY <1>2, <2>1, <2>3, <2>4, <2>6
    <3>4. /\ new \in Seq(Object) /\ ToSet(new) \subseteq ToSet(list) /\ ToSet(list) \ {t} \subseteq ToSet(new)
          /\ \A x : Once(list, x) => Once(new, x)
          /\ t \notin ToSet(new)
      BY <2>3, <3>1, <3>3, Removed
    <3> QED BY <2>1, <3>2, <3>4
  <2>7. CASE ~(s = parent /\ m = l)
    <3>1. lists'[s][m] = list
      BY <1>1, <1>2, <2>1, <2>7 DEF Drops
    <3> QED BY <2>1, <2>3, <2>5, <2>7, <3>1
  <2> QED BY <2>6, <2>7
<1>10. ListsTyped'
  <2> SUFFICES ASSUME NEW s \in Solid'
               PROVE  /\ KindOf(s) \in DOMAIN ContentOf /\ DOMAIN lists'[s] = DOMAIN ContentOf[KindOf(s)]
                      /\ \A m \in DOMAIN lists'[s] :
                            /\ lists'[s][m] \in Seq(Object)
                            /\ \A x \in ToSet(lists'[s][m]) :
                                  Fits(x, s, m)' /\ (KindOf(x) # "Reference" => Once(lists'[s][m], x))
    BY DEF ListsTyped
  <2>1. KindOf(s) \in DOMAIN ContentOf /\ DOMAIN lists'[s] = DOMAIN ContentOf[KindOf(s)]
    BY <1>2 DEF Structure, ListsTyped
  <2>2. ASSUME NEW m \in DOMAIN lists[s], NEW x \in ToSet(lists'[s][m])
        PROVE  Fits(x, s, m)' /\ (KindOf(x) # "Reference" => Once(lists'[s][m], x))
    <3>1. x \in ToSet(lists[s][m]) /\ x # t /\ (Once(lists[s][m], x) => Once(lists'[s][m], x))
      BY <1>9, <2>2
    <3>2. Fits(x, s, m) /\ (KindOf(x) # "Reference" => Once(lists[s][m], x))
      BY <1>2, <3>1 DEF Structure, ListsTyped
    <3>3. ASSUME KindOf(x) # "Reference" PROVE x \in Solid' \cap DOMAIN up' /\ up'[x] = s
      <4>1. x \in Solid \cap DOMAIN up /\ up[x] = s
        BY <3>2, <3>3 DEF Fits
      <4>2. x \notin Under(t)
        BY <1>2, <1>3, <3>1, <4>1
      <4> QED BY <1>2, <1>8, <4>1, <4>2
    <3> QED BY <3>1, <3>2, <3>3 DEF Fits
  <2> QED BY <1>2, <1>9, <2>1, <2>2
<1>11. InOneList'
  <2> SUFFICES ASSUME NEW s \in Solid', NEW j \in DOMAIN lists'[s], NEW m \in DOMAIN lists'[s], j # m,
                      NEW x \in ToSet(lists'[s][j]) \cap ToSet(lists'[s][m]), KindOf(x) # "Reference"
               PROVE  FALSE
    BY DEF InOneList
  <2>1. j \in DOMAIN lists[s] /\ m \in DOMAIN lists[s] /\ s \in Solid
    BY <1>2
  <2>2. x \in ToSet(lists[s][j]) /\ x \in ToSet(lists[s][m])
    BY <1>9, <2>1
  <2> QED BY <2>1, <2>2 DEF Structure, InOneList
<1>12. Placed'
  <2> SUFFICES ASSUME NEW x \in DOMAIN up', KindOf(x) \notin {"Contents", "Reference"}
               PROVE  \E m \in DOMAIN lists'[up'[x]] : x \in ToSet(lists'[up'[x]][m])
    BY DEF Placed
  <2>1. x \in DOMAIN up /\ up'[x] = up[x] /\ up[x] \in Solid' /\ x # t
    BY <1>2, <1>3, <1>4
  <2>2. PICK m \in DOMAIN lists[up[x]] : x \in ToSet(lists[up[x]][m])
    BY <2>1 DEF Structure, Placed
  <2>3. x \in ToSet(lists'[up[x]][m])
    BY <1>9, <2>1, <2>2
  <2> QED BY <1>2, <2>1, <2>2, <2>3
<1> QED BY <1>6, <1>7, <1>10, <1>11, <1>12 DEF Structure

\* The step AfterVisit takes away what was thrown away, and the names that were in it.
LEMMA AfterVisitTree ==
    ASSUME Inv, ThrownInv, AfterVisit
    PROVE  \E t : /\ thrown = {t} /\ thrown' = {} /\ Discarded(t) /\ visited # {}
                  /\ \E l : Drops(t, l)
                  /\ DOMAIN nameOf' = Solid' /\ \A o \in Solid' : nameOf'[o] = nameOf[o]
                  /\ renamed' = renamed \ Below(t)
<1>1. PICK t \in thrown :
        /\ up' = Without(up, Below(t)) /\ nameOf' = Without(nameOf, Below(t)) /\ renamed' = renamed \ Below(t)
        /\ lists' = [Without(lists, Below(t)) EXCEPT ![up[t]][ListOf(up[t], t)] = RemoveAt(@, PlaceIn(@, t))]
        /\ thrown' = thrown \ {t}
  BY Zenon DEF AfterVisit
<1>2. thrown = {t} /\ Discarded(t) /\ visited # {}
  BY <1>1 DEF ThrownInv
<1>3. PICK parent : parent = up[t]
  OBVIOUS
<1>4. PICK l : l = ListOf(up[t], t)
  OBVIOUS
<1>5. t \in Solid \cap DOMAIN up /\ KindOf(t) \notin {"Contents", "Reference"}
  BY <1>2 DEF Discarded
<1>6. l \in DOMAIN lists[parent] /\ t \in ToSet(lists[parent][l])
  BY <1>3, <1>4, <1>5, ListOfIs DEF Inv
<1>7. /\ Under(t) \subseteq Solid /\ \A x \in Solid : x \in Below(t) <=> x \in Under(t)
      /\ parent \in Solid /\ parent \notin Under(t)
  BY <1>3, <1>5, BelowGone DEF Inv
<1>8. DOMAIN up' = DOMAIN up \ Below(t) /\ \A x \in DOMAIN up \ Below(t) : up'[x] = up[x]
  BY <1>1 DEF Without
<1>9. PICK others : others = Without(lists, Below(t))
  OBVIOUS
<1>10. DOMAIN others = Solid \ Under(t) /\ \A s \in Solid \ Under(t) : others[s] = lists[s]
  BY <1>7, <1>9 DEF Without, Solid
<1>11. lists' = [others EXCEPT ![parent][l] = RemoveAt(@, PlaceIn(@, t))]
  BY <1>1, <1>3, <1>4, <1>9
<1>12. /\ Solid' = Solid \ Under(t)
       /\ \A s \in Solid \ Under(t) :
             /\ DOMAIN lists'[s] = DOMAIN lists[s]
             /\ \A m \in DOMAIN lists[s] :
                   lists'[s][m] = IF s = parent /\ m = l THEN RemoveAt(lists[s][m], PlaceIn(lists[s][m], t))
                                  ELSE lists[s][m]
  BY <1>6, <1>7, <1>10, <1>11 DEF Solid
<1>13. Drops(t, l)
  BY <1>3, <1>5, <1>6, <1>8, <1>12 DEF Drops
<1>14. DOMAIN nameOf' = Solid' /\ \A o \in Solid' : nameOf'[o] = nameOf[o]
  <2>1. DOMAIN nameOf = Solid
    BY DEF Inv, NamesTyped
  <2> QED BY <1>1, <1>7, <1>12, <2>1 DEF Without
<1> QED BY <1>1, <1>2, <1>13, <1>14

\* What was thrown away is deleted, and nothing else changes.
LEMMA AfterVisitKeeps ==
    ASSUME GenerateInv, ThrownInv, AfterVisit
    PROVE  GenerateInv' /\ ThrownInv' /\ ApartStep
<1>1. /\ state = "visiting" /\ state' = state /\ table' = table /\ design' = design /\ passes' = passes
      /\ renaming' = renaming /\ visited' = visited /\ work' = work
  BY DEF AfterVisit, read
<1>2. Inv /\ Structure /\ NamesTyped /\ NodesTyped
  BY <1>1 DEF GenerateInv, Inv, Structure
<1>3. PICK t : /\ thrown = {t} /\ thrown' = {} /\ Discarded(t) /\ visited # {}
               /\ \E l : Drops(t, l)
               /\ DOMAIN nameOf' = Solid' /\ \A o \in Solid' : nameOf'[o] = nameOf[o]
               /\ renamed' = renamed \ Below(t)
  BY <1>2, AfterVisitTree
<1>4. PICK l : Drops(t, l)
  BY <1>3
<1>5. Structure'
  BY <1>2, <1>4, DropStructure
<1>6. Tree /\ Tree'
  <2>1. (NodesTyped /\ UpTyped => Tree)'
    BY TreeUnder, PTL
  <2> QED BY <1>2, <1>5, <2>1, TreeUnder DEF Structure
<1>7. /\ DOMAIN up' = DOMAIN up \ Below(t) /\ \A x \in DOMAIN up \ Below(t) : up'[x] = up[x]
      /\ Solid' = Solid \ Under(t) /\ t \in Solid \cap DOMAIN up
  BY <1>4 DEF Drops
<1>8. /\ Under(t) \subseteq Solid /\ \A x \in Solid : x \in Below(t) <=> x \in Under(t)
      /\ \A x \in DOMAIN up : x \in Below(t) <=> (x = t \/ up[x] \in Under(t))
  BY <1>2, <1>7, BelowGone
<1>9. \A x \in Solid' : (x \in DOMAIN up' <=> x \in DOMAIN up) /\ (x \in DOMAIN up => up'[x] = up[x])
  BY <1>7, <1>8
\* Names.
<1>10. NamesTyped' /\ Registered' /\ FreshNamesDiffer'
  <2>1. NamesTyped'
    BY <1>2, <1>3, <1>7 DEF NamesTyped
  <2>2. \A o \in renamed' : o \in renamed /\ o \in Solid' /\ nameOf'[o] = nameOf[o]
    BY <1>2, <1>3, <1>7, <1>8 DEF GenerateInv, Registered, NamesTyped
  <2> QED BY <1>1, <1>3, <2>1, <2>2 DEF GenerateInv, Registered, FreshNamesDiffer
<1>11. ApartStep
  <2>1. \A o \in Solid' \cap DOMAIN up : nameOf'[o] = nameOf[o] /\ up'[o] = up[o]
    BY <1>3, <1>9
  <2> QED BY <1>3, <2>1, ApartStays
\* What is not as deep as what goes stays.
<1>12. ASSUME NEW x \in Solid, Level[x.of] < Level[t.of] PROVE x \in Solid'
  <2>1. Level[x.of] \in Nat /\ Level[t.of] \in Nat
    BY <1>2, <1>7, Levels
  <2>2. x \in Under(t) => Level[t.of] <= Level[x.of]
    BY <1>6, UnderLevel DEF Tree
  <2> QED BY <1>7, <1>12, <2>1, <2>2
<1>13. design.contents \in OpenScopes /\ design.contents \in Solid
  BY <1>2, ContentsIs DEF OpenScopes, Inv
<1>14. DesignTyped'
  BY <1>1, <1>2, <1>3, <1>7, <1>12, <1>13 DEF Inv, DesignTyped, System, Discarded
<1>15. ASSUME NEW k \in 1 .. Len(work)
       PROVE  /\ Framed(k) /\ work[k].copy # NoObject /\ work[k].gen \in Solid' /\ work[k].copy \in Solid' \cap DOMAIN up
              /\ (work[k].copy = NoObject => k = Len(work)) /\ Level[design.contents.of] < Level[work[k].gen.of]
  <2>1. /\ Framed(k) /\ work[k].copy # NoObject /\ Level[work[k].gen.of] < Level[t.of]
        /\ (work[k].copy = NoObject => k = Len(work)) /\ Level[design.contents.of] < Level[work[k].gen.of]
    BY <1>2, <1>3 DEF Inv, Frames, Discarded
  <2>2. work[k].gen \in Solid /\ work[k].copy \in Solid \cap DOMAIN up /\ work[k].copy.of = work[k].gen.of
    BY <2>1 DEF Framed, FrameIs
  <2> QED BY <1>12, <2>1, <2>2
<1>16. Frames'
  <2>1. \A k : Base(k)' = Base(k)
    BY <1>1 DEF Base
  <2>2. ASSUME NEW k \in 1 .. Len(work) PROVE Framed(k)'
    BY <1>1, <1>9, <1>15, <2>1, FrameStays
  <2> QED BY <1>1, <1>2, <1>15, <2>2 DEF Inv, Frames
<1>17. OpenScopes' = OpenScopes /\ CopiesOpen' = CopiesOpen
  BY <1>1 DEF OpenScopes, CopiesOpen
<1>18. ASSUME NEW s \in OpenScopes PROVE s \in Solid /\ Generates(s)' \subseteq Generates(s)
  <2>1. s \in Solid /\ s \in Solid'
    <3>1. s \in Solid
      BY <1>2, <1>13, CopyIs DEF OpenScopes, CopiesOpen
    <3> QED BY <1>3, <1>12, <3>1 DEF Discarded
  <2>2. ASSUME NEW a \in Generates(s)' PROVE a \in Generates(s)
    <3>1. "generates" \in DOMAIN lists'[s] /\ a \in ToSet(lists'[s]["generates"]) /\ a \notin visited
      BY <1>1, <2>2 DEF Generates, Listed, ToSet
    <3>2. /\ "generates" \in DOMAIN lists[s]
          /\ \/ lists'[s]["generates"] = lists[s]["generates"]
             \/ /\ t \in ToSet(lists[s]["generates"])
                /\ lists'[s]["generates"] = RemoveAt(lists[s]["generates"], PlaceIn(lists[s]["generates"], t))
      BY <1>4, <1>7, <2>1, <3>1 DEF Drops
    <3>3. PICK list : list = lists[s]["generates"]
      OBVIOUS
    <3>4. list \in Seq(Object)
      BY <1>2, <2>1, <3>2, <3>3 DEF Structure, ListsTyped
    <3>5. a \in ToSet(list)
      BY <3>1, <3>2, <3>3, <3>4, Removed
    <3> QED BY <3>1, <3>2, <3>3, <3>5 DEF Generates, Listed
  <2> QED BY <2>1, <2>2
<1>19. Heads' \subseteq Heads
  BY <1>1, <1>17, <1>18 DEF Heads, Roots
<1>20. ASSUME NEW a PROVE Under(a)' \subseteq Under(a)
  <2>1. PICK rest : rest = Under(a) \ Under(t)
    OBVIOUS
  <2>2. ASSUME NEW x \in Solid' PROVE x \in rest <=> (x = a \/ (x \in DOMAIN up' /\ up'[x] \in rest))
    <3>1. x \in Under(a) <=> (x = a \/ (x \in DOMAIN up /\ up[x] \in Under(a)))
      BY <1>6, <1>7, UnderStep
    <3>2. x \notin Under(t) /\ x # t /\ (x \in DOMAIN up => up[x] \notin Under(t))
      BY <1>6, <1>7, UnderStep
    <3> QED BY <1>9, <2>1, <3>1, <3>2
  <2>3. rest \subseteq Solid'
    BY <1>7, <2>1 DEF Under
  <2>4. IsUnder(rest, a, up', Solid')
    BY <2>2, <2>3 DEF IsUnder
  <2>5. IsUnder(Under(a)', a, up', Solid') /\ Deepens(up', Solid')
    BY <1>6 DEF Tree
  <2>6. Under(a)' = rest
    BY <2>4, <2>5, UnderUnique
  <2> QED BY <2>1, <2>6
<1>21. HeadsApart' /\ OpenOutside'
  BY <1>2, <1>17, <1>19, <1>20, ApartKept DEF Inv
<1>22. CopiesFresh'
  <2>1. \A a, i : Reached(a, i) => Reached(a, i)'
    BY <1>1 DEF Reached
  <2> QED BY <1>2, <1>7, <1>19, <1>20, <2>1, FreshKept DEF Inv
<1>23. Inv'
  BY <1>1, <1>3, <1>5, <1>10, <1>14, <1>16, <1>21, <1>22 DEF Inv, Phases
<1>24. ThrownInv'
  BY <1>3 DEF ThrownInv
<1> QED BY <1>1, <1>10, <1>11, <1>23, <1>24 DEF GenerateInv, Renames

\* The visit ends.
LEMMA EndKeeps ==
    ASSUME GenerateInv, End
    PROVE  GenerateInv' /\ ApartStep
<1>1. UNCHANGED scopeVars /\ passes' = passes /\ renaming' = renaming /\ ~renaming /\ state' = "done"
  BY DEF End, Quiet
<1>2. Registered' /\ FreshNamesDiffer' /\ ApartStep
  BY <1>1, ScopesKept DEF GenerateInv
<1> QED BY <1>1, <1>2 DEF GenerateInv, Renames

-----------------------------------------------------------------------------
(* What is thrown away. *)

\* One node that is deeper than what the visitor is in is thrown away.
LEMMA ThrowKeeps ==
    ASSUME thrown = {}, NEW t, Throw(t), Quiet, state' = "visiting", visited' # {}, Discarded(t)'
    PROVE  ThrownInv'
BY DEF ThrownInv, Throw

\* What is visited next, if it is left where it is, is deeper than what the visitor is in.
LEMMA PassedDiscarded ==
    ASSUME GenerateInv, NEW g, NEW t, ThrowAway(t), Visitable # {}, Discarded(t)
    PROVE  ThrownInv'
<1>1. thrown = {} /\ state = "visiting"
  BY DEF Visitable
<1>2. /\ up' = up /\ lists' = lists /\ design' = design /\ work' = work /\ state' = state
      /\ visited' = visited \cup {t} /\ Throw(t) /\ Quiet
  BY DEF ThrowAway, Quiet, scopeVars, read
<1>3. Discarded(t)'
  BY <1>2 DEF Discarded, Solid, OpenScopes, CopiesOpen
<1> QED BY <1>1, <1>2, <1>3, ThrowKeeps

\* A generate that is visited is.
LEMMA GenerateDiscarded ==
    ASSUME Inv, NEW g \in Visitable, KindOf(g) \in GenerateKinds
    PROVE  Discarded(g)
<1>1. /\ g \in Solid \cap DOMAIN up /\ NextBase \in OpenScopes
      /\ Level[NextBase.of] < Level[g.of] /\ Level[g.of] \in Nat
      /\ \A s \in OpenScopes : Level[s.of] <= Level[NextBase.of] /\ Level[s.of] \in Nat
      /\ \A k \in 1 .. Len(work) : work[k].copy # NoObject /\ Level[work[k].gen.of] < Level[g.of]
  BY VisitableIs
<1>2. \A s \in OpenScopes : Level[s.of] < Level[g.of]
  BY <1>1
<1> QED BY <1>1, <1>2 DEF Discarded, GenerateKinds

\* And so is what is inside it.
LEMMA UselessDiscarded ==
    ASSUME Inv, NEW g \in Visitable, KindOf(g) \in GenerateKinds, NEW o \in Useless(g)
    PROVE  Discarded(o)
<1>1. Discarded(g)
  BY GenerateDiscarded
<1>2. Structure /\ NodesTyped /\ Tree
  BY TreeUnder DEF Inv, Structure
<1>3. o \in Below(g) /\ o # g /\ KindOf(o) = "ForGenerate"
  BY DEF Useless
<1>4. Below(g) \subseteq Nodes /\ \A x \in Below(g) : x \in DOMAIN up
  BY <1>1, <1>2, BelowGone DEF Discarded
<1>5. o \in Solid \cap DOMAIN up /\ o \in Under(g)
  BY <1>2, <1>3, <1>4 DEF NodesTyped, Under
<1>6. Level[g.of] <= Level[o.of]
  BY <1>2, <1>5, UnderLevel DEF Tree
<1>7. g \in Solid /\ Level[g.of] \in Nat /\ Level[o.of] \in Nat
  BY <1>1, <1>2, <1>5, Levels DEF Discarded
<1>8. design.contents \in Solid
  BY DEF Inv, DesignTyped
<1>9. \A s \in OpenScopes : s \in Solid /\ Level[s.of] \in Nat /\ Level[s.of] < Level[g.of]
  BY <1>1, <1>2, <1>8, CopyIs, Levels DEF OpenScopes, CopiesOpen, Discarded
<1>10. ASSUME NEW k \in 1 .. Len(work) PROVE work[k].copy # NoObject /\ Level[work[k].gen.of] < Level[o.of]
  <2>1. work[k].copy # NoObject /\ Level[work[k].gen.of] < Level[g.of]
    BY <1>1 DEF Discarded
  <2>2. Level[work[k].gen.of] \in Nat
    BY <2>1, CopyIs
  <2> QED BY <1>6, <1>7, <2>1, <2>2
<1>11. \A s \in OpenScopes : Level[s.of] < Level[o.of]
  BY <1>6, <1>7, <1>9
<1> QED BY <1>3, <1>5, <1>10, <1>11 DEF Discarded

\* So is a loop.
LEMMA LoopDiscarded ==
    ASSUME Inv, NEW f \in Visitable, KindOf(f) = "For"
    PROVE  Discarded(f)
<1>1. /\ work = <<>> /\ f \in Solid \cap DOMAIN up /\ up[f] = design.contents /\ Level[up[f].of] < Level[f.of]
  BY LoopIs
<1>2. Len(work) = 0 /\ OpenScopes \subseteq {design.contents}
  BY <1>1 DEF OpenScopes, CopiesOpen
<1> QED BY <1>1, <1>2 DEF Discarded

\* The visits throw away one node.
LEMMA VisitThrows ==
    ASSUME GenerateInv, ThrownInv, PreVisit \/ VisitForGenerate \/ VisitIfGenerate \/ Unroll
    PROVE  ThrownInv'
<1>1. CASE PreVisit
  <2>1. PICK g \in Visitable : KindOf(g) \in GenerateKinds /\ \E o \in Useless(g) : ThrowAway(o)
    BY <1>1 DEF PreVisit, GenerateKinds
  <2>2. PICK o \in Useless(g) : ThrowAway(o)
    BY <2>1
  <2>3. Inv
    BY <2>1 DEF GenerateInv, Visitable
  <2> QED BY <2>1, <2>2, <2>3, UselessDiscarded, PassedDiscarded
<1>2. ASSUME NEW g \in Visitable, thrown' = thrown PROVE ThrownInv'
  BY <1>2 DEF Visitable, ThrownInv
<1>3. ASSUME NEW g \in Visitable, KindOf(g) \in GenerateKinds, ThrowAway(g) PROVE ThrownInv'
  <2>1. Inv
    BY DEF GenerateInv, Visitable
  <2> QED BY <1>3, <2>1, GenerateDiscarded, PassedDiscarded
<1>4. CASE VisitForGenerate
  <2>1. PICK g \in Visitable : KindOf(g) = "ForGenerate" /\ (ThrowAway(g) \/ thrown' = thrown)
    BY <1>4, Zenon DEF VisitForGenerate, Assertion, Skip, Begin
  <2> QED BY <1>2, <1>3, <2>1 DEF GenerateKinds
<1>5. CASE VisitIfGenerate
  <2>1. PICK g \in Visitable : KindOf(g) = "IfGenerate" /\ (ThrowAway(g) \/ thrown' = thrown)
    BY <1>5, Zenon DEF VisitIfGenerate, Skip, Begin
  <2> QED BY <1>2, <1>3, <2>1 DEF GenerateKinds
<1>6. CASE Unroll
  <2>1. PICK f \in Visitable : KindOf(f) = "For" /\ (ThrowAway(f) \/ Assertion(f) \/ Skip(f) \/ UnrolledTo(f))
    BY <1>6, UnrollCases
  <2>2. ThrowAway(f) \/ thrown' = thrown
    BY <2>1 DEF Assertion, Skip, UnrolledTo
  <2>3. Inv
    BY DEF GenerateInv, Visitable
  <2> QED BY <1>2, <2>1, <2>2, <2>3, LoopDiscarded, PassedDiscarded
<1> QED BY <1>1, <1>4, <1>5, <1>6

\* A generate that has been expanded is deeper than what is still being expanded.
LEMMA FinishThrows ==
    ASSUME GenerateInv, Finish
    PROVE  ThrownInv'
<1>1. /\ work # <<>> /\ state = "visiting" /\ thrown = {} /\ work' = Front(work) /\ Quiet /\ Throw(Top.gen)
      /\ visited' = visited /\ state' = state
      /\ Top.copy = NoObject \/ Top.copy = Top.gen
  BY DEF Finish
<1>2. Inv /\ Frames
  BY <1>1 DEF GenerateInv, Inv
<1>3. PICK n : n = Len(work)
  OBVIOUS
<1>4. n \in Nat /\ n > 0 /\ Top = work[n] /\ n \in 1 .. n
  BY <1>1, <1>2, <1>3, WorkIs
<1>5. Len(work') = n - 1 /\ \A k \in 1 .. n - 1 : work'[k] = work[k]
  <2>1. work \in Seq(FrameType) /\ \A k \in 1 .. n - 1 : work[k] \in FrameType
    BY <1>2, <1>3, <1>4, WorkIs DEF Frames
  <2>2. work' = SubSeq(work, 1, n - 1)
    BY <1>1, <1>3 DEF Front
  <2>3. /\ Len(work') = IF 1 <= n - 1 THEN n - 1 - 1 + 1 ELSE 0
        /\ \A k \in 1 .. n - 1 - 1 + 1 : work'[k] = work[1 + k - 1]
    BY <1>4, <2>1, <2>2, SubSeqProperties
  <2> QED BY <1>4, <2>3
<1>6. PICK t : t = Top.gen
  OBVIOUS
<1>7. t \in visited /\ t \in Solid \cap DOMAIN up /\ KindOf(t) \in GenerateKinds /\ Level[design.contents.of] < Level[t.of]
  <2>1. FrameIs(work[n], Base(n)) /\ Level[design.contents.of] < Level[work[n].gen.of]
    BY <1>2, <1>3, <1>4 DEF Frames, Framed
  <2> QED BY <1>1, <1>4, <1>6, <2>1 DEF FrameIs
<1>8. ASSUME NEW k \in 1 .. n - 1 PROVE work[k].copy # NoObject /\ Level[work[k].gen.of] < Level[t.of]
  <2>1. k \in 1 .. n /\ k < n
    BY <1>4
  <2> QED BY <1>2, <1>3, <1>4, <1>6, <2>1 DEF Frames
<1>9. up' = up /\ lists' = lists /\ design' = design
  BY <1>1 DEF Quiet, scopeVars, read
<1>10. ASSUME NEW s \in OpenScopes' PROVE Level[s.of] < Level[t.of]
  <2>1. CASE s = design.contents
    BY <1>7, <2>1
  <2>2. CASE s # design.contents
    <3>1. PICK k \in 1 .. n - 1 : s = work[k].copy
      BY <1>5, <1>9, <2>2 DEF OpenScopes, CopiesOpen
    <3>2. k \in 1 .. Len(work) /\ work[k].copy # NoObject /\ Level[work[k].gen.of] < Level[t.of]
      BY <1>3, <1>4, <1>8
    <3> QED BY <1>2, <3>1, <3>2, CopyIs
  <2> QED BY <2>1, <2>2
<1>11. Discarded(t)'
  BY <1>5, <1>7, <1>8, <1>9, <1>10 DEF Discarded, Solid, GenerateKinds
<1>12. visited' # {} /\ state' = "visiting" /\ Throw(t)
  BY <1>1, <1>6, <1>7
<1> QED BY <1>1, <1>11, <1>12, ThrowKeeps

\* Every step keeps what is in the trash out of what the visitor is in.
LEMMA ThrownKeeps ==
    ASSUME GenerateInv, ThrownInv, [GenerateNext]_allVars
    PROVE  ThrownInv'
<1>1. ASSUME thrown = {}, thrown' = thrown PROVE ThrownInv'
  BY <1>1 DEF ThrownInv
<1>2. visited = {} => thrown = {}
  BY DEF ThrownInv
<1>3. CASE MovePass \/ RenamePass \/ ForPass \/ ConflictPass \/ RenameNext
  <2>1. visited = {}
    BY <1>3 DEF MovePass, RenamePass, ForPass, ConflictPass, RenameNext, Starts, Resting, GenerateInv, Renames
  <2>2. thrown' = thrown
    BY <1>3 DEF MovePass, RenamePass, ForPass, ConflictPass, RenameNext, PassVars, visitVars
  <2> QED BY <1>1, <1>2, <2>1, <2>2
<1>4. CASE PreVisit \/ VisitForGenerate \/ VisitIfGenerate \/ Unroll
  BY <1>4, VisitThrows
<1>5. CASE Copy \/ Move \/ Restore \/ End
  <2>1. thrown = {} /\ thrown' = thrown
    BY <1>5, Zenon DEF Copy, Move, Restore, Moving, End, visitVars
  <2> QED BY <1>1, <2>1
<1>6. CASE Finish
  BY <1>6, FinishThrows
<1>7. CASE AfterVisit
  BY <1>7, AfterVisitKeeps
<1>8. CASE UNCHANGED allVars
  <2>1. /\ up' = up /\ lists' = lists /\ design' = design /\ work' = work /\ visited' = visited
        /\ thrown' = thrown /\ state' = state
    BY <1>8 DEF allVars, scopeVars, read, visitVars
  <2> QED BY <2>1 DEF ThrownInv, Discarded, Solid, OpenScopes, CopiesOpen
<1> QED BY <1>3, <1>4, <1>5, <1>6, <1>7, <1>8 DEF GenerateNext

\* Nothing happens.
LEMMA StutterKeeps ==
    ASSUME GenerateInv, UNCHANGED allVars
    PROVE  GenerateInv' /\ ApartStep
<1>1. UNCHANGED scopeVars
  BY DEF allVars
<1>2. Quiet
  BY DEF allVars, Quiet
<1>3. work' = work /\ visited' = visited /\ state' = state /\ passes' = passes /\ renaming' = renaming
  BY DEF allVars, visitVars
<1>4. Registered' /\ FreshNamesDiffer' /\ ApartStep
  BY <1>1, ScopesKept DEF GenerateInv
<1>5. ASSUME state = "visiting" PROVE Inv'
  <2>1. Inv
    BY <1>5 DEF GenerateInv
  <2>2. UNCHANGED <<up, lists, nameOf, design, work, visited>>
    BY <1>1, <1>2, <1>3 DEF scopeVars, Quiet, read
  <2>3. (Inv <=> Inv')
    BY <2>2 DEF Inv, Structure, NodesTyped, UpTyped, ListsTyped, InOneList, Placed, NamesTyped, DesignTyped, Frames,
        HeadsApart, OpenOutside, CopiesFresh, Phases, Solid, Under, Nodes, Below, System, Fits, Framed, FrameIs, Base, Heads, Roots, OpenScopes,
        CopiesOpen, Generates, Listed, Reached
  <2> QED BY <2>1, <2>3
<1> QED BY <1>3, <1>4, <1>5 DEF GenerateInv, Renames

\* A design that has been read is a tree, and nothing is a copy.
LEMMA DesignStructure ==
    ASSUME NEW d, IsDesign(d), up = d.up, lists = d.lists, nameOf = d.names
    PROVE  Structure /\ NamesTyped /\ \A o \in Solid : o.at = <<>>
<1>1. /\ \A o \in Nodes :
            /\ o.of \in DOMAIN Kind /\ o = [of |-> o.of, at |-> <<>>] /\ o # NoObject
            /\ o \in Solid <=> KindOf(o) # "Reference"
      /\ \A o \in DOMAIN up : up[o] \in Solid /\ Level[up[o].of] < Level[o.of]
      /\ DOMAIN nameOf = Solid
      /\ \A o \in Solid : nameOf[o] \in (IF KindOf(o) \in DeclarationKinds THEN Name ELSE {Nameless})
  BY DEF IsDesign, Nodes, Solid
<1>2. /\ \A s \in Solid :
            /\ KindOf(s) \in DOMAIN ContentOf /\ DOMAIN lists[s] = DOMAIN ContentOf[KindOf(s)]
            /\ \A l \in DOMAIN lists[s] :
                  /\ lists[s][l] \in Seq(DOMAIN up) /\ IsInjective(lists[s][l])
                  /\ \A o \in ToSet(lists[s][l]) : up[o] = s /\ KindOf(o) \in ContentOf[KindOf(s)][l]
                  /\ \A m \in DOMAIN lists[s] : l # m => ToSet(lists[s][l]) \cap ToSet(lists[s][m]) = {}
      /\ \A o \in DOMAIN up : KindOf(o) \notin {"Contents", "Reference"} =>
            \E l \in DOMAIN lists[up[o]] : o \in ToSet(lists[up[o]][l])
  <2>1. ASSUME NEW s \in Solid
        PROVE  KindOf(s) \in DOMAIN ContentOf /\ DOMAIN lists[s] = DOMAIN ContentOf[KindOf(s)]
    BY Zenon DEF IsDesign, Solid
  <2>2. ASSUME NEW s \in Solid, NEW l \in DOMAIN lists[s]
        PROVE  /\ lists[s][l] \in Seq(DOMAIN up) /\ IsInjective(lists[s][l])
               /\ \A o \in ToSet(lists[s][l]) : up[o] = s /\ KindOf(o) \in ContentOf[KindOf(s)][l]
    BY Zenon DEF IsDesign, Solid
  <2>3. ASSUME NEW s \in Solid, NEW l \in DOMAIN lists[s], NEW m \in DOMAIN lists[s], l # m
        PROVE  ToSet(lists[s][l]) \cap ToSet(lists[s][m]) = {}
    BY <2>3, Zenon DEF IsDesign, Solid
  <2>4. ASSUME NEW o \in DOMAIN up, KindOf(o) \notin {"Contents", "Reference"}
        PROVE  \E l \in DOMAIN lists[up[o]] : o \in ToSet(lists[up[o]][l])
    BY <2>4, Zenon DEF IsDesign
  <2> QED BY <2>1, <2>2, <2>3, <2>4, ZenonT(60)
<1>3. \A o \in Nodes : o \in Object /\ o.at = <<>>
  <2>1. <<>> \in Seq(Int)
    OBVIOUS
  <2> SUFFICES ASSUME NEW o \in Nodes PROVE o \in Object /\ o.at = <<>>
    OBVIOUS
  <2>2. PICK n \in DOMAIN Kind : o = [of |-> n, at |-> <<>>]
    BY <1>1
  <2> QED BY <2>1, <2>2 DEF Object
<1>4. NodesTyped /\ UpTyped
  BY <1>1, <1>3 DEF NodesTyped, UpTyped
<1>5. ListsTyped
  <2> SUFFICES ASSUME NEW s \in Solid, NEW l \in DOMAIN lists[s]
               PROVE  /\ lists[s][l] \in Seq(Object)
                      /\ \A x \in ToSet(lists[s][l]) :
                            Fits(x, s, l) /\ (KindOf(x) # "Reference" => Once(lists[s][l], x))
    BY <1>2 DEF ListsTyped
  <2>1. PICK list : list = lists[s][l]
    OBVIOUS
  <2>2. /\ list \in Seq(DOMAIN up) /\ IsInjective(list)
        /\ \A o \in ToSet(list) : up[o] = s /\ KindOf(o) \in ContentOf[KindOf(s)][l]
    BY <1>2, <2>1
  <2>3. DOMAIN up \subseteq Object /\ DOMAIN up \subseteq Nodes
    BY <1>3 DEF Nodes
  <2>4. list \in Seq(Object)
    BY <2>2, <2>3, SeqMonotonic
  <2>5. \A x \in ToSet(list) : x \in DOMAIN up
    <3>1. DOMAIN list = 1 .. Len(list)
      BY <2>2, LenProperties
    <3> QED BY <2>2, <3>1, ElementOfSeq DEF ToSet
  <2>6. \A x \in ToSet(list) : Fits(x, s, l)
    BY <1>1, <2>2, <2>3, <2>5 DEF Fits
  <2>7. \A x : Once(list, x)
    BY <2>2 DEF IsInjective, Once
  <2> QED BY <2>1, <2>4, <2>6, <2>7
<1>6. InOneList
  <2> SUFFICES ASSUME NEW s \in Solid, NEW l \in DOMAIN lists[s], NEW m \in DOMAIN lists[s], l # m,
                      NEW x \in ToSet(lists[s][l]) \cap ToSet(lists[s][m])
               PROVE  FALSE
    BY DEF InOneList
  <2>1. ToSet(lists[s][l]) \cap ToSet(lists[s][m]) = {}
    BY <1>2
  <2> QED BY <2>1
<1>7. Placed
  BY <1>2 DEF Placed
<1>8. NamesTyped
  BY <1>1, NamesAreSequences DEF NamesTyped
<1>9. \A o \in Solid : o.at = <<>>
  BY <1>3 DEF Nodes, Solid
<1> QED BY <1>4, <1>5, <1>6, <1>7, <1>8, <1>9 DEF Structure

\* A design that is read has the invariant.
LEMMA InitKeeps ==
    ASSUME GenerateInit
    PROVE  GenerateInv
<1>1. PICK d : d = design
  OBVIOUS
<1>2. IsDesign(d)
  BY <1>1, DesignAssumption DEF GenerateInit
<1>3. /\ up = d.up /\ lists = d.lists /\ nameOf = d.names /\ renamed = {} /\ passes = 0 /\ renaming = FALSE
      /\ visited = {} /\ work = <<>> /\ state = "visiting"
  BY <1>1, Zenon DEF GenerateInit
<1>4. Structure /\ NamesTyped /\ \A o \in Solid : o.at = <<>>
  BY <1>2, <1>3, DesignStructure
<1>5. DesignTyped
  BY <1>1, <1>2, <1>3 DEF IsDesign, DesignTyped, System, Solid
<1>6. Inv
  BY <1>3, <1>4, <1>5, UncopiedInv DEF Uncopied, Rested
<1> QED BY <1>3, <1>6 DEF GenerateInv, Renames, Registered, FreshNamesDiffer

\* Every step keeps the invariant, and names apart.
LEMMA StepKeeps == GenerateInv /\ ThrownInv /\ [GenerateNext]_allVars => GenerateInv' /\ ThrownInv' /\ ApartStep
<1> SUFFICES ASSUME GenerateInv, ThrownInv, [GenerateNext]_allVars PROVE GenerateInv' /\ ApartStep
  BY ThrownKeeps
<1>1. CASE MovePass
  BY <1>1, MovePassKeeps
<1>2. CASE RenamePass
  BY <1>2, RenamePassKeeps
<1>3. CASE ForPass
  BY <1>3, ForPassKeeps
<1>4. CASE ConflictPass
  BY <1>4, ConflictPassKeeps
<1>5. CASE RenameNext
  BY <1>5, RenameNextKeeps
<1>6. CASE VisitForGenerate
  BY <1>6, VisitForKeeps
<1>7. CASE VisitIfGenerate
  BY <1>7, VisitIfKeeps
<1>8. CASE Unroll
  BY <1>8, UnrollKeeps
<1>9. CASE Copy
  BY <1>9, CopyKeeps
<1>10. CASE Move
  BY <1>10, MoveKeeps
<1>11. CASE Restore
  BY <1>11, RestoreKeeps
<1>12. CASE Finish
  BY <1>12, FinishKeeps
<1>13. CASE AfterVisit
  BY <1>13, AfterVisitKeeps
<1>14. CASE End
  BY <1>14, EndKeeps
<1>15. CASE PreVisit
  BY <1>15, PreVisitKeeps
<1>16. CASE UNCHANGED allVars
  BY <1>16, StutterKeeps
<1> QED BY <1>1, <1>2, <1>3, <1>4, <1>5, <1>6, <1>7, <1>8, <1>9, <1>10, <1>11, <1>12, <1>13, <1>14, <1>15, <1>16
           DEF GenerateNext

\* Every state that the passes, the expansion and the unrolling reach satisfies the inductive
\* invariant, whatever the design that is read (moveToScope.cpp, moveDeclaration.cpp,
\* simplify.cpp).
THEOREM GenerateInductive == GenerateSpec => [](GenerateInv /\ ThrownInv)
<1>1. GenerateInit => GenerateInv /\ ThrownInv
  <2>1. GenerateInit => thrown = {}
    BY Zenon DEF GenerateInit
  <2> QED BY <2>1, InitKeeps DEF ThrownInv
<1>2. GenerateInv /\ ThrownInv /\ [GenerateNext]_allVars => (GenerateInv /\ ThrownInv)'
  BY StepKeeps
<1> QED BY <1>1, <1>2, PTL DEF GenerateSpec

\* A fresh name is never given twice and never to two declarations, whatever is moved, copied
\* and deleted in between (NameTable.cpp:96, moveToScope.cpp:100, simplify.cpp:4287).
THEOREM FreshNamesStayApart == GenerateSpec => []FreshNamesDiffer
<1>1. GenerateInv => FreshNamesDiffer
  BY DEF GenerateInv
<1> QED BY <1>1, GenerateInductive, PTL

\* While the visitor runs, each object is in one list of its parent, one that its class may be
\* in, and is below no other: neither a move, nor the copy that takes the place of a generate,
\* nor the generate that comes back, nor an unrolled loop leaves an object in two places or
\* in none (moveToScope.cpp:363, simplify.cpp:4303, 1252).
THEOREM TreeStays == GenerateSpec => [](state = "visiting" => Structure)
<1>1. GenerateInv => (state = "visiting" => Structure)
  BY DEF GenerateInv, Inv
<1> QED BY <1>1, GenerateInductive, PTL

\* A generate that may still be copied has copies only at the values its index has reached: no
\* iteration of it, nor of the generates nested in it, makes again the copy that an earlier
\* one has moved out (simplify.cpp:4287).
THEOREM CopiesNeverMeet == GenerateSpec => [](state = "visiting" => CopiesFresh)
<1>1. GenerateInv => (state = "visiting" => CopiesFresh)
  BY DEF GenerateInv, Inv
<1> QED BY <1>1, GenerateInductive, PTL

\* What has been thrown away is still allocated when AfterVisit() empties the trash: neither a
\* copy that is deleted with the generates that were in it, nor a loop that is unrolled, nor
\* what goes with the generate around it takes along what the trash holds, whatever the design
\* and the nesting (simplify.cpp:4390, 4393, 4435, 6584).
THEOREM TrashStaysAllocated == GenerateSpec => []ThrownAllocated
<1>1. ThrownInv => ThrownAllocated
  BY DEF ThrownInv, Discarded, ThrownAllocated, Solid
<1> QED BY <1>1, GenerateInductive, PTL

\* What is moved or renamed does not get the name of anything else in the scope that it comes
\* to, whatever the order of moves, copies and suffixes, but for the two exceptions that
\* NamesApart names (moveToScope.cpp:100, moveDeclaration.cpp:50).
THEOREM NamesStayApart == GenerateSpec => NamesApart
<1>1. GenerateInv /\ ThrownInv /\ [GenerateNext]_allVars => [ApartStep]_allVars
  BY StepKeeps
<1>2. GenerateSpec => [][ApartStep]_allVars
  BY <1>1, GenerateInductive, PTL DEF GenerateSpec
<1> QED BY <1>2 DEF NamesApart, ApartStep

-----------------------------------------------------------------------------
(* The iterations that are counted are those that the loop runs through. *)

\* A loop over d + 1 integers in steps of inc.
LEMMA StepsWithin ==
    ASSUME NEW d \in Int, NEW inc \in Int, inc > 0, NEW loops, loops = IF d < 0 THEN 0 ELSE d \div inc + 1,
           NEW k \in Nat
    PROVE  loops \in Nat /\ (k * inc <= d <=> k < loops)
<1>1. CASE d < 0
  <2>1. k * inc >= 0 /\ k * inc \in Int
    OBVIOUS
  <2> QED BY <1>1, <2>1
<1>2. CASE d >= 0
  <2>1. PICK q : q = d \div inc
    OBVIOUS
  <2>2. q \in Nat /\ inc * q <= d /\ d < inc * q + inc
    BY <1>2, <2>1, QuotientNat
  <2>3. loops = q + 1
    BY <1>2, <2>1
  <2>4. ASSUME k <= q PROVE k * inc <= d
    <3>1. k * inc <= q * inc /\ q * inc = inc * q /\ k * inc \in Int /\ q * inc \in Int
      BY <2>2, <2>4
    <3> QED BY <2>2, <3>1
  <2>5. ASSUME k > q PROVE ~(k * inc <= d)
    <3>1. k >= q + 1
      BY <2>2, <2>5
    <3>2. k * inc >= (q + 1) * inc /\ (q + 1) * inc = inc * q + inc /\ k * inc \in Int /\ inc * q \in Int
      BY <2>2, <3>1
    <3> QED BY <2>2, <3>2
  <2> QED BY <2>2, <2>3, <2>4, <2>5
<1> QED BY <1>1, <1>2

\* The values, when each is a fixed distance from the one before.
LEMMA ValuesInSteps ==
    ASSUME NEW h, h.init \in Int, NEW by \in Int, \A i \in Int : Advance(h, i) = i + by, NEW n \in Nat
    PROVE  \A k \in 1 .. n : ValuesOf(h, n)[k] = h.init + (k - 1) * by
<1>1. PICK v : v = ValuesOf(h, n)
  OBVIOUS
<1>2. \A k \in 1 .. n : v[k] = IF k = 1 THEN h.init ELSE Advance(h, v[k - 1])
  BY <1>1, ValuesAre
<1> DEFINE bad == {k \in 1 .. n : v[k] # h.init + (k - 1) * by}
<1>3. ASSUME bad # {} PROVE FALSE
  <2>1. bad \in SUBSET Nat
    OBVIOUS
  <2>2. PICK m \in bad : \A k \in bad : m <= k
    BY <1>3, <2>1, LeastNat
  <2>3. CASE m = 1
    <3>1. v[m] = h.init /\ (m - 1) * by = 0
      BY <1>2, <2>3
    <3> QED BY <2>3, <3>1
  <2>4. CASE m # 1
    <3>1. m \in 1 .. n /\ m - 1 \in 1 .. n /\ m - 1 \notin bad
      BY <2>2, <2>4
    <3>2. v[m - 1] = h.init + (m - 1 - 1) * by
      BY <3>1
    <3>3. v[m - 1] \in Int
      BY <3>1, <3>2
    <3>4. v[m] = v[m - 1] + by
      BY <1>2, <2>4, <3>1, <3>3
    <3>5. (m - 1 - 1) * by + by = (m - 1) * by
      BY <3>1
    <3>6. v[m] = h.init + (m - 1) * by
      BY <3>1, <3>2, <3>4, <3>5
    <3> QED BY <3>6
  <2> QED BY <2>3, <2>4
<1> QED BY <1>1, <1>3

\* The header of a loop whose step the visitor accepts and can count.
Counted(h) ==
    /\ h \in HeaderType /\ ResolveForLoopBound(h).resolved /\ ~StepAsserts(h, TRUE)
    /\ h.stepOp \in {"none", "plus", "minus"} /\ (h.condition \in Ranges => h.stepOp = "none")

\* The last value that the condition of a loop lets its index have, and the step to the next.
Rises(h) == h.condition \in Upward \cup {"upto"}
Furthest(h) ==
    CASE h.condition = "lt" -> h.bound - 1
      [] h.condition = "gt" -> h.bound + 1
      [] OTHER -> h.bound
Span(h) == IF Rises(h) THEN Furthest(h) - h.init ELSE h.init - Furthest(h)

\* What is computed for a loop: as many iterations as steps fit between the init value and
\* the furthest one, and its bounds; and what the loop itself does.
LEMMA CountedIs ==
    ASSUME NEW h, Counted(h), NEW b, b = ResolveForLoopBound(h)
    PROVE  /\ b.step \in Int /\ b.step > 0 /\ h.init \in Int /\ Furthest(h) \in Int
           /\ b.loops = (IF Span(h) < 0 THEN 0 ELSE Span(h) \div b.step + 1)
           /\ b.loops > 0 => /\ Rises(h) => b.min = h.init /\ b.max = h.init + (b.loops - 1) * b.step
                             /\ ~Rises(h) => b.max = h.init /\ b.min = h.init - (b.loops - 1) * b.step
           /\ \A i \in Int : Advance(h, i) = IF Rises(h) THEN i + b.step ELSE i + (0 - b.step)
           /\ \A i \in Int : Holds(h, i) <=> IF Rises(h) THEN i <= Furthest(h) ELSE i >= Furthest(h)
<1>1. /\ h \in HeaderType /\ h.init \in Int /\ h.bound \in Int /\ h.step \in Int
      /\ b.resolved /\ ~Unresolved.resolved
      /\ h.stepOp \in {"none", "plus", "minus"} /\ (h.condition \in Ranges => h.stepOp = "none")
      /\ ~StepAsserts(h, TRUE)
  BY DEF Counted, HeaderType, Unresolved
<1>2. Furthest(h) \in Int
  BY <1>1 DEF Furthest
<1>3. CASE h.condition \in Ranges
  <2>1. b = RangeCase(h)
    BY <1>1, <1>3 DEF ResolveForLoopBound
  <2>2. PICK width : width = 1 + (IF h.condition = "upto" THEN h.bound - h.init ELSE h.init - h.bound)
    OBVIOUS
  <2>3. PICK low : low = IF h.condition = "upto" THEN h.init ELSE h.bound
    OBVIOUS
  <2>4. RangeCase(h) = IF width <= 0 THEN Unresolved
                       ELSE [resolved |-> TRUE, loops |-> width, min |-> low, max |-> low + width - 1, step |-> 1]
    BY <2>2, <2>3 DEF RangeCase
  <2>5. b = [resolved |-> TRUE, loops |-> width, min |-> low, max |-> low + width - 1, step |-> 1] /\ ~(width <= 0)
    BY <1>1, <2>1, <2>4
  <2>6. h.condition \in {"upto", "downto"} /\ (Rises(h) <=> h.condition = "upto") /\ Furthest(h) = h.bound
    BY <1>3 DEF Ranges, Rises, Upward, Furthest
  <2>7. Span(h) = width - 1
    BY <1>1, <2>2, <2>6 DEF Span
  <2>8. width \in Int /\ \A d \in Int : d \div 1 = d
    BY <1>1, <2>2
  <2>9. \A i \in Int : Advance(h, i) = IF Rises(h) THEN i + 1 ELSE i + (0 - 1)
    BY <1>1, <1>3, <2>6 DEF Advance, Downward
  <2>10. \A i \in Int : Holds(h, i) <=> IF Rises(h) THEN i <= Furthest(h) ELSE i >= Furthest(h)
    BY <1>1, <2>6 DEF Holds
  <2>11. Rises(h) => low = h.init /\ low + width - 1 = h.init + (width - 1)
    BY <1>1, <2>2, <2>3, <2>6
  <2>12. ~Rises(h) => low = h.init - (width - 1) /\ low + width - 1 = h.init
    BY <1>1, <2>2, <2>3, <2>6
  <2>13. b.loops = width /\ b.step = 1 /\ b.min = low /\ b.max = low + width - 1
    BY <2>5
  <2>14. (b.loops - 1) * b.step = width - 1
    BY <2>8, <2>13
  <2> QED BY <1>1, <1>2, <2>5, <2>7, <2>8, <2>9, <2>10, <2>11, <2>12, <2>13, <2>14
<1>4. CASE h.condition \notin Ranges
  <2>1. b = CalculateIterations(h)
    BY <1>1, <1>4 DEF ResolveForLoopBound
  <2>2. PICK inc : inc = Increment(h)
    OBVIOUS
  <2>3. inc \in Int /\ Distance(h) \in Int
    BY <1>1, <2>2 DEF Increment, Distance
  <2>4. PICK loops : loops = IF Distance(h) < 0 \/ (Distance(h) = 0 /\ ~Inclusive(h)) THEN 0
                             ELSE (IF Inclusive(h) THEN Distance(h) ELSE Distance(h) - 1) \div inc + 1
    OBVIOUS
  <2>5. PICK reach : reach = IF loops = 0 THEN 0 ELSE (loops - 1) * inc
    OBVIOUS
  <2>6. CalculateIterations(h) =
          IF inc <= 0 \/ h.condition \notin Upward \cup Downward THEN Unresolved
          ELSE [resolved |-> TRUE, loops |-> loops,
                min |-> IF h.condition \in Upward THEN h.init ELSE h.init - reach,
                max |-> IF h.condition \in Upward THEN h.init + reach ELSE h.init,
                step |-> inc]
    BY <2>2, <2>4, <2>5 DEF CalculateIterations
  <2>7. /\ inc > 0 /\ h.condition \in Upward \cup Downward
        /\ b = [resolved |-> TRUE, loops |-> loops,
                min |-> IF h.condition \in Upward THEN h.init ELSE h.init - reach,
                max |-> IF h.condition \in Upward THEN h.init + reach ELSE h.init,
                step |-> inc]
    BY <1>1, <2>1, <2>3, <2>6
  <2>8. b.loops = loops /\ b.step = inc
    BY <2>7
  <2>9. h.condition \in {"lt", "le", "gt", "ge"} /\ (Rises(h) <=> h.condition \in Upward)
        /\ (Rises(h) <=> h.condition \in {"lt", "le"})
    BY <2>7 DEF Upward, Downward, Rises
  <2>10. Span(h) = IF Inclusive(h) THEN Distance(h) ELSE Distance(h) - 1
    BY <1>1, <2>9 DEF Span, Furthest, Inclusive, Distance
  <2>11. loops = IF Span(h) < 0 THEN 0 ELSE Span(h) \div inc + 1
    BY <2>3, <2>4, <2>10
  <2>12. \A i \in Int : Advance(h, i) = IF Rises(h) THEN i + inc ELSE i + (0 - inc)
    <3>1. CASE h.stepOp = "plus"
      <4>1. Rises(h) /\ inc = h.step
        BY <1>1, <1>4, <2>2, <2>9, <3>1 DEF StepAsserts, Increment
      <4>2. \A i \in Int : Advance(h, i) = i + h.step
        BY <1>1, <3>1 DEF Advance, Downward
      <4> QED BY <4>1, <4>2
    <3>2. CASE h.stepOp = "minus"
      <4>1. ~Rises(h) /\ inc = h.step
        BY <1>1, <1>4, <2>2, <2>9, <3>2 DEF StepAsserts, Increment, Downward
      <4>2. \A i \in Int : Advance(h, i) = i - h.step
        BY <1>1, <3>2 DEF Advance, Downward
      <4>3. \A i \in Int : i - h.step = i + (0 - h.step)
        BY <1>1
      <4> QED BY <4>1, <4>2, <4>3
    <3>3. CASE h.stepOp = "none"
      <4>1. inc = 1
        BY <2>2, <3>3 DEF Increment
      <4>2. \A i \in Int : Advance(h, i) = IF h.condition \in Downward \cup {"downto"} THEN i - 1 ELSE i + 1
        BY <3>3 DEF Advance
      <4>3. Rises(h) <=> h.condition \notin Downward \cup {"downto"}
        BY <2>9 DEF Downward
      <4>4. \A i \in Int : i - 1 = i + (0 - 1)
        OBVIOUS
      <4> QED BY <4>1, <4>2, <4>3, <4>4
    <3> QED BY <1>1, <3>1, <3>2, <3>3
  <2>13. \A i \in Int : Holds(h, i) <=> IF Rises(h) THEN i <= Furthest(h) ELSE i >= Furthest(h)
    BY <1>1, <2>9 DEF Holds, Furthest
  <2>14. b.loops > 0 => reach = (b.loops - 1) * b.step
    BY <2>5, <2>8
  <2>15. b.min = (IF h.condition \in Upward THEN h.init ELSE h.init - reach)
         /\ b.max = (IF h.condition \in Upward THEN h.init + reach ELSE h.init)
    BY <2>7
  <2> QED BY <1>1, <1>2, <2>3, <2>7, <2>8, <2>9, <2>11, <2>12, <2>13, <2>14, <2>15
<1> QED BY <1>3, <1>4

\* The condition lets the index have a value as often as iterations are counted.
LEMMA HoldsAsCounted ==
    ASSUME NEW h, Counted(h), NEW b, b = ResolveForLoopBound(h), NEW by,
           by = (IF Rises(h) THEN b.step ELSE 0 - b.step), NEW k \in Nat, k > 0
    PROVE  by \in Int /\ b.loops \in Nat /\ (Holds(h, h.init + (k - 1) * by) <=> k <= b.loops)
<1>1. /\ b.step \in Int /\ b.step > 0 /\ h.init \in Int /\ Furthest(h) \in Int
      /\ b.loops = (IF Span(h) < 0 THEN 0 ELSE Span(h) \div b.step + 1)
      /\ \A i \in Int : Holds(h, i) <=> IF Rises(h) THEN i <= Furthest(h) ELSE i >= Furthest(h)
  BY CountedIs
<1>2. PICK s : s = b.step
  OBVIOUS
<1>3. PICK far : far = Furthest(h)
  OBVIOUS
<1>4. PICK d : d = Span(h)
  OBVIOUS
<1>5. d = (IF Rises(h) THEN far - h.init ELSE h.init - far) /\ d \in Int
  BY <1>1, <1>3, <1>4 DEF Span
<1>6. by \in Int
  BY <1>1
<1>7. b.loops = (IF d < 0 THEN 0 ELSE d \div s + 1)
  BY <1>1, <1>2, <1>4
<1>8. b.loops \in Nat /\ ((k - 1) * s <= d <=> k - 1 < b.loops)
  BY <1>1, <1>2, <1>5, <1>7, StepsWithin
<1>9. PICK way : way = (k - 1) * s
  OBVIOUS
<1>10. way \in Int
  BY <1>1, <1>2, <1>9
<1>11. CASE Rises(h)
  <2>1. (k - 1) * by = way
    BY <1>2, <1>9, <1>11
  <2>2. Holds(h, h.init + way) <=> h.init + way <= far
    BY <1>1, <1>3, <1>10, <1>11
  <2>3. d = far - h.init
    BY <1>5, <1>11
  <2> QED BY <1>1, <1>3, <1>6, <1>8, <1>9, <1>10, <2>1, <2>2, <2>3
<1>12. CASE ~Rises(h)
  <2>1. by = 0 - s /\ s \in Int /\ k - 1 \in Int
    BY <1>1, <1>2, <1>12
  <2>2. (k - 1) * by = 0 - way
    BY <1>9, <2>1
  <2>3. Holds(h, h.init + (0 - way)) <=> h.init + (0 - way) >= far
    BY <1>1, <1>3, <1>10, <1>12
  <2>4. d = h.init - far
    BY <1>5, <1>12
  <2> QED BY <1>1, <1>3, <1>6, <1>8, <1>9, <1>10, <2>2, <2>3, <2>4
<1> QED BY <1>11, <1>12

\* The values of a loop are its iterations, and those that are substituted.
LEMMA RunIsUnrolled ==
    ASSUME NEW h, Counted(h), NEW b, b = ResolveForLoopBound(h), b.loops <= MaxRuns, NEW by,
           by = (IF Rises(h) THEN b.step ELSE 0 - b.step)
    PROVE  /\ Run(h) = UnrolledValues(h, b)
           /\ DOMAIN Run(h) = 1 .. b.loops
           /\ \A k \in 1 .. b.loops : Run(h)[k] = h.init + (k - 1) * by
<1>1. PICK v : v = ValuesOf(h, MaxRuns)
  OBVIOUS
<1>2. PICK u : u = ValuesOf(h, b.loops)
  OBVIOUS
<1>3. MaxRuns \in Nat
  BY RunsAssumption
<1>4. /\ b.step \in Int /\ h.init \in Int
      /\ \A i \in Int : Advance(h, i) = IF Rises(h) THEN i + b.step ELSE i + (0 - b.step)
  BY CountedIs
<1>5. by \in Int /\ \A i \in Int : Advance(h, i) = i + by
  BY <1>4
<1>6. b.loops \in Nat
  BY HoldsAsCounted, 1 \in Nat, 1 > 0
<1>7. \A k \in 1 .. MaxRuns : v[k] = h.init + (k - 1) * by
  BY <1>1, <1>3, <1>4, <1>5, ValuesInSteps, ZenonT(60)
<1>8. \A k \in 1 .. b.loops : u[k] = h.init + (k - 1) * by
  BY <1>2, <1>4, <1>5, <1>6, ValuesInSteps, ZenonT(60)
<1>9. DOMAIN u = 1 .. b.loops /\ u = [k \in DOMAIN u |-> u[k]]
  BY <1>2, <1>6, ValuesAre
<1>10. \A k \in 1 .. MaxRuns : Holds(h, v[k]) <=> k <= b.loops
  <2> TAKE k \in 1 .. MaxRuns
  <2>1. k \in Nat /\ k > 0
    BY <1>3
  <2>2. Holds(h, h.init + (k - 1) * by) <=> k <= b.loops
    BY <2>1, HoldsAsCounted
  <2> QED BY <1>7, <2>2
<1>11. {n \in 1 .. MaxRuns : \A k \in 1 .. n : Holds(h, v[k])} = 1 .. b.loops
  <2>1. ASSUME NEW n \in 1 .. MaxRuns, \A k \in 1 .. n : Holds(h, v[k]) PROVE n \in 1 .. b.loops
    <3>1. n \in 1 .. n
      BY <1>3
    <3> QED BY <1>3, <1>6, <1>10, <2>1, <3>1
  <2>2. ASSUME NEW n \in 1 .. b.loops PROVE n \in 1 .. MaxRuns /\ \A k \in 1 .. n : Holds(h, v[k])
    <3>1. n \in 1 .. MaxRuns
      BY <1>3, <1>6
    <3>2. ASSUME NEW k \in 1 .. n PROVE Holds(h, v[k])
      <4>1. k \in 1 .. MaxRuns /\ k <= b.loops
        BY <1>3, <1>6
      <4> QED BY <1>10, <4>1
    <3> QED BY <3>1, <3>2
  <2> QED BY <2>1, <2>2
<1>12. Run(h) = [n \in {n \in 1 .. MaxRuns : \A k \in 1 .. n : Holds(h, v[k])} |-> v[n]]
  BY <1>1 DEF Run
<1>13. Run(h) = [n \in 1 .. b.loops |-> v[n]]
  BY <1>11, <1>12
<1>14. ASSUME NEW n \in 1 .. b.loops PROVE v[n] = u[n]
  <2>1. n \in 1 .. MaxRuns
    BY <1>3, <1>6
  <2> QED BY <1>7, <1>8, <2>1
<1>15. UnrolledValues(h, b) = u
  BY <1>2 DEF UnrolledValues
<1>16. u = [n \in 1 .. b.loops |-> u[n]]
  BY <1>9
<1>17. Run(h) = u
  BY <1>13, <1>14, <1>16
<1>18. DOMAIN Run(h) = 1 .. b.loops
  BY <1>13
<1> QED BY <1>8, <1>15, <1>17, <1>18

\* The iterations that SimplifyVisitor counts are those that the loop runs through, whatever
\* its bounds and step: the values that are substituted in an unrolled loop are the loop's
\* own, in its order, and the values from the least one in steps up to the greatest one,
\* that a for generate is copied for, are the same (simplify.cpp:4478, 4287).
THEOREM IterationsAreTheRun ==
    ASSUME NEW h, Counted(h), NEW b, b = ResolveForLoopBound(h), b.loops <= MaxRuns
    PROVE  /\ Run(h) = UnrolledValues(h, b) /\ DOMAIN Run(h) = 1 .. b.loops
           /\ b.loops > 0 =>
                 \A i : (\E k \in 1 .. b.loops : Run(h)[k] = i)
                           <=> \E m \in Nat : i = b.min + m * b.step /\ i <= b.max
<1>1. PICK by : by = IF Rises(h) THEN b.step ELSE 0 - b.step
  OBVIOUS
<1>2. /\ Run(h) = UnrolledValues(h, b)
      /\ DOMAIN Run(h) = 1 .. b.loops
      /\ \A k \in 1 .. b.loops : Run(h)[k] = h.init + (k - 1) * by
  BY <1>1, RunIsUnrolled
<1>3. /\ b.step \in Int /\ b.step > 0 /\ h.init \in Int
      /\ b.loops > 0 => /\ Rises(h) => b.min = h.init /\ b.max = h.init + (b.loops - 1) * b.step
                        /\ ~Rises(h) => b.max = h.init /\ b.min = h.init - (b.loops - 1) * b.step
  BY CountedIs
<1>4. PICK s : s = b.step
  OBVIOUS
<1>5. PICK n : n = b.loops
  OBVIOUS
<1>6. n \in Nat
  BY <1>1, <1>5, HoldsAsCounted, 1 \in Nat, 1 > 0
<1>7. ASSUME NEW m \in Int PROVE m * s \in Int /\ m * by \in Int /\ (n - 1) * s \in Int
  BY <1>1, <1>3, <1>4, <1>6
<1>8. ASSUME NEW p \in Int, NEW q \in Int PROVE p * s <= q * s <=> p <= q
  <2>1. s \in Int /\ s > 0
    BY <1>3, <1>4
  <2>2. ASSUME p <= q PROVE p * s <= q * s
    BY <2>1, <2>2
  <2>3. ASSUME p > q PROVE ~(p * s <= q * s)
    <3>1. p >= q + 1
      BY <2>3
    <3>2. p * s >= (q + 1) * s /\ (q + 1) * s = q * s + s /\ p * s \in Int /\ q * s \in Int
      BY <2>1, <3>1
    <3> QED BY <2>1, <3>2
  <2> QED BY <2>2, <2>3
<1>9. ASSUME b.loops > 0
      PROVE  \A i : (\E k \in 1 .. b.loops : Run(h)[k] = i)
                       <=> \E m \in Nat : i = b.min + m * b.step /\ i <= b.max
  <2>1. n > 0
    BY <1>5, <1>9
  <2>2. CASE Rises(h)
    <3>1. by = s /\ b.min = h.init /\ b.max = h.init + (n - 1) * s
      BY <1>1, <1>3, <1>4, <1>5, <1>9, <2>2
    <3>2. ASSUME NEW i, NEW k \in 1 .. n, i = h.init + (k - 1) * by
          PROVE  \E m \in Nat : i = b.min + m * b.step /\ i <= b.max
      <4>1. k - 1 \in Nat /\ k - 1 <= n - 1 /\ n - 1 \in Int
        BY <1>6
      <4>2. (k - 1) * s <= (n - 1) * s
        BY <1>8, <4>1
      <4>3. i = h.init + (k - 1) * s /\ (k - 1) * s \in Int
        BY <1>7, <3>1, <3>2, <4>1
      <4> QED BY <1>3, <1>4, <1>7, <3>1, <4>1, <4>2, <4>3
    <3>3. ASSUME NEW i, NEW m \in Nat, i = b.min + m * b.step, i <= b.max
          PROVE  \E k \in 1 .. n : i = h.init + (k - 1) * by
      <4>1. i = h.init + m * s /\ m * s \in Int /\ (n - 1) * s \in Int
        BY <1>4, <1>7, <3>1, <3>3
      <4>2. m * s <= (n - 1) * s
        BY <1>3, <3>1, <3>3, <4>1
      <4>3. m <= n - 1
        BY <1>6, <1>8, <4>2
      <4>4. m + 1 \in 1 .. n /\ m + 1 - 1 = m
        BY <1>6, <4>3
      <4> QED BY <3>1, <4>1, <4>4
    <3> QED BY <1>2, <1>5, <3>2, <3>3
  <2>3. CASE ~Rises(h)
    <3>1. by = 0 - s /\ b.max = h.init /\ b.min = h.init - (n - 1) * s
      BY <1>1, <1>3, <1>4, <1>5, <1>9, <2>3
    <3>2. ASSUME NEW m \in Int, NEW k \in Int, m = n - k
          PROVE  b.min + m * s = h.init + (k - 1) * by
      <4>1. s \in Int /\ n \in Int /\ h.init \in Int
        BY <1>3, <1>4, <1>6
      <4>2. (k - 1) * by = 0 - (k - 1) * s
        BY <3>1, <4>1
      <4>3. m * s = (n - 1) * s - (k - 1) * s
        BY <3>2, <4>1
      <4>4. (k - 1) * s \in Int /\ (n - 1) * s \in Int
        BY <4>1
      <4>5. PICK p : p = (k - 1) * s
        OBVIOUS
      <4>6. PICK q : q = (n - 1) * s
        OBVIOUS
      <4>7. p \in Int /\ q \in Int /\ m * s = q - p /\ (k - 1) * by = 0 - p /\ b.min = h.init - q
        BY <3>1, <4>2, <4>3, <4>4, <4>5, <4>6
      <4>8. b.min + (q - p) = h.init + (0 - p)
        BY <4>1, <4>7
      <4> QED BY <4>7, <4>8
    <3>3. ASSUME NEW i, NEW k \in 1 .. n, i = h.init + (k - 1) * by
          PROVE  \E m \in Nat : i = b.min + m * b.step /\ i <= b.max
      <4>1. n - k \in Nat /\ k - 1 \in Nat /\ k \in Int
        BY <1>6
      <4>2. i = b.min + (n - k) * b.step
        BY <1>4, <3>2, <3>3, <4>1
      <4>3. (k - 1) * by = 0 - (k - 1) * s /\ (k - 1) * s >= 0 /\ (k - 1) * s \in Int
        BY <1>3, <1>4, <3>1, <4>1
      <4>4. i <= b.max
        BY <1>3, <3>1, <3>3, <4>3
      <4> QED BY <4>1, <4>2, <4>4
    <3>4. ASSUME NEW i, NEW m \in Nat, i = b.min + m * b.step, i <= b.max
          PROVE  \E k \in 1 .. n : i = h.init + (k - 1) * by
      <4>1. m * s <= (n - 1) * s
        <5>1. i = h.init - (n - 1) * s + m * s /\ i <= h.init
          BY <1>4, <3>1, <3>4
        <5>2. m * s \in Int /\ (n - 1) * s \in Int
          BY <1>7
        <5> QED BY <1>3, <5>1, <5>2
      <4>2. m <= n - 1
        BY <1>6, <1>8, <4>1
      <4>3. n - m \in 1 .. n /\ m = n - (n - m) /\ n - m \in Int
        BY <1>6, <4>2
      <4>4. i = h.init + ((n - m) - 1) * by
        BY <1>4, <3>2, <3>4, <4>3
      <4> QED BY <4>3, <4>4
    <3> QED BY <1>2, <1>5, <3>3, <3>4
  <2> QED BY <2>2, <2>3
<1> QED BY <1>2, <1>9
=============================================================================
