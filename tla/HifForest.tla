----------------------------- MODULE HifForest -----------------------------
(***************************************************************************)
(* What the tree operations promise (include/hif/classes/Object.hpp and    *)
(* BListHost.hpp): nodes are moved between places, a place being a field,  *)
(* which holds one node, or a list; a node that is put somewhere is no     *)
(* longer where it was; what is deleted is deleted with all it owns.       *)
(* There are no back pointers here: HifTree has to implement this with     *)
(* them.                                                                   *)
(***************************************************************************)
CONSTANTS Node, Field, List, NULL,
          OwnerOf            \* the node a place belongs to, or NULL

VARIABLES nodes,             \* the allocated nodes
          at                 \* the pairs <<node, place>>

vars == <<nodes, at>>

Place        == Field \cup List
Leaving(N)   == {x \in at : x[1] \notin N}
Occupants(p) == {n \in Node : <<n, p>> \in at}

\* All a node owns, itself included.
Below(n) ==
    {m \in Node : \A S \in SUBSET Node :
        n \in S /\ (\A x \in at : OwnerOf[x[2]] \in S => x[1] \in S) => m \in S}

Open(p)        == OwnerOf[p] \in nodes \cup {NULL}
NoCycle(N, p)  == \A n \in N : OwnerOf[p] \notin Below(n)

Init == nodes = {} /\ at = {}

Create(n) == n \in Node \ nodes /\ nodes' = nodes \cup {n} /\ UNCHANGED at

\* n goes to p; the node that was in the field p, if any, is detached.
Put(n, p) ==
    /\ n \in nodes /\ Open(p) /\ NoCycle({n}, p)
    /\ at' = {x \in Leaving({n}) : p \in Field => x[2] # p} \cup {<<n, p>>}
    /\ UNCHANGED nodes

\* Nodes are detached.
Take(N) == N # {} /\ at' = Leaving(N) /\ UNCHANGED nodes

\* n takes the place of o, wherever n was, and o is detached.
Substitute(o, n) ==
    /\ n \in nodes /\ n # o
    /\ \E p \in Place :
          /\ <<o, p>> \in at /\ NoCycle({n}, p)
          /\ at' = Leaving({o, n}) \cup {<<n, p>>}
    /\ UNCHANGED nodes

\* All elements of list L go to list p, those of N being detached.
Transfer(L, p, N) ==
    /\ L # p /\ Open(p) /\ NoCycle(Occupants(L), p)
    /\ at' = Leaving(Occupants(L) \cup N) \cup (Occupants(L) \X {p})
    /\ UNCHANGED nodes

\* Two nodes trade places.
Exchange(a, b) ==
    /\ \E p, q \in List :
          /\ <<a, p>> \in at /\ <<b, q>> \in at
          /\ NoCycle({a}, q) /\ NoCycle({b}, p)
          /\ at' = Leaving({a, b}) \cup {<<a, q>>, <<b, p>>}
    /\ UNCHANGED nodes

\* Nodes are deleted with all they own: one detached node, or elements of one list.
Discard(R) ==
    /\ R \subseteq nodes
    /\ \/ \E r \in R : R = {r} /\ \A p \in Place : <<r, p>> \notin at
       \/ \E L \in List : R \subseteq Occupants(L)
    /\ LET D == UNION {Below(r) : r \in R}
       IN  nodes' = nodes \ D /\ at' = Leaving(D)

Next ==
    \/ \E n \in Node : Create(n) \/ \E p \in Place : Put(n, p)
    \/ \E N \in SUBSET nodes : Take(N) \/ Discard(N)
    \/ \E o, n \in Node : Substitute(o, n) \/ Exchange(o, n)
    \/ \E L, p \in List : Transfer(L, p, {}) \/ \E o \in Occupants(p) : Transfer(L, p, {o})

Spec == Init /\ [][Next]_vars
=============================================================================
