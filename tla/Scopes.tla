------------------------------- MODULE Scopes -------------------------------
(***************************************************************************)
(* The scopes of a design unit, the declarations they hold, the references *)
(* to them by name, and the functions that move and rename declarations    *)
(* (src/src/manipulation: moveToScope.cpp, moveDeclaration.cpp,            *)
(* renameInScope.cpp, renameConflictingDeclarations.cpp).                  *)
(*                                                                         *)
(* An object is a record: what it is a copy of, and the values that the    *)
(* indexes of the generates around it had when it was copied.  References  *)
(* and the objects that have lists are nodes of the tree; so are           *)
(* declarations, whose value may hold a reference.                         *)
(***************************************************************************)
EXTENDS NameTable, Integers, FiniteSets, SequencesExt

CONSTANTS Kind,        \* the class of each object, by what it is a copy of
          Level,       \* and how deep in the design it is
          UnitName     \* the name of the design unit

ASSUME LevelAssumption == Level \in [DOMAIN Kind -> Nat]

NoObject == [of |-> "none", at |-> <<>>]

VARIABLES up,          \* the parent of each node in the tree or in a detached subtree
          lists,       \* the lists of each node that is not a reference
          says,        \* the name each reference is written with
          cached       \* ISymbol's declaration, of the references that have one

treeVars == <<up, lists>>
scopeVars == <<table, nameOf, renamed, up, lists, says, cached>>

\* A function with more or fewer arguments: f, and g where f has no value; f but for gone.
Over(f, g) == [x \in DOMAIN f \cup DOMAIN g |-> IF x \in DOMAIN f THEN f[x] ELSE g[x]]
Without(f, gone) == [x \in DOMAIN f \ gone |-> f[x]]

KindOf(o) == Kind[o.of]

DeclarationKinds == {"Port", "Variable", "Instance", "StateTable"}

\* The lists that the nodes of a class have, and what they hold.  A loop is not unrolled
\* inside another one.
ContentOf ==
    LET statements == [declarations |-> {"Variable"}, instances |-> {"Instance"}, stateTables |-> {"StateTable"},
                       generates |-> {"ForGenerate", "IfGenerate"}, actions |-> {"For", "Reference"}]
    IN  [View |-> [declarations |-> {"Variable"}, ports |-> {"Port"}],
         Contents |-> statements,
         IfGenerate |-> statements,
         ForGenerate |-> Over([initDeclarations |-> {"Variable"}], statements),
         StateTable |-> [declarations |-> {"Variable"}, actions |-> {"For", "Reference"}],
         For |-> [initDeclarations |-> {"Variable"}, actions |-> {"Reference"}],
         Variable |-> [actions |-> {"Reference"}],
         Port |-> <<>>, Instance |-> <<>>]

Scopes == {"View", "Contents", "ForGenerate", "IfGenerate", "For", "StateTable"}
BaseContents == {"Contents", "ForGenerate", "IfGenerate"}
DataDeclarations == {"Port", "Variable"}

Listed(s, l) == IF l \in DOMAIN lists[s] THEN lists[s][l] ELSE <<>>

Nodes == DOMAIN up \cup DOMAIN lists

\* o and the nodes below it.
Below(o) ==
    LET below[x \in Nodes] == x = o \/ (x \in DOMAIN up /\ below[up[x]])
    IN  {x \in Nodes : below[x]}

\* o and the nodes above it, but for the topmost.
Above(o) == {x \in DOMAIN up : o \in Below(x)}

PlaceIn(list, o) == CHOOSE k \in DOMAIN list : list[k] = o

\* The list of s that holds o.
ListOf(s, o) == CHOOSE l \in DOMAIN lists[s] : \E k \in DOMAIN lists[s][l] : lists[s][l][k] = o

-----------------------------------------------------------------------------
(* What a name leads to. *)

\* The lists of a scope, in the order they are searched.
Looked == [View |-> <<"declarations", "ports", "templateParameters">>,
           Contents |-> <<"declarations", "stateTables">>,
           ForGenerate |-> <<"declarations", "stateTables", "initDeclarations">>,
           IfGenerate |-> <<"declarations", "stateTables">>,
           For |-> <<"initDeclarations">>,
           StateTable |-> <<"declarations">>,
           Port |-> <<>>, Variable |-> <<>>, Instance |-> <<>>]

\* An identifier is declared by a data declaration of its name.  Inside its own list only
\* what comes before the node that the search comes from is seen, nearest first.
Candidates(s, l, from, name) ==
    LET list == Listed(s, l)
        seen == IF \E k \in DOMAIN list : list[k] = from
                THEN Reverse(SubSeq(list, 1, SelectInSeq(list, LAMBDA x : x = from) - 1))
                ELSE list
    IN  SelectSeq(seen, LAMBDA d : KindOf(d) \in DataDeclarations /\ nameOf[d] = name)

FoundIn(s, from, name) ==
    FlattenSeq([k \in DOMAIN Looked[KindOf(s)] |-> Candidates(s, Looked[KindOf(s)][k], from, name)])

\* The scopes around a node are searched, the innermost first.
Search(from, name) ==
    LET search[x \in DOMAIN up] ==
            LET found == FoundIn(up[x], x, name)
            IN  IF found # <<>> THEN Head(found)
                ELSE IF up[x] \in DOMAIN up THEN search[up[x]]
                ELSE NoObject
    IN  search[from]

\* The declaration that the name of reference r leads to.
LeadsTo(r) == Search(r, says[r])

\* getDeclaration(r): the declaration found before, until it is reset.
Declaration(r) == IF r \in DOMAIN cached THEN cached[r] ELSE LeadsTo(r)

\* getReferences(d, root): only symbols that have d's name are asked for their declaration,
\* and keep the answer.
Namesakes(d, root) == {r \in Below(root) \cap DOMAIN says : says[r] = nameOf[d]}
References(d, root) == {r \in Namesakes(d, root) : Declaration(r) = d}

Ask(asked) ==
    LET found == {r \in asked : Declaration(r) # NoObject}
    IN  cached' = [r \in DOMAIN cached \cup found |-> Declaration(r)]

-----------------------------------------------------------------------------
(* Names that conflict. *)

Declared == [View |-> {"declarations", "templateParameters"},
             Contents |-> {"declarations", "instances", "generates", "stateTables"},
             ForGenerate |-> {"initDeclarations", "declarations", "instances", "generates", "stateTables"},
             IfGenerate |-> {"declarations", "instances", "generates", "stateTables"},
             StateTable |-> {"declarations"}]

\* checkConflictingName(name, s)
Conflicting(name, s) ==
    \/ nameOf[s] = name
    \/ \E l \in Declared[KindOf(s)] : \E k \in DOMAIN Listed(s, l) : nameOf[Listed(s, l)[k]] = name
    \/ KindOf(s) = "View" /\ name = UnitName

-----------------------------------------------------------------------------
(* Moves. *)

Suffixed(name, suffix) == name \o suffix

\* it.remove(); destList.push_back(obj);
ActualMove(o, from, to, l, m) ==
    /\ lists' = [lists EXCEPT ![from][l] = RemoveAt(@, PlaceIn(@, o)), ![to][m] = Append(@, o)]
    /\ up' = [up EXCEPT ![o] = to]

NamesKept == UNCHANGED <<table, nameOf, renamed, says, cached>>

\* o gets a name that is not from the name table.
GiveName(o, name) ==
    /\ nameOf' = [nameOf EXCEPT ![o] = name]
    /\ renamed' = IF nameOf[o] = name THEN renamed ELSE renamed \ {o}
    /\ UNCHANGED table

\* objectSetName(r, newName) for the references to o in root.
NameReferences(o, root) ==
    /\ says' = [r \in DOMAIN says |-> IF r \in References(o, root) THEN nameOf'[o] ELSE says[r]]
    /\ Ask(Namesakes(o, root))

MovePlain(o, from, to) ==
    LET l == ListOf(from, o) IN ActualMove(o, from, to, l, l) /\ NamesKept

MoveInstance(o, from, to, suffix) ==
    LET name == Suffixed(nameOf[o], suffix)
        l == ListOf(from, o)
    IN  /\ \/ ~Conflicting(name, to) /\ GiveName(o, name)
           \/ Conflicting(name, to) /\ Rename(o, name)
        /\ ActualMove(o, from, to, l, l)
        /\ UNCHANGED <<says, cached>>

\* Mutant: the references keep the old name.
MoveDeclaredAlone(o, from, to, suffix) ==
    LET name == Suffixed(nameOf[o], suffix)
        l == ListOf(from, o)
    IN  /\ \/ ~Conflicting(name, to) /\ GiveName(o, name)
           \/ Conflicting(name, to) /\ Rename(o, nameOf[o])
        /\ ActualMove(o, from, to, l, l)
        /\ UNCHANGED <<says, cached>>

\* Mutant: the name is not checked in the new scope.
MoveDeclaredUnchecked(o, from, to, suffix) ==
    LET l == ListOf(from, o)
    IN  /\ GiveName(o, Suffixed(nameOf[o], suffix))
        /\ NameReferences(o, from)
        /\ ActualMove(o, from, to, l, l)

\* A declaration: without a suffix and a conflict it keeps its name; in a conflict the
\* suffix is dropped.
MoveDeclared(o, from, to, suffix) ==
    LET name == Suffixed(nameOf[o], suffix)
        conflict == Conflicting(name, to)
        l == ListOf(from, o)
    IN  /\ ActualMove(o, from, to, l, l)
        /\ \/ ~conflict /\ suffix = <<>> /\ NamesKept
           \/ ~conflict /\ suffix # <<>> /\ GiveName(o, name) /\ NameReferences(o, from)
           \/ conflict /\ Rename(o, nameOf[o]) /\ NameReferences(o, from)

\* moveToScope(from, to, suffix, o): between base contents, and from a state table.
MoveToScope(from, to, suffix, o) ==
    \/ KindOf(o) \in {"Variable", "StateTable"} /\ MoveDeclared(o, from, to, suffix)
    \/ KindOf(o) = "Instance" /\ MoveInstance(o, from, to, suffix)
    \/ KindOf(o) \in {"Reference", "For"} /\ MovePlain(o, from, to)

\* moveToScope(for, to, suffix, o) first takes the declaration out of the loop, so that no
\* reference is below the scope it is then moved from.
MoveFromFor(from, to, suffix, o) ==
    LET name == Suffixed(nameOf[o], suffix)
    IN  /\ ActualMove(o, from, to, "initDeclarations", "declarations")
        /\ \/ ~Conflicting(name, to) /\ GiveName(o, name)
           \/ Conflicting(name, to) /\ Rename(o, nameOf[o])
        /\ UNCHANGED <<says, cached>>

\* moveDeclaration(d, to, system, suffix): only the list that receives the declaration is
\* checked, and a declaration that stays where it is conflicts with itself.
MoveDeclaration(d, to, system, suffix) ==
    LET from == up[d]
        found == \E k \in DOMAIN Listed(to, "declarations") :
                    nameOf[Listed(to, "declarations")[k]] = nameOf[d]
    IN  /\ \/ found /\ Rename(d, Suffixed(nameOf[d], suffix)) /\ NameReferences(d, system)
           \/ ~found /\ NamesKept
        /\ \/ from = to /\ UNCHANGED treeVars
           \/ from # to /\ ActualMove(d, from, to, "declarations", "declarations")

RenameInScope(d, system) == MoveDeclaration(d, up[d], system, <<>>)

\* renameConflictingDeclarations(): a declaration with the name of its design unit.
RenameConflicting(d, system, suffix) ==
    /\ nameOf[d] = UnitName
    /\ Rename(d, Suffixed(nameOf[d], suffix))
    /\ NameReferences(d, system)
    /\ UNCHANGED treeVars
=============================================================================
