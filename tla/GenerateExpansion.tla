-------------------------- MODULE GenerateExpansion --------------------------
(***************************************************************************)
(* SimplifyVisitor's expansion of generates and unrolling of loops         *)
(* (src/src/manipulation/simplify.cpp): a for generate is copied once for  *)
(* each value of its index, the index replaced by the value in the copy,   *)
(* the generates inside the copy expanded, and what the copy declares and  *)
(* does moved to the scope around it.  The generate itself is thrown away, *)
(* and deleted after the next object that is visited.                      *)
(*                                                                         *)
(* A design is the view of a design unit with its contents.  Before it is  *)
(* simplified other passes may have moved or renamed declarations of it.   *)
(***************************************************************************)
EXTENDS Scopes

(***************************************************************************)
(* The values that the index of a for loop runs through, as                *)
(* SimplifyVisitor computes them before it unrolls a loop or expands a     *)
(* for generate (src/src/manipulation/simplify.cpp), and as the loop       *)
(* itself gives them.                                                      *)
(*                                                                         *)
(* A header is the record of a loop's init value, condition, bound and     *)
(* step.  The condition is an operator between the index and the bound     *)
(* ("lt", "le", "gt", "ge", another one), or the direction of a range from *)
(* init to bound ("upto", "downto"), or "never", a constant that is false. *)
(* The bound may be unknown: the name of something that has no constant    *)
(* value.  The step is what is added, subtracted or multiplied.            *)
(***************************************************************************)

CONSTANT MaxRuns     \* a loop that runs longer is taken as endless

ASSUME RunsAssumption == MaxRuns \in Nat

Upward == {"lt", "le"}
Downward == {"gt", "ge"}
Ranges == {"upto", "downto"}

Unresolved == [resolved |-> FALSE, loops |-> 0, min |-> 0, max |-> 0, step |-> 0]

-----------------------------------------------------------------------------
(* What the visitor computes. *)

\* The step is refused with an assertion: it goes against the condition, or there is
\* none and the loop is not a generate.
StepAsserts(h, generate) ==
    /\ h.condition \notin Ranges
    /\ \/ h.stepOp = "none" /\ ~generate
       \/ h.stepOp = "plus" /\ h.condition \notin Upward
       \/ h.stepOp = "minus" /\ h.condition \notin Downward

Increment(h) == IF h.stepOp = "none" THEN 1 ELSE h.step

Distance(h) == IF h.condition \in Upward THEN h.bound - h.init ELSE h.init - h.bound
Inclusive(h) == h.condition \in {"le", "ge"}

\* Mutant: the division truncates the last iteration away, and the far end is as many
\* integers away as there are iterations.
TruncatedIterations(h) ==
    LET inc == Increment(h)
        loops == IF Distance(h) < 0 THEN 0 ELSE Distance(h) \div inc
    IN  IF inc <= 0 \/ h.condition \notin Upward \cup Downward THEN Unresolved
        ELSE [resolved |-> TRUE, loops |-> loops, min |-> h.init,
              max |-> h.init + loops - 1, step |-> inc]

CalculateIterations(h) ==
    LET inc == Increment(h)
        loops == IF Distance(h) < 0 \/ (Distance(h) = 0 /\ ~Inclusive(h)) THEN 0
                 ELSE (IF Inclusive(h) THEN Distance(h) ELSE Distance(h) - 1) \div inc + 1
        reach == IF loops = 0 THEN 0 ELSE (loops - 1) * inc
    IN  IF inc <= 0 \/ h.condition \notin Upward \cup Downward THEN Unresolved
        ELSE [resolved |-> TRUE, loops |-> loops,
              min |-> IF h.condition \in Upward THEN h.init ELSE h.init - reach,
              max |-> IF h.condition \in Upward THEN h.init + reach ELSE h.init,
              step |-> inc]

\* A range: every value between its bounds.
RangeCase(h) ==
    LET width == 1 + (IF h.condition = "upto" THEN h.bound - h.init ELSE h.init - h.bound)
        low == IF h.condition = "upto" THEN h.init ELSE h.bound
    IN  IF width <= 0 THEN Unresolved
        ELSE [resolved |-> TRUE, loops |-> width, min |-> low, max |-> low + width - 1, step |-> 1]

ResolveForLoopBound(h) ==
    CASE ~h.known -> Unresolved
      [] h.known /\ h.condition \in Ranges -> RangeCase(h)
      [] OTHER -> CalculateIterations(h)

-----------------------------------------------------------------------------
(* What the loop does. *)

Holds(h, i) ==
    CASE h.condition = "lt" -> i < h.bound
      [] h.condition = "le" -> i <= h.bound
      [] h.condition = "gt" -> i > h.bound
      [] h.condition = "ge" -> i >= h.bound
      [] h.condition = "neq" -> i # h.bound
      [] h.condition = "upto" -> i <= h.bound
      [] h.condition = "downto" -> i >= h.bound
      [] OTHER -> FALSE

\* The step action on the value i; a loop without one moves along its condition.
Advance(h, i) ==
    CASE h.stepOp = "plus" -> i + h.step
      [] h.stepOp = "minus" -> i - h.step
      [] h.stepOp = "mult" -> i * h.step
      [] h.stepOp = "none" /\ h.condition \in Downward \cup {"downto"} -> i - 1
      [] OTHER -> i + 1

\* The first n values of the index: the init value, and what the step action makes of it
\* again and again.
ValuesOf(h, n) ==
    LET value[k \in 1 .. n] == IF k = 1 THEN h.init ELSE Advance(h, value[k - 1])
    IN  value

\* The values substituted for the index of an unrolled loop: as many as there are iterations.
UnrolledValues(h, b) == ValuesOf(h, b.loops)

\* The values the index has, in order, until the condition is false.
Run(h) ==
    LET value == ValuesOf(h, MaxRuns)
    IN  [n \in {n \in 1 .. MaxRuns : \A k \in 1 .. n : Holds(h, value[k])} |-> value[n]]

-----------------------------------------------------------------------------
CONSTANTS Designs,     \* the designs that are read, a set of families of them
          MaxPasses    \* bound on the passes before the simplification

ASSUME PassAssumption == MaxPasses \in Nat

HeaderType ==
    [init : Int, condition : STRING, bound : Int, stepOp : STRING, step : Int, known : BOOLEAN, outer : BOOLEAN]

\* A design is a tree: a node is deeper than its parent, and once in one of the lists that
\* its parent has, but for the contents of a view and what a value refers to.  Declarations
\* have names, nothing else has.
IsDesign(d) ==
    /\ \A o \in DOMAIN d.up \cup DOMAIN d.lists :
          /\ o.of \in DOMAIN Kind /\ o = [of |-> o.of, at |-> <<>>] /\ o # NoObject
          /\ o \in DOMAIN d.lists <=> KindOf(o) # "Reference"
    /\ \A o \in DOMAIN d.up : d.up[o] \in DOMAIN d.lists /\ Level[d.up[o].of] < Level[o.of]
    /\ \A s \in DOMAIN d.lists :
          /\ KindOf(s) \in DOMAIN ContentOf /\ DOMAIN d.lists[s] = DOMAIN ContentOf[KindOf(s)]
          /\ \A l \in DOMAIN d.lists[s] :
                /\ d.lists[s][l] \in Seq(DOMAIN d.up) /\ IsInjective(d.lists[s][l])
                /\ \A o \in ToSet(d.lists[s][l]) : d.up[o] = s /\ KindOf(o) \in ContentOf[KindOf(s)][l]
                /\ \A m \in DOMAIN d.lists[s] : l # m => ToSet(d.lists[s][l]) \cap ToSet(d.lists[s][m]) = {}
    /\ \A o \in DOMAIN d.up : KindOf(o) \notin {"Contents", "Reference"} =>
          \E l \in DOMAIN d.lists[d.up[o]] : o \in ToSet(d.lists[d.up[o]][l])
    /\ DOMAIN d.names = DOMAIN d.lists
    /\ \A o \in DOMAIN d.names : d.names[o] \in (IF KindOf(o) \in DeclarationKinds THEN Name ELSE {Nameless})
    /\ \A o \in DOMAIN d.lists : KindOf(o) \in {"ForGenerate", "IfGenerate", "For"} => o.of \in DOMAIN d.header
    /\ \A n \in DOMAIN d.header : d.header[n] \in HeaderType
    /\ d.top \in DOMAIN d.lists /\ KindOf(d.top) = "View"
    /\ d.contents \in DOMAIN d.lists /\ KindOf(d.contents) = "Contents"

ASSUME DesignAssumption == \A family \in Designs : \A d \in family : IsDesign(d)

VARIABLES design,      \* the design as it was read
          meant,       \* history: what each reference led to in the design
          valued,      \* the values that have replaced references
          passes,      \* how many passes have changed something
          renaming,    \* renameConflictingDeclarations is running
          visited,     \* the loops and generates that the visitor has been through
          work,        \* the generates being expanded, the outermost first
          thrown,      \* SimplifyVisitor::_trash, what the visit of one object has put in it
          state        \* "visiting", "stopped" by an assertion, "done"

visitVars == <<valued, visited, work, thrown, state>>
read == <<design, meant>>
allVars == <<scopeVars, read, passes, renaming, visitVars>>

System == design.top

\* No scope declares a name twice, and every reference leads to a declaration.
Legal ==
    /\ \A o, e \in DOMAIN up \ DOMAIN says :
          o # e /\ up[o] = up[e] /\ nameOf[o] # Nameless => nameOf[o] # nameOf[e]
    /\ \A r \in DOMAIN says : LeadsTo(r) # NoObject

GenerateInit ==
    /\ \E family \in Designs : design \in family
    /\ table = {} /\ renamed = {}
    /\ up = design.up /\ lists = design.lists
    /\ nameOf = design.names /\ says = design.says
    /\ cached = <<>> /\ valued = <<>>
    /\ Legal
    /\ meant = [r \in DOMAIN says |-> LeadsTo(r)]
    /\ passes = 0 /\ renaming = FALSE
    /\ visited = {} /\ work = <<>> /\ thrown = {} /\ state = "visiting"

InTree == Below(System)

-----------------------------------------------------------------------------
(* Passes before the simplification. *)

Resting == work = <<>> /\ visited = {} /\ state = "visiting"
Starts == Resting /\ ~renaming /\ passes < MaxPasses
Counts == passes' = passes + 1
PassVars == UNCHANGED <<read, visitVars>>

\* A declaration is moved to a scope around its own.  Nothing it uses is left behind.
CanLeave(d, to) ==
    /\ to \in Above(up[d]) \ {up[d]}
    /\ \A r \in Below(d) \cap DOMAIN says :
          LeadsTo(r) \notin Below(to) \/ up[LeadsTo(r)] = to

MovePass ==
    /\ Starts /\ Counts /\ PassVars /\ UNCHANGED renaming
    /\ \E d \in InTree, suffix \in {<<>>, <<0>>} :
          /\ KindOf(d) = "Variable" /\ up[d] \in DOMAIN lists
          /\ \E to \in Above(up[d]) :
                /\ KindOf(to) \in BaseContents /\ CanLeave(d, to)
                /\ ListOf(up[d], d) = "declarations"
                /\ \/ MoveDeclaration(d, to, System, suffix)
                   \/ MoveToScope(up[d], to, suffix, d)

RenamePass ==
    /\ Starts /\ Counts /\ PassVars /\ UNCHANGED renaming
    /\ \E d \in InTree :
          KindOf(d) = "Variable" /\ ListOf(up[d], d) = "declarations" /\ RenameInScope(d, System)

ForPass ==
    /\ Starts /\ Counts /\ PassVars /\ UNCHANGED renaming
    /\ \E d \in InTree :
          /\ KindOf(d) = "Variable" /\ KindOf(up[d]) = "For"
          /\ MoveFromFor(up[d], up[up[d]], <<>>, d)

ConflictPass ==
    /\ Starts /\ PassVars /\ renaming' = TRUE
    /\ UNCHANGED <<scopeVars, passes>>

UnitNamed == {d \in InTree \ DOMAIN says : KindOf(d) \in DataDeclarations \cup {"StateTable"} /\ nameOf[d] = UnitName}

RenameNext ==
    /\ renaming /\ UNCHANGED <<read, visitVars>>
    /\ \/ \E d \in UnitNamed : RenameConflicting(d, System, <<>>) /\ Counts /\ UNCHANGED renaming
       \/ UnitNamed = {} /\ renaming' = FALSE /\ UNCHANGED <<scopeVars, passes>>

-----------------------------------------------------------------------------
(* The visitor. *)

Top == Last(work)
Header(g) == LET h == design.header[g.of]
             IN  IF h.outer /\ g.at # <<>> THEN [h EXCEPT !.bound = Last(g.at), !.known = TRUE] ELSE h

\* The loops and generates to visit next: those inside the copy being expanded, or those of
\* the contents.  The trash is emptied first.
Generates(s) == {g \in ToSet(Listed(s, "generates")) : g \notin visited}
Loops(s) == {f \in ToSet(Listed(s, "actions")) : KindOf(f) = "For" /\ f \notin visited}

Visitable ==
    IF renaming \/ state # "visiting" \/ thrown # {} THEN {}
    ELSE IF work = <<>> THEN IF Generates(design.contents) # {} THEN Generates(design.contents)
                             ELSE Loops(design.contents)
    ELSE IF Top.copy = NoObject THEN {}
    ELSE Generates(Top.copy)

Throw(g) == thrown' = thrown \cup {g}
Quiet == UNCHANGED <<scopeVars, read, passes, renaming>>

\* The generate is left as it is.
Skip(g) == visited' = visited \cup {g} /\ Quiet /\ UNCHANGED <<valued, work, thrown, state>>

ThrowAway(g) == visited' = visited \cup {g} /\ Throw(g) /\ Quiet /\ UNCHANGED <<valued, work, state>>

Assertion(g) == state' = "stopped" /\ Quiet /\ UNCHANGED <<valued, visited, work, thrown>>

Begin(frame) ==
    /\ visited' = visited \cup {frame.gen} /\ work' = Append(work, frame)
    /\ Quiet /\ UNCHANGED <<valued, thrown, state>>

\* The for generates inside g that its pre-visit, which expands nothing, has yet to throw away.
Useless(g) ==
    {o \in Below(g) \ ({g} \cup visited) : KindOf(o) = "ForGenerate" /\ Header(o).condition = "never"}

PreVisit ==
    \E g \in Visitable : KindOf(g) \in {"ForGenerate", "IfGenerate"} /\ \E o \in Useless(g) : ThrowAway(o)

\* _simplifyUselessFor() and _simplifyForGenerate() up to its loop.
VisitForGenerate ==
    \E g \in Visitable :
        LET h == Header(g)
            b == ResolveForLoopBound(h)
        IN  /\ KindOf(g) = "ForGenerate" /\ Useless(g) = {}
            /\ \/ h.condition = "never" /\ ThrowAway(g)
               \/ h.condition # "never" /\ StepAsserts(h, TRUE) /\ Assertion(g)
               \/ h.condition # "never" /\ ~StepAsserts(h, TRUE) /\ ~b.resolved /\ Skip(g)
               \/ h.condition # "never" /\ ~StepAsserts(h, TRUE) /\ b.resolved /\ b.loops = 0 /\ ThrowAway(g)
               \/ /\ h.condition # "never" /\ ~StepAsserts(h, TRUE) /\ b.resolved /\ b.loops > 0
                  /\ Begin([gen |-> g, copy |-> NoObject, next |-> b.min, bounds |-> b])

\* _simplifyIfGenerate(): the generate is emptied, not copied.
VisitIfGenerate ==
    \E g \in Visitable :
        /\ KindOf(g) = "IfGenerate" /\ Useless(g) = {}
        /\ \/ Header(g).condition = "true"
              /\ Begin([gen |-> g, copy |-> g, next |-> 0, bounds |-> Unresolved])
           \/ Header(g).condition = "never" /\ ThrowAway(g)
           \/ Header(g).condition \notin {"true", "never"} /\ Skip(g)

\* The copy of a node of the generate at i.
CopyAt(o, i) == [o EXCEPT !.at = Append(@, i)]

\* f over the copies at i of a set of objects.
OnCopies(f, from, i) == [x \in {CopyAt(o, i) : o \in from \cap DOMAIN f} |-> f[[x EXCEPT !.at = Front(@)]]]

Renewed(o, from, i) == IF o \in from THEN CopyAt(o, i) ELSE o

IndexOf(g) == Head(lists[g].initDeclarations)

\* Mutant: the references that have the index's name are replaced.
IndexNamesakes(g) == {r \in Below(g) \cap DOMAIN says : says[r] = nameOf[IndexOf(g)]}

\* The references inside g that lead to its index.
IndexReferences(g) == {r \in Below(g) \cap DOMAIN says : LeadsTo(r) = IndexOf(g)}

\* o->replace(copy), the declarations reset, and the index replaced by its value.  The visit
\* of the copy asks for the declarations again when it looks for constants.
Copy ==
    /\ work # <<>> /\ state = "visiting" /\ thrown = {} /\ Top.copy = NoObject /\ Top.next <= Top.bounds.max
    /\ LET g == Top.gen
           i == Top.next
           from == Below(g)
           copy == CopyAt(g, i)
           parent == up[g]
           index == IndexReferences(g)
           copiedUp == [x \in {CopyAt(o, i) : o \in from} |->
                           IF x = copy THEN parent ELSE CopyAt(up[[x EXCEPT !.at = Front(@)]], i)]
           copiedLists == [x \in {CopyAt(o, i) : o \in from \cap DOMAIN lists} |->
                             [l \in DOMAIN lists[[x EXCEPT !.at = Front(@)]] |->
                                [k \in DOMAIN lists[[x EXCEPT !.at = Front(@)]][l] |->
                                    CopyAt(lists[[x EXCEPT !.at = Front(@)]][l][k], i)]]]
           references == (from \cap DOMAIN says) \ index
       IN  /\ up' = Over(copiedUp, Without(up, {g}))
           /\ lists' = Over(copiedLists, [lists EXCEPT ![parent].generates =
                                            [k \in DOMAIN @ |-> IF @[k] = g THEN copy ELSE @[k]]])
           /\ nameOf' = Over(OnCopies(nameOf, from, i), nameOf)
           /\ says' = Over(OnCopies(says, references, i), says)
           /\ valued' = Over([x \in {CopyAt(r, i) : r \in index} |-> i], Over(OnCopies(valued, from, i), valued))
           /\ \/ UNCHANGED cached
              \/ cached' = Over([x \in {CopyAt(r, i) : r \in references} |->
                                   Renewed(LeadsTo([x EXCEPT !.at = Front(@)]), from, i)], cached)
           /\ work' = [work EXCEPT ![Len(work)].copy = copy]
    /\ UNCHANGED <<table, renamed, read, passes, renaming, visited, thrown, state>>

\* Mutant: the copy is not visited to its end before it is emptied and deleted.
MovingUncleared ==
    work # <<>> /\ state = "visiting" /\ Top.copy # NoObject /\ Generates(Top.copy) = {}

\* What _manageGenerateLocalStuff() moves next: instances, declarations, state tables, and
\* the actions of the global action.
Moved == <<"instances", "declarations", "stateTables", "actions">>
Movable(s) ==
    LET full == {n \in DOMAIN Moved : Listed(s, Moved[n]) # <<>>}
    IN  IF full = {} THEN NoObject ELSE Head(lists[s][Moved[Min(full)]])

Suffix(frame) == IF frame.gen = frame.copy THEN <<>> ELSE <<frame.next>>

Moving ==
    work # <<>> /\ state = "visiting" /\ thrown = {} /\ Top.copy # NoObject /\ Generates(Top.copy) = {}

Move ==
    /\ Moving /\ Movable(Top.copy) # NoObject
    /\ MoveToScope(Top.copy, up[Top.copy], Suffix(Top), Movable(Top.copy))
    /\ UNCHANGED <<read, passes, renaming, visitVars>>

\* copy->replace(o); delete copy; with what is still in the copy.
Restore ==
    /\ Moving /\ Movable(Top.copy) = NoObject /\ Top.copy # Top.gen
    /\ LET copy == Top.copy
           g == Top.gen
           gone == Below(copy)
           parent == up[copy]
       IN  /\ up' = Over([x \in {g} |-> parent], Without(up, gone))
           /\ lists' = [Without(lists, gone) EXCEPT ![parent].generates =
                           [k \in DOMAIN @ |-> IF @[k] = copy THEN g ELSE @[k]]]
           /\ nameOf' = Without(nameOf, gone)
           /\ renamed' = renamed \ gone
           /\ says' = Without(says, gone)
           /\ cached' = Without(cached, gone)
           /\ valued' = Without(valued, gone)
           /\ work' = [work EXCEPT ![Len(work)].copy = NoObject,
                                   ![Len(work)].next = @ + Top.bounds.step]
    /\ UNCHANGED <<table, read, passes, renaming, visited, thrown, state>>

\* The generate has been expanded: it is thrown away.
Finish ==
    /\ work # <<>> /\ state = "visiting" /\ thrown = {}
    /\ \/ Top.copy = NoObject /\ Top.next > Top.bounds.max
       \/ Top.copy = Top.gen /\ Generates(Top.copy) = {} /\ Movable(Top.copy) = NoObject
    /\ Throw(Top.gen) /\ work' = Front(work)
    /\ Quiet /\ UNCHANGED <<valued, visited, state>>

\* The copies of a set of objects in each of n iterations, and a list n times over, each
\* time the copies of that iteration.
IterationCopies(set, n) == {CopyAt(o, k) : o \in set, k \in 1 .. n}
Repeated(body, n) ==
    [m \in 1 .. n * Len(body) |-> CopyAt(body[((m - 1) % Len(body)) + 1], ((m - 1) \div Len(body)) + 1)]

\* _simplifyConstantLoopFor(): copies of the actions take the loop's place.  The index of a
\* range has no value to replace it with.
Unroll ==
    \E f \in Visitable :
        LET h == Header(f)
            b == ResolveForLoopBound(h)
            s == up[f]
            from == Below(f) \ {f}
            asserts == StepAsserts(h, FALSE) \/ (h.condition \notin Ranges /\ lists[f].initDeclarations = <<>>)
            values == UnrolledValues(h, b)
            copies(set) == IterationCopies(set, Len(values))
            place == PlaceIn(lists[s].actions, f)
            body == lists[f].actions
        IN  /\ KindOf(f) = "For"
            /\ \/ h.condition = "never" /\ ThrowAway(f)
               \/ h.condition # "never" /\ asserts /\ Assertion(f)
               \/ h.condition # "never" /\ ~asserts /\ (~b.resolved \/ h.condition \in Ranges) /\ Skip(f)
               \/ /\ h.condition # "never" /\ ~asserts /\ b.resolved /\ h.condition \notin Ranges
                  /\ up' = Over([x \in copies(ToSet(body)) |-> s], Without(up, from \cup {f}))
                  /\ lists' = [Without(lists, from \cup {f}) EXCEPT ![s].actions =
                                  SubSeq(@, 1, place - 1) \o Repeated(body, Len(values))
                                      \o SubSeq(@, place + 1, Len(@))]
                  /\ says' = Over([x \in copies((ToSet(body) \cap DOMAIN says) \ IndexReferences(f)) |->
                                    says[[x EXCEPT !.at = Front(@)]]], Without(says, from))
                  /\ valued' = Over([x \in copies(IndexReferences(f)) |-> values[Last(x.at)]], valued)
                  /\ cached' = Without(cached, from)
                  /\ nameOf' = Without(nameOf, from \cup {f})
                  /\ renamed' = renamed \ from
                  /\ visited' = visited \cup {f}
                  /\ UNCHANGED <<table, read, passes, renaming, work, thrown, state>>

\* AfterVisit(), at the end of GuideVisitor's visit of every object: _trash.clear() takes what
\* was thrown away out of its list and deletes it.  The object visited next comes to its end,
\* a whole copy too, before anything else is thrown, moved or deleted.
AfterVisit ==
    /\ state = "visiting"
    /\ \E t \in thrown :
          LET gone == Below(t)
              parent == up[t]
              holder == ListOf(parent, t)
          IN  /\ up' = Without(up, gone)
              /\ lists' = [Without(lists, gone) EXCEPT ![parent][holder] = RemoveAt(@, PlaceIn(@, t))]
              /\ nameOf' = Without(nameOf, gone)
              /\ renamed' = renamed \ gone
              /\ says' = Without(says, gone)
              /\ cached' = Without(cached, gone)
              /\ valued' = Without(valued, gone)
              /\ thrown' = thrown \ {t}
    /\ UNCHANGED <<table, read, passes, renaming, visited, work, state>>

\* The visit of the system ends.  ~SimplifyVisitor() finds its trash empty.
End ==
    /\ state = "visiting" /\ work = <<>> /\ ~renaming /\ thrown = {} /\ Visitable = {}
    /\ state' = "done"
    /\ Quiet /\ UNCHANGED <<valued, visited, work, thrown>>

GenerateNext ==
    \/ MovePass \/ RenamePass \/ ForPass \/ ConflictPass \/ RenameNext
    \/ PreVisit \/ VisitForGenerate \/ VisitIfGenerate \/ Unroll
    \/ Copy \/ Move \/ Restore \/ Finish \/ AfterVisit \/ End

GenerateSpec == GenerateInit /\ [][GenerateNext]_allVars

-----------------------------------------------------------------------------
Original(o) == [o EXCEPT !.at = <<>>]
InTreeReferences == InTree \cap DOMAIN says

\* d is what r meant in the design, or its copy in the copy r is in.
IsMeant(r, d) == d.of = meant[Original(r)].of /\ IsPrefix(d.at, r.at)

\* What reference r was before the step that made it by copying.
Before(r) == IF r \in DOMAIN says THEN r ELSE [r EXCEPT !.at = Front(@)]

\* No step of a move, a renaming, an expansion or an unrolling takes from a reference the
\* declaration that it means, but by bringing another declaration of the same name nearer:
\* every reference is renamed with its declaration, whatever names it was moved between
\* (moveToScope.cpp, moveDeclaration.cpp, simplify.cpp).  The exception is a declaration
\* that leaves a for loop (moveToScope.cpp:363): its references are not looked for.
MeaningFollows ==
    [][\A r \in InTreeReferences' :
          \A d \in {Declaration(Before(r))} : IsMeant(Before(r), d) =>
             \E e \in {LeadsTo(r)'} :
                \/ IsMeant(r, e)
                \/ e # NoObject /\ d \in DOMAIN nameOf' /\ nameOf'[e] = nameOf'[d]
                \/ d \in DOMAIN up /\ KindOf(up[d]) = "For" /\ up'[d] # up[d]]_allVars

\* What is moved or renamed does not get the name of anything else in the scope it comes to,
\* whatever suffixes are added on the way.  Exceptions: a fresh name, which is not compared
\* with names that are not fresh (moveToScope.cpp:100, NameTable.cpp:96), and a declaration
\* moved with moveDeclaration(), which is compared with the list it comes to only: not with
\* ports, instances, state tables and the index of a for generate (moveDeclaration.cpp:50).
NamesApart ==
    [][\A o \in DOMAIN nameOf \cap DOMAIN nameOf' \cap DOMAIN up \cap DOMAIN up' :
          (up'[o] # up[o] \/ nameOf'[o] # nameOf[o]) /\ nameOf'[o] # Nameless =>
             \A e \in DOMAIN nameOf' \cap DOMAIN up' :
                e # o /\ up'[e] = up'[o] /\ nameOf'[e] = nameOf'[o] =>
                   \/ o \in renamed' /\ e \notin renamed'
                   \/ passes' # passes /\ e \notin ToSet(Listed(up[e], "declarations"))]_allVars

\* The loops and generates of the design around o, the outermost first.
Around(o) ==
    LET around[x \in DOMAIN design.up] ==
            LET s == design.up[x]
            IN  (IF s \in DOMAIN design.up THEN around[s] ELSE <<>>)
                    \o (IF s.of \in DOMAIN design.header THEN <<s>> ELSE <<>>)
    IN  around[o]

\* What running through one more loop, at one copy of it, makes of it: a copy for each value
\* of its index.  What is left in the tree stays as it is.
Through(loop, at) ==
    LET g == [loop EXCEPT !.at = at]
        h == Header(g)
        copies(indexes, ends) == {[at |-> Append(at, i), ends |-> ends] : i \in indexes}
    IN  CASE g \in InTree -> {[at |-> at, ends |-> TRUE]}
          [] g \notin InTree /\ KindOf(g) = "IfGenerate" ->
                IF h.condition = "true" THEN {[at |-> at, ends |-> FALSE]} ELSE {}
          [] g \notin InTree /\ KindOf(g) = "For" -> copies(1 .. Len(Run(h)), TRUE)
          [] g \notin InTree /\ KindOf(g) = "ForGenerate" -> copies(IF h.known THEN ToSet(Run(h)) ELSE {}, FALSE)

\* The copies that running through the loops makes, each with its indexes.
Elaborated(loops) ==
    LET elaborated[n \in 0 .. Len(loops)] ==
            IF n = 0 THEN {[at |-> <<>>, ends |-> FALSE]}
            ELSE UNION {IF e.ends THEN {e} ELSE Through(loops[n], e.at) : e \in elaborated[n - 1]}
    IN  {e.at : e \in elaborated[Len(loops)]}

\* The value of the index that reference x means.
IndexValue(x, g) ==
    IF KindOf(g) = "For" THEN Run(Header(g))[Last(x.at)]
    ELSE x.at[Len(SelectSeq(Around(g), LAMBDA s : KindOf(s) = "ForGenerate")) + 1]

IsIndex(d) == "initDeclarations" \in DOMAIN design.lists[design.up[d]] /\ d \in ToSet(design.lists[design.up[d]].initDeclarations)

Copies(o) == {x \in InTree : x.of = o.of}

\* What is in the trash is still allocated when AfterVisit() empties it: however generates are
\* nested, no copy is deleted and no scope goes while a generate that was thrown out of it
\* waits there (simplify.cpp:4390, 4393, 4435).
ThrownAllocated == thrown \subseteq DOMAIN lists

\* When the visitor ends, everything that was in a loop or a generate is there once for each
\* combination of the values their indexes run through, and each reference to an index has
\* become the value of its own loop in that iteration, whatever the nesting, the bounds, the
\* steps and the names of the indexes (simplify.cpp:4478, 4287, 1252).  Exceptions: a step
\* that multiplies, which is counted as one that adds (simplify.cpp:4599), and a generate
\* that cannot be expanded inside one that is: it goes with the copy (simplify.cpp:4303).
ElaborationExact ==
    state = "done" /\ passes = 0 =>
       \A o \in DOMAIN design.up :
          /\ KindOf(o) \in {"Variable", "Instance", "StateTable", "Reference"}
          /\ \A g \in ToSet(Around(o)) : design.header[g.of].stepOp # "mult"
          /\ KindOf(o) = "Variable" => ~IsIndex(o)
          => /\ {x.at : x \in Copies(o)} = Elaborated(Around(o))
             /\ KindOf(o) = "Reference" /\ IsIndex(meant[o]) =>
                   LET g == design.up[meant[o]]
                   IN  \A x \in Copies(o) :
                          IF x \in DOMAIN says THEN g \in InTree ELSE valued[x] = IndexValue(x, g)
=============================================================================
