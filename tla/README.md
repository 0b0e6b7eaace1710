# hif-core in TLA+

A formal development of hif-core: the object tree and the intrusive lists it is made
of, the services every transformation builds on, the expansion of generates, the
visitors with one method per class, the exchange of trees through XML, and the
translation of types and standard libraries between languages. TLC checks the models on
small instances; TLAPS proves the results about the tree, the lists, the trash, the sort
and the names for every value of the constants.

Paths below are relative to the repository root unless they name a file of this
directory.

## 1. The system

hif-core is a C++ library. A *description* (a hardware design read from VHDL,
Verilog or HIF XML) is a tree of heap-allocated nodes. Front ends build it,
transformations (`src/manipulation`, `src/semantics`, `src/analysis`) rewrite it
in place, and back ends print it. The library is single-threaded, keeps no
persistent state apart from the files it reads and writes, and handles internal
errors by ending the program (`messageError`, `messageAssert`). What is hard about
it is therefore not concurrency or crashes but

* long sequences of legal calls on a pointer structure whose facts are stored twice;
* loops that change the list they walk, deletes that happen later than the decision
  to delete, and knowledge that goes stale (iterators, back pointers, names,
  cached declarations);
* agreement: about 90 classes, each with a method in some twelve visitors, and three
  languages each with its own tables. A member one of them forgets is lost silently.

### Inventory

| Component | State it keeps | Operations | Interacts with | What is hard | What makes it correct |
|---|---|---|---|---|---|
| **BList / BListHost** (`src/BListHost.cpp`, `include/hif/classes/BListHost.hpp`) | `_head`, `_tail`, `_parent`; per link `next`, `prev`, `parentlist`, `element` | push, erase, remove, clear, merge, swap, sort, insert, splices, remove_dopplegangers, sub-tree removal; iterator moves, erase, remove, assignment, insertion | writes `_parentlink`, `_parent` and `_field` of the elements; deletes elements | iterators are bare link pointers; each list end, link and element has to be updated by hand; loops change the list under their iterator | links mirror each other, ends are exact, no link is cut off, an iterator is never on a freed link; the list is the sequence its documentation says |
| **Object tree** (`src/classes/Object.cpp`) | `_parent`, `_field`, `_parentlink` per node; the node classes' members | constructor, destructor, setChild, replace, replaceWithList, getParent | BList; every transformation | ownership is stored on both sides; a node can be in a field or in a list; calls with a node that is somewhere else already | both sides agree; a forest; no pointer to a deleted node; each call moves exactly what it names |
| **Tree queries** (`src/hif_utils`) | none | isSubNode, getNearestParent, isInTree, ... | climb `getParent()` | end only on a forest | agree with what the owners own |
| **Trash** (`src/trash.cpp`) | `_holder`, a set of nodes | insert, remove, reset, clear(where) | deletes sub-trees through the tree operations | order of addresses; nested thrown nodes; the node in use | no double delete, nothing dangling, all is deleted, the node in use survives |
| **NameTable** (`src/NameTable.cpp`) | the registered names | getFreshName, registerName | about 50 callers in the transformations | names read from files are not registered | fresh names differ |
| **HifNodeRef** (`src/HifNodeRef.cpp`) | a placeholder node on the stack | constructor, replace, destructor | Object::replace | a stack node in a heap tree | it has left the tree before its scope ends |
| **Node classes** (`src/classes`, `include/hif/classes`) | the members of each class | setters, `_calculateFields` | every visitor | a member has to be named in a dozen places | every place names every member |
| **Visitors** (GuideVisitor, AncestorVisitor, DeclarationVisitor, ...) | position | one method per class | the tree changes under them | replacing or deleting the visited node | every node visited once; no freed node visited |
| **Copy, equals, key, match** (`src/hif_utils`, `src/manipulation/matchObject.cpp`) | options | one method per class | each other: a copy is assumed equal to its original | as for the node classes | a copy is equal; a difference is seen; a match is at the same place |
| **Declarations and references** (`src/semantics`) | the cached declaration in each symbol | getDeclaration, setDeclaration, resetDeclarations, getReferences, DeclarationsStack | tree, names | cached pointers and moves or deletes of declarations | a cached declaration is the one a lookup would find |
| **Scope manipulation** (moveToScope, moveDeclaration, renameConflictingDeclarations, ...) | none | move and rename with all references | NameTable, references, tree | a renamed declaration captured by, or capturing, another | references keep their declaration |
| **Simplification** (`simplify.cpp`) | `_result`, `_trash` | replace the visited node, or with a list; expand generates, unroll loops | tree, Trash, scopes, copies | copies with new names; deletes of what the visitor stands in | every iteration is there once, with its own index |
| **Types and language semantics** | cached semantic type | getSemanticType, resetTypes; the VHDL, Verilog, SystemC and HIF rules | declarations | three sets of rules for one operator | a translated value has the translated type |
| **Standardization and checks** (`standardizeHif.cpp`, `checkHif.cpp`) | a map from nodes to their types | one method per class | types | two visitors with rules of their own | what one makes the other accepts |
| **Standard libraries and symbols** (`*Semantics_libraries`, `mapStandardSymbols.cpp`) | registries, sets of libraries in use | fill a library; map a symbol | declarations, Trash | libraries, registries and mappings are three tables | every reference ends at a declaration |
| **XML reader and writer** (`XmlParser.cpp`, `PrintXmlVisitor.cpp`) | the document | one method per class on each side | node classes, standard libraries | two hand-written halves of one format | what is written is read back |
| **Graph sorting** (`src/analysis/sortGraph.cpp`) | none | sortGraph | - | levels, ties, stable list | a topological order of all nodes |
| **Application utilities** | Log's header stacks, StepFileManager's counters | initialize/restore, printStep, checkStepName | all entry points | stacks pushed and popped by hand; two counters in step | balanced; step numbers agree |
| Search, sorting manipulations, merging, instantiation, process analysis, back ends, HIF printing, factory | mostly none | per-class rules | tree | volume, not protocol | - |

`PROJECT.json` lists every component with its status, and every hazard found in the
survey with its line and the properties that cover it.

## 2. The modules

| Module | What it is |
|---|---|
| `BList` | lists, links and iterator at pointer level; the refinement mapping to `ObjectLists` |
| `ObjectLists` | the abstract specification of a family of lists: sequences and a cursor |
| `HifTree` | ownership in the tree: both sides, all operations that move or delete nodes; the refinement mapping to `HifForest` |
| `HifForest` | the abstract specification of the tree: nodes in places |
| `Trash` | extends `HifTree` with `hif::Trash`, `clear()` one iteration at a time |
| `ListLoops` | the operations that loop over a list while changing it, one turn a step |
| `ListSort` | the bubble sort over links, and its proof |
| `NameTable` | names and the declarations they are given to, and a proof |
| `Scopes` | extends `NameTable`: scopes, declarations, references; moves and renamings |
| `GenerateExpansion` | extends `Scopes`: generates expanded and loops unrolled, after other passes |
| `HifMembers`, `HifClasses` | enumerations; the classes with their members, defaults and setters |
| `GuideVisitor`, `CopyVisitor`, `EqualsVisitor`, `MatchingVisitor` | one row per visit method; what walking, copying, comparing and keying, and matching compute from the rows |
| `ObjectLife` | composes the four: an object changed, copied, its copy changed |
| `XmlPrinter`, `XmlReader` | one row per visit method of the writer and of the reader |
| `XmlLife` | composes the two: an object made, saved, loaded |
| `SemanticTypes` | types and the helpers the rules compute with |
| `HIFTypeRules`, `VHDLTypeRules`, `VerilogTypeRules` | the rules of each language |
| `HifChecks` | the type of a value by language; what `checkHif` demands of each class |
| `Standardization` | extends `HifChecks`: what `standardizeHif` makes of a value |
| `StandardLibraries`, `VHDLLibraries`, `VerilogLibraries`, `SystemCLibraries` | the declarations of the 39 standard packages |
| `StandardMappings`, `StandardSymbols` | what a symbol is mapped to; `mapStandardSymbols` over a design |
| `MC*` | instances for TLC: constant values and symmetry |
| `*_proofs` | theorems and their proofs |
| `BList_implements` | the proof that `BList` implements `ObjectLists` |

Lists appear at three levels, each at the grain its questions need. `BList` has
the pointers and treats an operation as one step; `ListLoops` and `ListSort` have
sequences (which `BList` is shown to implement) and step through the loops;
`HifTree` has the *set* of a list's elements, because ownership does not
depend on their order, and adds fields, parents and deletes.

### `BList`

`head`, `tail` are `_head`, `_tail`; `next`, `prev`, `parentlist`, `element` are the
members of `BLink`; `parentlink` is `Object::_parentlink`; `live` is the set of
allocated objects; `iter` is the `_link` of one client iterator. A link that is not
allocated has NULL fields, as the debug build's `~BLink` leaves them, so that reading
through a freed link would be visible.

There is one action per member function that writes a pointer. `remove_dopplegangers`,
`removeSubTree`, `eraseSubTree`, the splices and `sort` are compositions of these at
pointer level, and `ListLoops` and `ListSort` follow their loops. `remove(o)` and
`erase(o)` search the list and do nothing when `o` is not in it, which is a stutter.

Obligations of the caller, taken from how the library calls these functions and not
checked by the code: an object handed to an insertion is in no list; while an
iterator is used its link is not freed through the *list*. Freeing it through the
*iterator* is of course allowed, and is what `IteratorValid` is about.
`SwapContents` (`BListHost::swap(other)`) has no caller in the library and is kept out
of `Next`: it exchanges the ends and leaves `parentlist` of the links as it was.

### `HifTree`

`child[s]` is the content of a field `s` of node `SlotOwner[s]`, `members[L]` the
elements of list `L` of node `ListOwner[L]` (NULL: a free-standing list, a local
variable of some transformation). `field`, `parent`, `inlist` are the node's `_field`,
`_parent` and `_parentlink->parentlist`. The node classes differ only in which fields
and lists they have, so `SlotOwner` and `ListOwner`, which are constants of any shape,
stand for all of them.

`SetChild`, `ReplaceCall` and `ReplaceWithList` keep the order of the writes of the
code where it matters: `Written` is `*field = other` followed by `*other->_field = nullptr`,
which differ when a node replaces itself. (It ends up detached; that is what the code
does, and `HifForest` has a `Take` for it.) The early returns are there:
setChild with the present content, replace without a parent. `ReplaceWithListOrphan`
is the half-done result when the list of `this` has no parent.

`Destroy` is the cascade of destructors. It does not repair pointers outside the deleted
sub-tree, since no destructor does; that nothing outside refers into it is what
`NothingDangles` says, and follows from each caller's taking the roots out first.

Obligations of the caller: a node handed to a list operation is detached, one handed to
`replace` is in no list, a node is not made its own descendant, and `delete` is applied
to a detached node.

### `Trash`

`Trash` EXTENDS `HifTree`: between calls the client may do anything to the tree that
keeps the thrown nodes allocated. `clear(where)` is a loop over a `std::set` of
pointers, whose order is that of the addresses: the model takes any element. The inner
loop also depends on the order: on its way to an ancestor of `o` it may already have
dropped descendants, and `LeaveToAncestor` allows every such set. `start` and `doomed`
are history variables that only properties read.

### `ListLoops`, `ListSort`

One turn of a loop is one step; positions stand for the iterators. `class` in
`ListLoops` is what `hif::equals` can tell apart (for the strict variant, which compares
pointers, every element is a class of its own, and nothing is removed). In `eraseSubTree`
what `isSubNode` reads from a deleted node is undefined behaviour, so after the erase both
answers are possible. Builds are debug builds unless somebody asks for another
(`CMakeLists.txt:13`), so the assertion in `iterator::operator+` is live.

### `NameTable`, `Scopes`, `GenerateExpansion`

A name is a root and the numbers appended with underscores, so `a_0` is `<<a, 0>>`
whichever call made it, and a prefix may itself be a fresh name. `Read` gives a
declaration the name a file has for it; the readers do not register these names. A
textual suffix is part of the root. Left out: the special names the constructor registers
(`(no name)` and the like, which no identifier equals) and the list of forbidden names,
which getFreshName does not consult.

In `Scopes` an object is a record of what it is a copy of and of the index values of the
generates around it when it was copied; `up` and `lists` are the parent of each node and
its lists, `says` the name a reference is written with, `cached` the declaration that an
`ISymbol` remembers. A lookup that may or may not have been done before is a choice of
the model, so every property holds for either. `moveToScope`, `moveDeclaration`,
`renameInScope`, `renameConflictingDeclarations` (with `infos.result`, which it does not
initialize) and `checkConflictingName` are operators that the actions of
`GenerateExpansion` use: `MovePass`, `RenamePass`, `ForPass` and `ConflictPass` are what
other passes may have done before, the rest is `SimplifyVisitor`. Its visit of a `for`
generate is one step per copy and one per object moved out of the copy. `GuideVisitor` ends
its visit of every object with `AfterVisit()` (`simplify.cpp:6584`), which empties the
trash: it is a step of its own, and nothing is thrown, moved or deleted while `thrown` is
not empty. So what was thrown out of a copy, by the pre-visit (`PreVisit`) or by the
expansion of an inner generate, is deleted by the `AfterVisit()` that ends the visit of the
copy, before `delete copy` (`simplify.cpp:4390`), and `~SimplifyVisitor()` finds the trash
empty (`End`). This is also where `SimplifyVisitor` keeps the client's side of `Trash`.

The model follows a release build, in which the debug assertions of these passes are
off. `FOR_UNROLL_THRESHOLD` and the options that switch parts of the visitor off are
abstracted: what may be unrolled is.

`ContentOf` says which lists an object of each class has and what may be in them, `Level`
how deep an object of the design is, and `IsDesign` what a design is before anything is
done to it: a tree whose objects are once in a list of their parent. The run has designs of
this kind, and TLC evaluates the assumption on all of them; the proofs use no more than it.

### The visitors: `HifClasses` to `XmlLife`

`HifClasses` has the fields, lists and plain members of each concrete class, from its
header, and what its setters may put there. Each visitor is a function from classes to
rows, each row the translation of one visit method: an ordered list of slots for the
walk, the set of members a method of the copy copies itself and the base classes it goes
on to, the members with their conditions for `equals`, the children that `matchObject`
goes down to, the tag, attributes and parts of an element. Attributes are small numbers
(0 is the default); names, texts and numbers are what their conversion to text and back
keeps of them. `ObjectLife` and `XmlLife` give an object of each class settings and
children and compare what the visitors say of it.

### `SemanticTypes` to `Standardization`

A type is a record with the members of all type classes; a span is its number of bits.
`HifChecks` computes the type of a value in a language as `getSemanticType` does, with
the rules of that language, and has a row per class of what `checkHif` demands.
`Standardization` has a row per class of what the visit method does with each part; its
state is a value with its types in both languages, each action wraps it in one more
construct, and a failed assertion is no step.

### `StandardLibraries` to `StandardSymbols`

The packages are sets of declarations (kind, name, parameters, result, uses). One action
of `StandardSymbols` is one stage of `mapStandardSymbols`: collecting the references,
replacing the libraries, mapping each reference and each use inside a library that stays,
clearing the trash. A design comes from a language into HIF and goes out to another, each
call in a process of its own.

## 3. What TLC checks

| Run | Bounds | Distinct states | Shows |
|---|---|---|---|
| `blist` | 5 objects, 5 links, 2 lists, symmetry on objects and links | 196 | the pointer structure is sound (`ListInv`: `ElementsExact`, `LinksMirror`, `EndsExact`, `WalkComplete`, `IteratorValid`; `GetBListExact`); it implements sequences (`ImplementsLists`); front and back, before and after are not confused (`OperationsExact`) |
| `hiftree` | 4 nodes, 3 fields, 3 lists (one free-standing), symmetry on the leaves and on the fields of one node | 374 | `TreeInv` (ownership exact, nothing dangles, climbs end), `Acyclic`, `UpAgreesWithDown`; it implements `HifForest` |
| `trash` | 3 nodes, 2 fields, 2 lists | 2,754 | the tree stays whole through `clear()`, the node in use survives, only what was thrown dies, and at the end all of it has; `ClearEnds` |
| `listsort` | all lists of 5 elements with 3 ranks | 3,645 | stable sort, exact return value, termination |
| `listloops` | lists up to 4 and 3 elements, every argument | 3,457 | every loop has the effect its comment says, and ends |
| `generates` | one loop or generate with another inside, up to two named parts of two names, one reference anywhere, one pass before; and every header of small numbers | 184,421 | every iteration is there once with the values of its own indexes; references keep what they mean; no move or renaming gives two things one name; nothing is deleted while the trash holds what is below it (`ThrownAllocated`) |
| `objectlife` | every concrete class, 35 children to put in its slots, one setting, 4 sets of copy options, two edits of the copy | 339,092 | walk, fields, copy, comparison, key and match of each class agree |
| `xmllife` | every concrete class, a child of every class, two settings | 236,898 | what is written is read, restored, and written the same again |
| `standardize` | 9 pairs of HIF, VHDL, Verilog, 15 types, 12 operators, one construct around a value | 49,038 | the type follows, no bits are lost, the checks accept |
| `symbols` | 39 packages, every declaration with every list of arguments, 3 source and 3 destination languages | 35,908 | every reference is resolved and included |

Why the bounds are enough. A list operation touches at most two links beside the one it
is about, and two lists; with five links two lists of two and three exist, so that first,
inner and last links, lists of one and empty lists occur in both roles, and an iterator can
stand inside a list while both ends of both lists are other elements. A tree operation
involves at most a node, the place it comes from, the place it goes to and the node it
displaces; four nodes, two of them with fields and lists of their own, give chains of
three and every combination of field, list and free-standing list for the two places.
A trash needs three nodes on one path for the case of a kept ancestor, a thrown node
below it, and a node in use. The proofs remove these bounds for what they cover. A
generate needs one other inside it for a copy of a copy, and two declarations and a
reference for a capture; the second level of nesting and named scopes do not occur in
the instance. The visit methods of a
class read no more than the members of the object, so one object with any child in any
slot reaches every row; the second setting in `xmllife` is for elements whose attributes
and parts get into each other's way. One construct around a value reaches every rule of
every operator and every slot, but not a type that only two operators together produce.
`symbols` is exhaustive for single references and their nested calls.

Deadlock is checked where the specification has no natural end (`blist`, `hiftree`,
`trash`). The other runs follow one call, or one exchange, that finishes, and say
`CHECK_DEADLOCK FALSE`.

Fairness. The only liveness statements are that loops end (`Ends`, `ClearEnds`). They
assume weak fairness of the loop's own step: the code is sequential, a loop that has been
entered executes its next turn, and nothing it waits for is done by anybody else. No
fairness is assumed of clients.

### What the properties except, and why

The agreements between visitors hold up to exceptions that are named operators in
`ObjectLife`, `XmlLife`, `StandardSymbols` and `Standardization`, so that a new
disagreement is a violation. They are facts about the code:

* The copy loses `StringValue::_isPlain`; `equals` and the key never look at some members
  (`EqualsBlind`, `KeyBlind`), and the key of some classes runs texts together
  (`KeyConfused`).
* The reader refuses, of what the writer writes, exactly: a `BitvectorValue` with an
  empty value; `Real`, `Signed` and `Unsigned` without a span; a `PortAssign` with a
  type; a `Range` in a field for values; `Entity`, `Field`,
  `StateTable`, `System` and `View` in a list of declarations; and as instance of a
  referenced type anything but a `Library` or, outside `Library`, a `ViewReference`.
  All else is restored, except that a range loses its details, `Enum` its `constexpr`, a
  string its being plain, a missing name becomes the empty one, a double its last
  digits, and a standard library is replaced by the one of the semantics. The writer
  refuses a root that is no `System`. Trees in which a `PortAssign` has a partial bind are
  left out of the claim, since writer and reader contradict each other on it (see below).
* `ChangesAreSeen` excepts the value of a time, a declaration that is set or forgotten and
  names of properties that change while their number stays; two set declarations that
  differ are seen. `CopyIsEqual` leaves out objects with a time value. The comparison of
  times (`equals.cpp:1742`) is the fault behind both.
* `MatchFindsThePlace`: a pattern in the actions of a system ends the program in the
  assertion of `_matchBList` (`matchObject.cpp:209`), the type and the partial bind of a
  port assignment are not found.
* `CheckAccepts`: for a bound Verilog asks for a register type that its own
  `isTypeAllowedAsBound` (`VerilogSemantics.cpp:554`) refuses again, so that no bound is ever
  accepted; there the bound must be that register. Verilog has no comparison of a switch
  over strings.
* Translating from HIF to VHDL loses the sign of an unsigned 32-bit integer;
  `isSliceTypeRebased` is true in HIF and false in VHDL and Verilog, so a slice starts
  at another bit.
* Mapping symbols: `PlainInHif` (declarations whose HIF form keeps its plain name),
  `BrokenInSystemC`, `Refused`, `Lost` and `Foreign` are described where they are defined.
  `OnlyUnsupportedStop` says nothing of designs that use what is in `Disputed`, on which
  the code says two things (see below). Designs use declarations, so a key that no
  declaration has is never looked up.
* `MeaningFollows` excepts a declaration that leaves a `for` loop, whose references
  `moveToScope` does not look for, and a declaration captured by another of its name that
  has been brought nearer. `NamesApart` excepts fresh names, which are not compared with
  names read from files, and `moveDeclaration`, which compares with declarations only.
* `ElaborationExact` is about designs that no other pass changed before, and excepts a
  step that multiplies and a generate that cannot be expanded inside one that is.

### Where code and documentation disagree

Two runs each check a statement of the repository and TLC finds it violated.
`PROJECT.json` has the quotations.

| Run | Statement | What the code does |
|---|---|---|
| `match_complete` (`MatchIsComplete`) | `matchObject.hpp:42`: the object in the same position is returned | `visitPortAssign` (`matchObject.cpp:1212`) goes down to the type and to the partial bind without `_update()`, which the caller takes for a failure |
| `xml_range_condition` (`RangeConditionLoads`) | `XmlParser.cpp:1035`: the reader checks whether the condition of a loop is a range | the writer (`PrintXmlVisitor.cpp:1783`) puts the parts of the range into CONDITION itself, where the reader expects a RANGE element and stops |

Others are modelled as the code does them and described with the definitions, without a
run of their own: `swap(other)` leaves links with the other list as theirs
(`SwapContents`); `replace` with an `other` that is in a list does not take it out;
`replaceWithList` returns true and has replaced nothing when the list of `this` has no
parent (`ReplaceWithListOrphan`); `clear(where)` drops a node thrown below a kept
ancestor without deleting it, so a later move of it is not noticed; a fresh name may
occur in a file; `eraseSubTree` ends the program when it erased the last element and
walks on past one element with a freed argument otherwise; getFreshName(prefix) never
returns the prefix itself, though `NameTable.hpp:59` says it does when the prefix is
free; insert() beyond the end of a list, which `BListHost.hpp:162` says appends, ends a
build with assertions in operator+. The properties make no claim, or name the exception,
where these disagree:

| What the repository says | What the code does |
|---|---|
| `XmlParser.cpp:1725`: "partial bind should never be printed", and the reader stops at its element | `PrintXmlVisitor.cpp:1661-1662` prints every partial bind (`PartlyBound`) |
| `XmlParser.cpp:1721`: the TYPE of a port assignment is a type | `PrintXmlVisitor.cpp:1657-1658` writes the assignment's value as TYPE, and the reader stops (`Unreadable`) |
| `HIFSemantics_methods.cpp:472`: `to_x01` and `to_ux01` of bits are "simplified as cast", with the casts at 627-651 | `getSimplifiedSymbol` (501-506) stops, as the registry has neither key (`Disputed`) |
| `HIFSemantics_methods.cpp:1066-1071`: calls nested in an `iterated_concat` are canonicalized, "otherwise the reset re-resolves names that no destination library declares" | a call that is not registered keeps its name, and the reset does not find it (`Disputed`) |
| `HIFSemantics_init.cpp:77` registers `to_std_logic_vector`; `VHDLSemantics_methods.cpp:1002-1007` has the comment "function TO_STDLOGICVECTOR" | the two functions under the comment are declared as `to_signed`, so the key has no declaration |
| `equals.cpp:1742`: two times are compared with a tolerance | they are different when they are within it |
| `matchObject.hpp:42`: the object in the same position is returned | for the actions of a system `visitSystem` (`matchObject.cpp:346-358`) passes a null list and the assertion of line 209 ends the program |

## 4. What TLAPS proves

For all values of the constants, from the assumptions named in the modules
(`NullAssumption`, `TreeAssumption`, `SortAssumption`, `NameAssumption`,
`NamelessAssumption`, `LoopAssumption`, `LevelAssumption`, `PassAssumption`,
`RunsAssumption`, `DesignAssumption`: NULL is no object, the owners are functions of any
shape, sizes and depths are numbers, designs are trees).

* **`BList_proofs`**: `TypeCorrect`, `ElementsKept`, `StructureKept`, `ListsKept`,
  `GetBListKept`. The invariant is `TypeOK /\ ListInv`. `EndsExact` needs `LinksMirror`
  (the new head after a removal has no predecessor only if the mirror held), and
  `LinksMirror` needs `ElementsExact` for what a freed link looks like. `WalkComplete`, a
  statement about reachability, is the hard one: a walk is the least set that contains the
  head and is closed under `next`, so for each operation one shows that a closed set after
  the step gives a closed set before it.
* **`BList_implements`**: `ListsImplemented`, `OperationsKept`, the refinement to
  `ObjectLists`. What joins pointers and sequences is a walk: `IsWalk(n, s, L)` says that
  `s` is the `n` links met from `_head` of `L` along `next`. In a state of `ListInv` a
  list has one walk at most, and `Content` reads the elements along it (`WalkIs`,
  `ContentIs`). That it has one, so that a chain is finite, is what the proof adds to the
  invariant (`WalksFinite`): each operation changes the walks in one of four ways, a place
  is put in or cut out, a walk is emptied, two are joined. From these follow the effect
  on the sequences, one lemma per operation, and where an element stands (`PlaceIs`). The
  induction over the chain that a recursive reading seems to need is replaced by
  `WalkComplete`: the links up to which two readings agree hold the head and are closed
  under `next`, so they are all.
* **`HifTree_proofs`**: `TypeCorrect`, `TreeKept`, `NoDanglingPointer`, `ForestKept`,
  `ClimbsEnd`, `SubNodeMeansSubtree`, `TreeImplementsForest`. The invariant is `TypeOK`
  with `TreeInv`: `OwnershipExact`, `NothingDangles` and `ClimbEnds`. `NothingDangles`
  alone is not inductive: that a delete leaves nothing behind needs `OwnershipExact` (a
  deleted node is owned from one place only). No cycle is shown on the climbing side,
  where a node has one parent and an operation changes few of them;
  `SubNodeMeansSubtree` then carries it over to the side of the owners, which is what
  `Acyclic` states. `TreeImplementsForest` is the refinement: the mapping takes the
  place of a node from `_field` and `_parentlink`, and one lemma per operation shows that
  all the pointers it writes amount to one `Take`, `Put` or exchange of the abstract
  forest, or to nothing. Three facts carry it: what is in a place is what says it is there
  (`ContentIs`), what the destructors reach going down is what climbs to the node
  (`BelowIsSubtree`, so that the concrete and the abstract delete take away the same
  nodes), and the abstract guard that no node goes below itself follows from the
  concrete one (`NoCycleMade`).
* **`Trash_proofs`**: `TrashAllocated`, `TrashSound`, `WhereKept`, `NothingElseDies`,
  `ClearIsExact`. The invariant `TrashInv` adds to that of the tree what `clear()` knows
  in the middle of its loop: what is set aside in `tmpTrash` is above the node in use
  (`KeptUp`), which is allocated (`InUse`); everything below a thrown node that is left
  was meant to go (`Marked`); and without a node in use, every node that was meant to go
  and is still there is below a thrown node that is left (`Covered`). The last is why the
  order of addresses makes no difference, and gives `ClearExact` when the holder is
  empty. The argument is one about ancestors: a delete changes the way up of no node
  outside the deleted sub-tree (`AncestorsKept`). The steps of the client between calls
  are those of `HifTree`, whose preservation lemmas are used as they are.
* **`ListLoops_proofs`**: `ListLoopsExact` (`LoopsExact`). The invariant `LoopInv` says,
  for each loop, what every position of both lists holds after a number of turns, as a
  function of the lists at the start: no fold is needed. That no element is lost or
  doubled is a bijection between positions whose inverse is written down.
* **`ListSort`** (in the second half of the module): `TypeCorrect`, `SortPermutes`, `SortIsStable`, `SortIsExact`,
  `SortReportsChange`. The invariant `SortInv` adds `Settled` (what is behind `high` is in
  its final place), `Carried` (the inner loop carries the greatest element so far) and
  `Witness` (once something was swapped, some pair is inverted for good, since a bubble
  sort never swaps a pair back).
* **`NameTable`** (at the end of the module): `FreshNamesAreUnique`, from the invariant that every name
  getFreshName gave is in the table and that nothing is ever taken out of it. The theorem
  is about `NameTable`'s own specification.
* **`GenerateExpansion_proofs`**: `GenerateInductive`, `FreshNamesStayApart`,
  `NamesStayApart`, `TreeStays`, `CopiesNeverMeet`, `TrashStaysAllocated`,
  `IterationsAreTheRun`, for every design, every number of passes before the visit, and every depth of nesting.

  The first is the invariant `GenerateInv` with `ThrownInv`, the others but the last follow from it. That names
  stay apart needs the object tree: a conflict is looked for in the lists of a scope, so
  whatever hangs from the scope must be in one of these (`Structure`: nodes are deeper than
  their parents, once in one list, of the right class), and a fresh name is fresh only if
  the table has all fresh names (`Registered`). That the *tree* stays one is what the
  expansion makes hard. `Copy` adds a subtree of new nodes in the place of the generate,
  and is sound only if the nodes are new: so nothing under a generate that may still be
  copied has a copy at an index that has not been reached (`CopiesFresh`). For nested
  generates that holds only because what one open generate copies, no other does
  (`HeadsApart`), because the visitor is never inside a generate that will be copied again
  (`OpenOutside`), and because the stack is what it should be: each open generate hangs in
  the copy that the one before is making, and is out of the tree while its own copy is in it
  (`Frames`). `Restore` is the other half: the copy is emptied and deleted, the generate
  comes back, and the index has been reached. An unrolled loop is put in a list in the
  place of one element (`Replaced`). Before the visit nothing is copied (`Phases`), which
  is why the passes keep all this without a word about copies. `TreeStays` and
  `CopiesNeverMeet` are about the visit (`state = "visiting"`): when it is over, or an
  assertion has ended it, things stay as they are. TLC has checked `GenerateInv` on the
  states of `generates`.

  `TrashStaysAllocated` needs `ThrownInv`: the trash holds one node at a time, in the tree
  and deeper than every scope that is still open. Every other step waits for `AfterVisit`,
  which empties the trash, and what it deletes is below no open generate and holds none
  (`Discarded`), so the invariant above outlives it.

  What is under a node is the recursive function `Below`; that it is the solution of
  its recursion is shown by induction over the depth (`BelowFixed`, `BelowStep`), written
  as the argument about a least counterexample, and subtrees are compared by their
  highest node (`Highest`, `UnderUnique`). The values of an index are a recursive
  function too (`ValuesAre`).

  `IterationsAreTheRun` is about the arithmetic: with `loops`, `min`, `max` and `step` as
  `_resolveForLoopBound_calculateIterations` computes them, the run of the loop has `loops`
  values, they are those that unrolling substitutes, in the same order, and as a set they
  are `min`, `min + step`, ... up to `max`, which is how a generate steps through them. It
  is stated for headers that the visitor resolves and does not assert on, for a step that
  adds, subtracts or is absent (a step that multiplies is counted as one that adds), and for
  a loop that ends within the bound on runs.

Model-checked only:

* liveness (`Ends`, `ClearEnds`): liveness under fairness is outside what the prover
  handles;
* `ElaborationExact` and `MeaningFollows` of `generates`. The first is about the history of
  the whole expansion, an induction over the nesting of the design whose step is
  `CopiesNeverMeet` and `IterationsAreTheRun`; the second is about what a lookup finds
  after a step, in any cache, for every reference. No inductive invariant for them has been
  written;
* `objectlife`, `xmllife`, `standardize`: their modules compute walks over objects and
  expressions with RECURSIVE operators, which the provers cannot reason about;
* `symbols`: the statements are about finite tables, which TLC evaluates entirely.

## 5. Not modelled, and why

The SystemC typing rules, `compare`, `mergeTrees`, `resolveTemplates`, instantiation and
`flattenDesign`, the simplification of expressions, process analysis and the back ends are
large sets of per-class rules without a protocol of their own. The character level of
XML and of the printers is input and output. Comments and source positions of nodes have
no effect on the structure; `ObjectLife` and `XmlLife` treat them as members. The copy
constructor of lists and `hif::copy` of a whole design build fresh trees, which in
`HifTree` is a sequence of `New`, `SetChild` and `Insert`. The values of constant
expressions are known or unknown to the models, never computed.

## 6. Plan

1. Proofs: `MeaningFollows` over the invariant of `GenerateExpansion_proofs`, one
   operation at a time, beginning with a rename.
2. `DeclarationsStack` and the cached declaration of symbols over `HifTree`, with reuse
   of addresses. Property: a cached declaration is the visible one, or is reset.
3. A visitor over a tree that the visited method changes, composed with `Trash`;
   HifNodeRef as a node of automatic storage.
4. `sortGraph` against an abstract topological order; the step counters of
   StepFileManager and the header stacks of Log.

To run: `tlc -config MCBList.cfg MCBList` and likewise for each run of `PROJECT.json`
(`listsort` and `listloops` run the modules `ListSort` and `ListLoops` themselves);
`tlapm BList_proofs.tla` and likewise for the other proof modules.
