----------------------------- MODULE ObjectLife -----------------------------
(***************************************************************************)
(* The life of one object of any class: made, changed by its setters,      *)
(* copied, the copy changed.  Walks, copies, comparisons, keys and matches *)
(* of the two are what the visitors of hif_utils and manipulation compute, *)
(* each a table of GuideVisitor, CopyVisitor, EqualsVisitor or             *)
(* MatchingVisitor; the properties relate what the tables say of a class.  *)
(***************************************************************************)
EXTENDS CopyVisitor, EqualsVisitor, GuideVisitor, MatchingVisitor

CONSTANTS Subjects,      \* the classes of the objects that are made
          Pool,          \* the objects that are put below them
          OptionSets,    \* the sets of CopyOptions that copies are made with
          MaxSettings,   \* bound on the changes to the original
          MaxEdits       \* bound on the changes to the copy

ASSUME SubjectsAssumption == Subjects \subseteq Concrete

VARIABLES original,      \* an object nobody owns
          copied,        \* <<>>, or <<its copy>>
          options,       \* the options of the copy
          settings,      \* history: the changes to the original
          edits          \* history: the changes to the copy

vars == <<original, copied, options, settings, edits>>

Init ==
    /\ original \in {New(c) : c \in Subjects}
    /\ copied = <<>>
    /\ options = {}
    /\ settings = 0 /\ edits = 0

\* A string attribute, the properties and the declaration of a symbol have two values
\* that are not the default; other attributes count as flags.
Values(a) ==
    IF a \in {"name", "filename", "prevName", "designUnit", "properties", "declaration"} THEN 0 .. 2 ELSE 0 .. 1

\* Range::setSemanticType refuses every type.
Settable(c) == AttrsOf[c] \ (IF c = "Range" THEN {"semanticType"} ELSE {})

\* How many objects slot s of a c has room for: a field for one, a list for any
\* number (two are enough to have an order).
Room(c, s) == IF s \in ListsOf[c] THEN 2 ELSE 1

\* What a setter, the setter of a field or push_back makes of o.
WithAttr(o)  == UNION {{SetAttr(o, a, v) : v \in Values(a) \ {o.attrs[a]}} : a \in Settable(o.class)}
WithChild(o) ==
    {SetKids(o, s, Append(o.kids[s], child)) :
        <<s, child>> \in {sc \in SlotsOf[o.class] \X Pool :
                             Fits(o, sc[1], sc[2]) /\ Len(o.kids[sc[1]]) < Room(o.class, sc[1])}}
\* What setting a field to null or removing the last of a list makes of o.
WithoutChild(o) ==
    {SetKids(o, s, Front(o.kids[s])) : s \in {s \in SlotsOf[o.class] : o.kids[s] # <<>>}}

Set ==
    /\ copied = <<>> /\ settings < MaxSettings
    /\ original' \in WithAttr(original) \cup WithChild(original)
    /\ settings' = settings + 1
    /\ UNCHANGED <<copied, options, edits>>

DoCopy(on) ==
    /\ copied = <<>>
    /\ copied' = <<CopyOf(original, on)>>
    /\ options' = on
    /\ UNCHANGED <<original, settings, edits>>

Edit ==
    /\ copied # <<>> /\ options = DefaultCopy /\ edits < MaxEdits
    /\ \E o \in WithAttr(copied[1]) \cup WithChild(copied[1]) \cup WithoutChild(copied[1]) : copied' = <<o>>
    /\ edits' = edits + 1
    /\ UNCHANGED <<original, options, settings>>

Next == Set \/ (\E on \in OptionSets : DoCopy(on)) \/ Edit

Spec == Init /\ [][Next]_vars

-----------------------------------------------------------------------------
\* The attributes that an operation loses or never looks at, class by class.
LostByCopy  == [StringValue |-> {"plain"}]
EqualsBlind == [Contents |-> {"libraries", "name"}, Enum |-> {"constexpr"}, GlobalAction |-> {"properties"},
                StringValue |-> {"plain"}, System |-> {"keywords", "version"}, Transition |-> {"prevName"}]
KeyBlind    == [Assign |-> {"properties"}, Expression |-> {"properties"}, Range |-> {"properties"},
                WhenAlt |-> {"properties"}, With |-> {"properties"}, Bitvector |-> {"signed"}, StateTable |-> {"entryState"}, System |-> {"name"},
                Transition |-> {"enablingOr"}, View |-> {"filename"}]
\* Members whose texts run into each other in the key of the class: strings side
\* by side, and optional children without a placeholder.
KeyConfused == [Library |-> {"name", "filename"}, Transition |-> {"name", "prevName"},
                ViewReference |-> {"name", "designUnit"}, Wait |-> {"condition", "time", "repetitions"},
                PortAssign |-> {"value", "partialBind"}, Member |-> {"prefix", "index"},
                Slice |-> {"prefix", "span"}]
               @@ [c \in {c \in Concrete : IsA(c, "DataDeclaration")} |-> {"value", "range"}]

\* Owned by the constructor, the destructor and the setter, absent from getFields.
Unlisted == [Range |-> {"type"}]

RECURSIVE ObjectAt(_, _)
ObjectAt(o, path) == IF path = <<>> THEN o ELSE ObjectAt(o.kids[path[1][1]][path[1][2]], Tail(path))

\* Whether path p goes through one of the slots of a set.
Through(p, slots) ==
    \E i \in DOMAIN p : <<ObjectAt(original, SubSeq(p, 1, i - 1)).class, p[i][1]>> \in slots

Unedited == copied # <<>> /\ edits = 0
Strict   == DefaultEquals \cup Assurances
Classed(o) == {Walk(o)[i].class : i \in DOMAIN Walk(o)}

-----------------------------------------------------------------------------
\* The visitors and the users of getFields see the same tree, each object once:
\* a member forgotten by one of the visit methods, or by _calculateFields, is
\* skipped by every pass that walks the one or the other way.  Only the type of
\* a range is seen by the visitors alone.
WalkReachesEachOnce ==
    /\ Len(Walk(original)) = TreeSize(original, SlotsOf)
    /\ LET untyped == Without(original, [c \in Concrete |-> Of(Unlisted, c)])
       IN  Len(Walk(untyped)) = TreeSize(original, [c \in Concrete |-> ListedSlots(c)])

\* A copy has everything the original has and its options ask for; a string that
\* is plain is the exception.
CopyLosesOnlyPlain ==
    Unedited => copied[1] = Without(original, [c \in Concrete |->
                    Of(LostByCopy, c) \cup {a \in DOMAIN CopyOption : CopyOption[a] \notin options}
                    \cup (IF "copyChildObjects" \in options THEN {} ELSE SlotsOf[c])])

\* A default copy is equal to its original, whatever is assured, unless there is
\* a time value in it.
CopyIsEqual ==
    Unedited /\ options = DefaultCopy /\ "TimeValue" \notin Classed(original) =>
        Equals(original, copied[1], Strict) /\ Equals(copied[1], original, DefaultEquals)

\* Strict comparison misses no change of the copy but: those of the members it never
\* looks at (EqualsBlind, the comments, the code info and the cached types); the value of
\* a time, which it compares the wrong way round (equals.cpp:1742); names of properties
\* that change while their number stays (_equalsProperties ends with success at the first
\* name that differs); and a declaration of a symbol that is set or forgotten.  Two
\* declarations that are both set it tells apart (_equalsSymbolDeclarations).
ChangesAreSeen ==
    copied # <<>> /\ options = DefaultCopy /\ Equals(original, copied[1], Strict) =>
        /\ Agree(original, copied[1], [c \in Concrete |->
               Of(EqualsBlind, c) \cup {"comments", "codeInfo", "properties"} \cup Cached
               \cup IF c = "TimeValue" THEN {"value"} ELSE {}])
        /\ original.class # "GlobalAction" =>
               (original.attrs["properties"] = 0 <=> copied[1].attrs["properties"] = 0)
        /\ LET declared(o) == IF "declaration" \in AttrsOf[o.class] THEN o.attrs["declaration"] ELSE 0
           IN  declared(original) = declared(copied[1]) \/ 0 \in {declared(original), declared(copied[1])}

\* Two objects with one key are the same but for the members the key leaves out
\* or runs together; with properties, the keywords are in the key as well.
KeysTellApart ==
    copied # <<>> /\ options = DefaultCopy /\ KeyOf(original) = KeyOf(copied[1]) =>
        Agree(original, copied[1], [c \in Concrete |->
            Of(KeyBlind, c) \cup Of(KeyConfused, c) \cup {"comments", "codeInfo"} \cup Cached
            \cup IF original.attrs["properties"] = 0 THEN {"keywords"} ELSE {}])

\* What matchObject finds is at the place of the pattern (the bounds of a range of the
\* other direction trade places).  The assertion of _matchBList (matchObject.cpp:209) ends
\* the program for a pattern in the actions of a system, and for no other one: every other
\* list has its branch in the method of its class.  In a copy every object is found but
\* those and the type and the partial bind of a port assignment.
MatchFindsThePlace ==
    copied # <<>> =>
        \A p \in Paths(original) :
            LET match == Match(original, copied[1], p)
                found == match.object
            IN
            /\ found # <<>> => \E q \in Paths(copied[1]) :
                  /\ Len(q) = Len(p) /\ found[1] = ObjectAt(copied[1], q)
                  /\ \A i \in DOMAIN p : q[i][2] = p[i][2] /\ (q[i] # p[i] => p[i][1] \in {"leftBound", "rightBound"})
            /\ match.stops => Through(p, {<<"System", "actions">>})
            /\ Unedited /\ "copyChildObjects" \in options =>
                  /\ match.stops <=> Through(p, {<<"System", "actions">>})
                  /\ ~match.stops =>
                        (found = <<>> <=> Through(p, {<<"PortAssign", "type">>, <<"PortAssign", "partialBind">>}))

\* matchObject's documentation: it returns the corresponding object in the same
\* position in the matched tree.  A copy has every position.
MatchIsComplete ==
    Unedited /\ options = DefaultCopy =>
        \A p \in Paths(original) : Match(original, copied[1], p) = Found(ObjectAt(copied[1], p))
=============================================================================
