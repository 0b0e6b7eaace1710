--------------------------- MODULE StandardSymbols ---------------------------
(***************************************************************************)
(* hif::semantics::mapStandardSymbols: the references a design makes to    *)
(* the standard libraries of its language become references to the         *)
(* libraries of another semantics. A design comes in from a language       *)
(* (first call, with HIF as the destination) and may go out to one (second *)
(* call, with HIF as the source); every call runs in a process of its own, *)
(* so the file-level sets of mapStandardSymbols.cpp start out empty.       *)
(***************************************************************************)
EXTENDS StandardMappings

CONSTANTS
    SourceLanguages,    \* the languages a design comes in from
    Destinations        \* the languages it goes out to

ASSUME LanguagesAssumption ==
    /\ SourceLanguages \subseteq {"vhdl", "verilog", "systemc"}
    /\ Destinations \subseteq {"vhdl", "verilog", "systemc"}

VARIABLES
    source, target,     \* _srcSem and _destSem
    step,               \* what mapStandardSymbols does next
    libraries,          \* the standard libraries of System::libraryDefs
    trash,              \* the libraries and the entities in the trash
    renamed,            \* the entities that setName has renamed, with their new names
    references,         \* the references of the design to standard symbols
    inner,              \* those of the libraries' own declarations
    inclusions          \* the libraries included where the references are
vars == <<source, target, step, libraries, trash, renamed, references, inner, inclusions>>

------------------------------------------------------------------------------
(* addStandardPackages of VHDL and Verilog: the standard package, and an inclusion of it. *)
StandardPackagesOf(language) ==
    IF language = "systemc" THEN {} ELSE {[language |-> language, form |-> "source", name |-> "standard"]}

(* isStandardInclusion of a library inclusion, and mapStandardFilename. *)
StandardInclusions(semantics) ==
    CASE semantics = "vhdl" -> {"standard", "std_textio"}
      [] semantics \in {"verilog", "systemc"} -> {"standard"}
      [] semantics = "hif" -> {}
WithoutFilename == {"hif_systemc_extensions", "standard", "hdtlib", "ddtclib"}
Inclusion(semantics, name) ==
    [name |-> name,
     kept |-> name[1] = "" /\ (\/ name[2] \in StandardInclusions(semantics)
                               \/ semantics = "systemc" /\ name[2] \notin WithoutFilename)]

------------------------------------------------------------------------------
(* The references. *)

(* A reference: the declaration it was resolved to, its name and the one of its library, its arguments, the
   reference it is nested in (0 for none), and how far mapping it has come. *)
Reference(e, arguments, within) ==
    [entity |-> e, library |-> NameOf(e.library), symbol |-> DeclaredName(e), arguments |-> arguments,
     within |-> within, state |-> "source"]

Uses(e) == {Reference(e, a, 0) : a \in ArgumentLists(e.declaration)}

IteratedConcat(library) == {e \in Entities(library) : e.declaration.name = "iterated_concat"}

(* A design uses one entity, with the type of a value of an enumeration, or replicates a call:
   {$clog2(DEPTH){1'b1}}. *)
Designs(library, standard) ==
    UNION {{IF IsValue(e) THEN <<r, Reference(Owner(e), <<>>, 0)>> ELSE <<r>> : r \in Uses(e)} : e \in Entities(library)}
    \cup UNION {{<<Reference(c, c.declaration.parameters, 0), [r EXCEPT !.within = 1]>> :
                    r \in UNION {Uses(e) : e \in {e \in Entities(library) : e.declaration.kind = "function"}}} :
                c \in UNION {IteratedConcat(l) : l \in standard}}

(* getDeclaration: the entities of a tree that a reference may be resolved to. *)
NameNow(e) == IF \E n \in renamed : n[1] = e THEN (CHOOSE n \in renamed : n[1] = e)[2] ELSE DeclaredName(e)
Renamed(l) == {n[1] : n \in {n \in renamed : n[1].library = l}}
IsTrashed(e) == e.library \in trash \/ e \in trash \/ Owner(e) \in trash
Visible(l, name) == {e \in Searched(l, name) \cup Renamed(l) : NameNow(e) = name}
DeclarationsOf(r, tree) ==
    {e \in UNION {Visible(l, r.symbol) : l \in {l \in tree : NameOf(l) = r.library}} :
        /\ IsCall(e) = IsCall(r.entity)
        /\ IsCall(e) => Takes(e.declaration, r.arguments)}
Resolutions(r) ==
    IF r.state = "gone" THEN {r} ELSE {[r EXCEPT !.entity = e] : e \in DeclarationsOf(r, libraries)}
InnerDeclarations(n, tree) == UNION {Visible(l, n.symbol) : l \in {l \in tree : NameOf(l) = n.library}}

------------------------------------------------------------------------------

Init ==
    /\ source \in SourceLanguages
    /\ \E library \in KnownBy(source) :
        /\ libraries = WithDependencies(WithDependencies({library} \cup StandardPackagesOf(source)))
        /\ references \in Designs(library, StandardPackagesOf(source))
        /\ inclusions = {Inclusion(source, NameOf(library))}
    /\ target = "hif"
    /\ step = "collect"
    /\ trash = {} /\ renamed = {} /\ inner = {}

Stop(reason) ==
    /\ step' = reason
    /\ UNCHANGED <<source, target, libraries, trash, renamed, references, inner, inclusions>>

(* Step 1, getAllReferences with opt.error: every reference has its declaration, or mapping stops. *)
CollectReferences(resolutions, used) ==
    \/ /\ (\E i \in DOMAIN references : resolutions[i] = {}) \/ (\E n \in used : InnerDeclarations(n, libraries) = {})
       /\ Stop("undeclared")
    \/ /\ \A n \in used : InnerDeclarations(n, libraries) # {}
       /\ references' \in [DOMAIN references -> UNION {resolutions[i] : i \in DOMAIN references}]
       /\ \A i \in DOMAIN references : references'[i] \in resolutions[i]
       /\ inner' = used
       /\ step' = "libraries"
       /\ UNCHANGED <<source, target, libraries, trash, renamed, inclusions>>
Collect ==
    /\ step = "collect"
    /\ CollectReferences([i \in DOMAIN references |-> Resolutions(references[i])], UNION {InnerReferences[l] : l \in libraries})

(* What mapStandardSymbol of the destination says of an entity and of a library, and the libraries
   getStandardLibrary of the destination has for it. *)

\* Mutant: the key is made from the name the declaration has now, after an earlier mapping.
EntityValueOfNewName(e) ==
    MapStandardSymbol(target, source, NameOf(e.library), NameNow(e), e.declaration.parameters)

EntityValue(e) == MapStandardSymbol(target, source, NameOf(e.library), DeclaredName(e), e.declaration.parameters)
LibraryMapping(l) ==
    LET value == MapStandardSymbol(target, source, NameOf(l), NameOf(l), <<>>)
        asked == {value.libraries[i] : i \in DOMAIN value.libraries}
        implementations == {m \in KnownBy(target) : NameOf(m) \in asked}
    IN  [of |-> l, action |-> value.action, symbol |-> value.symbol, implementations |-> implementations,
         keepOldImplementation |-> asked # {NameOf(m) : m \in implementations}]

(* Step 2, _fixStandardLibraries with _doStandardLibraryFix: the libraries of the destination come in, those they
   replace go to the trash, and the references and the inclusions take the names of the new ones. *)
Inconsistent(found) ==
    \E f \in found : f.action \notin {"keep", "delete"} \/ (f.action = "keep") # f.keepOldImplementation
FixLibraries(found) ==
    LET gone == {f.of : f \in {f \in found : f.action = "delete"}}
        mappingOf(name) == {f \in found : NameOf(f.of) = name}
        now(name) == IF mappingOf(name) = {} THEN name ELSE (CHOOSE f \in mappingOf(name) : TRUE).symbol
    IN  /\ libraries' = libraries \cup UNION {f.implementations : f \in found}
        /\ trash' = trash \cup gone
        /\ references' = [i \in DOMAIN references |-> [references[i] EXCEPT !.library = now(@)]]
        /\ inner' = {[n EXCEPT !.library = now(@)] : n \in {n \in inner : n.in \notin gone}}
        /\ inclusions' = {[c EXCEPT !.name = now(@)] : c \in {c \in inclusions : c.kept \/ mappingOf(c.name) = {}}}
FixStandardLibraries ==
    /\ step = "libraries"
    /\ \E found \in {{LibraryMapping(l) : l \in libraries \cap KnownBy(source)}} :
        \/ (\E f \in found : f.action = "unknown") /\ Stop("library without a mapping")
        \/ (\A f \in found : f.action # "unknown") /\ Inconsistent(found) /\ Stop("inconsistent implementation")
        \/ /\ ~Inconsistent(found)
           /\ FixLibraries(found)
           /\ step' = "symbols"
           /\ UNCHANGED <<source, target, renamed>>

------------------------------------------------------------------------------
(* Step 3, _fixSymbols: one reference at a time. *)

(* The mapping of one entity applied to it: kept under its new name, or into the trash. *)
KeepOrTrash(e, value) ==
    /\ renamed' = IF value.action = "keep" THEN {n \in renamed : n[1] # e} \cup {<<e, value.symbol>>} ELSE renamed
    /\ trash' = IF value.action = "delete" THEN trash \cup {e} ELSE trash

ToSymbol(i, value, state) ==
    references' = [references EXCEPT ![i].library = value.libraries[1], ![i].symbol = value.symbol, ![i].state = state]


\* Mutant: the first library of the mapping is taken for included.
IncludeOthers(value) ==
    inclusions' = inclusions \cup {Inclusion(target, value.libraries[j]) : j \in 2..Len(value.libraries)}

Include(value) ==
    inclusions' = inclusions \cup {Inclusion(target, value.libraries[j]) : j \in DOMAIN value.libraries}

(* "Keep it as is": the library and the name the entity had. *)
AsIs(e, value) == IF value = Unknown THEN [value EXCEPT !.libraries = <<NameOf(e.library)>>, !.symbol = DeclaredName(e)] ELSE value

(* _mapEnumValue *)
MapEnumValue(i, value) ==
    \/ /\ value = Unknown
       /\ references' = [references EXCEPT ![i].state = "mapped"]
       /\ UNCHANGED <<trash, renamed, inclusions, step>>
    \/ /\ value # Unknown
       /\ ToSymbol(i, value, "mapped")
       /\ KeepOrTrash(references[i].entity, value)
       /\ UNCHANGED <<inclusions, step>>

(* _mapDesignUnit, and _mapDeclaration of a symbol that is not simplified. *)
MapDeclaration(i, value) ==
    /\ ToSymbol(i, value, "mapped")
    /\ Include(value)
    /\ KeepOrTrash(references[i].entity, value)
    /\ UNCHANGED step

(* _canonicalizeNestedStandardSymbols and resetDeclarations: the call nested in the copy of an iterated_concat of a
   library is renamed when the same library registers it, and it is to be resolved again. *)
IsCanonical(r, mapping) == r.symbol[1] = "" /\ mapping # Unknown /\ mapping.libraries = <<r.library>>

\* Mutant: the nested calls keep the names of the source language.
NotCanonical(r, mapping) == [r EXCEPT !.state = "unresolved"]

Canonical(r, mapping) ==
    [r EXCEPT !.symbol = IF IsCanonical(r, mapping) THEN mapping.symbol ELSE @, !.state = "unresolved"]

(* _mapDeclaration of a simplified symbol: an expression in its place, or another call that is still to be resolved. *)
MapSimplified(i, value) ==
    LET e == references[i].entity
        simplified == SimplifiedSymbol(target, NameOf(e.library), DeclaredName(e))
    IN  \/ simplified.by = "error" /\ Stop("not simplified")
        \/ /\ simplified.by = "expression"
           /\ references' = [references EXCEPT ![i].state = "gone"]
           /\ Include(value)
           /\ UNCHANGED <<trash, renamed, step>>
        \/ /\ simplified.by = "call"
           /\ references' =
                [j \in DOMAIN references |->
                    CASE j = i -> [references[i] EXCEPT !.library = value.libraries[1], !.symbol = simplified.as,
                                                        !.state = "unresolved"]
                      [] references[j].within = i ->
                            Canonical(references[j], Registered(e.library.name, references[j].symbol[2]))
                      [] OTHER -> references[j]]
           /\ Include(value)
           /\ UNCHANGED <<trash, renamed, step>>

(* A nested call is collected after the iterated_concat around it when they are declared in the same library, which
   declares iterated_concat first. *)
ComesAfter(i, j) ==
    /\ references[i].within = j
    /\ references[i].entity.library = references[j].entity.library
    /\ references[i].entity.declaration.name # "iterated_concat"

FixSymbol ==
    /\ step = "symbols"
    /\ \E i \in DOMAIN references :
        \E value \in {EntityValue(references[i].entity)} :
        LET e == references[i].entity
        IN  /\ references[i].state = "source"
            /\ \A j \in DOMAIN references : ComesAfter(i, j) => references[j].state # "source"
            /\ \/ value.action = "not prefixed" /\ Stop("not prefixed")
               \/ /\ value.action # "not prefixed"
                  /\ \/ IsValue(e) /\ MapEnumValue(i, value)
                     \/ ~IsValue(e) /\ value.action = "simplified" /\ IsUnit(e) /\ Stop("simplified unit")
                     \/ ~IsValue(e) /\ value.action = "simplified" /\ ~IsUnit(e) /\ MapSimplified(i, value)
                     \/ ~IsValue(e) /\ value.action # "simplified" /\ MapDeclaration(i, AsIs(e, value))
            /\ UNCHANGED <<source, target, libraries, inner>>

(* The symbols collected from what has replaced a simplified one. *)
FixCollectedSymbol ==
    /\ step = "symbols"
    /\ \A i \in DOMAIN references : references[i].state # "source"
    /\ \E i \in DOMAIN references :
        /\ references[i].state = "unresolved"
        /\ \E found \in {DeclarationsOf(references[i], libraries)} :
           \/ found = {} /\ Stop("undeclared")
           \/ \E e \in found :
                /\ references' = [references EXCEPT ![i].entity = e,
                        ![i].state = IF e.library \in KnownBy(source) /\ e.library \in trash THEN "source" ELSE "mapped"]
                /\ UNCHANGED <<source, target, step, libraries, trash, renamed, inner, inclusions>>

(* The references inside the libraries that stay. *)
InnerMapping(n) ==
    LET e == CHOOSE e \in InnerDeclarations(n, libraries) : TRUE
    IN  [of |-> n, entity |-> e, value |-> AsIs(e, EntityValue(e))]
FixInnerSymbols ==
    /\ step = "symbols"
    /\ \A i \in DOMAIN references : references[i].state \in {"mapped", "gone"}
    /\ \E found \in {{InnerMapping(n) : n \in inner}} :
        \/ (\E f \in found : f.value.action = "simplified") /\ Stop("not simplified")
        \/ /\ \A f \in found : f.value.action # "simplified"
           /\ inner' = {[f.of EXCEPT !.library = f.value.libraries[1], !.symbol = f.value.symbol] : f \in found}
           /\ renamed' = renamed \cup {<<f.entity, f.value.symbol>> : f \in {f \in found : f.value.action = "keep"}}
           /\ trash' = trash \cup {f.entity : f \in {f \in found : f.value.action = "delete"}}
           /\ step' = "clear"
           /\ UNCHANGED <<source, target, libraries, references, inclusions>>

(* Trash::clear and resetDeclarations. *)
Clear ==
    /\ step = "clear"
    /\ libraries' = libraries \ trash
    /\ step' = "done"
    /\ UNCHANGED <<source, target, trash, renamed, references, inner, inclusions>>

(* The tool that writes the design out: another process, with the tree as it was written to its XML. *)
NextCall ==
    /\ step = "done" /\ target = "hif"
    /\ source' = "hif"
    /\ target' \in Destinations
    /\ step' = "collect"
    /\ references' = [i \in DOMAIN references |->
                        [references[i] EXCEPT !.state = IF @ = "gone" THEN "gone" ELSE "source"]]
    /\ trash' = {} /\ renamed' = {} /\ inner' = {}
    /\ UNCHANGED <<libraries, inclusions>>

Next ==
    \/ Collect \/ FixStandardLibraries
    \/ FixSymbol \/ FixCollectedSymbol \/ FixInnerSymbols
    \/ Clear \/ NextCall

Spec == Init /\ [][Next]_vars

------------------------------------------------------------------------------
(* What mapping promises. *)

Finished == step = "done"
Stopped == step \notin {"collect", "libraries", "symbols", "clear", "done"}

(* Declarations that keep their plain name in the HIF form, and are looked for with a prefix:
   VHDLSemantics_methods.cpp:1156, 2226-2275 and VerilogSemantics_methods.cpp:1759-1793. *)
PlainInHif(e) == ~e.declaration.prefixed

(* arctan(y, x) becomes atan, which takes one argument (SystemCSemantics_init.cpp:268); time_units goes away and min
   and hr stay (lines 143-150). *)
BrokenInSystemC(r) ==
    /\ target = "systemc"
    /\ \/ BaseName(r.entity) = "arctan" /\ Len(r.arguments) = 2
       \/ BaseName(r.entity) \in {"min", "hr"}

(* After mapping every reference, of the design and of the libraries that stay, names a declaration of a library of
   the tree that takes its arguments: resetDeclarations at the end of mapStandardSymbols resolves it again. *)
SymbolsResolve ==
    Finished =>
        /\ \A i \in DOMAIN references :
            \/ references[i].state = "gone"
            \/ PlainInHif(references[i].entity)
            \/ BrokenInSystemC(references[i])
            \/ \E e \in DeclarationsOf(references[i], libraries) : ~IsTrashed(e)
        /\ \A n \in inner : \E e \in InnerDeclarations(n, libraries) : ~IsTrashed(e)

(* A library that the destination has no mapping for: one of another language for VHDL and Verilog, and psl_standard
   for SystemC. *)
Foreign(l) == IF target = "systemc" THEN l.name = "psl_standard" ELSE l.language # target

(* The declarations marked unsupported, and those the tables refuse without that mark: base, and last_value in
   SystemC. *)
Refused(r) ==
    \/ r.entity.declaration.unsupported
    \/ BaseName(r.entity) = "base"
    \/ target = "systemc" /\ BaseName(r.entity) = "last_value"

(* stable with a time becomes event, which takes no argument. *)
Lost(i) ==
    \/ PlainInHif(references[i].entity)
    \/ BaseName(references[i].entity) = "stable" /\ references[i].arguments # <<>>

(* What the code says two things of.  to_x01 and to_ux01 of a bit: mapStandardSymbol simplifies them "as cast"
   (HIFSemantics_methods.cpp:472) and the casts are there (627-651), but getSimplifiedSymbol stops before it gets to
   them (503-506), for the registry has neither.  A call nested in an iterated_concat: its inner symbols are
   canonicalized so that the reset of the declarations finds them (1066-1071), but one that is not registered keeps
   its name. *)
Disputed(i) ==
    \/ BaseName(references[i].entity) \in {"to_x01", "to_ux01"}
    \/ references[i].within # 0 /\ Registered("standard", BaseName(references[i].entity)) = Unknown

(* Mapping a design that uses nothing the code disputes stops with an error only on a library without a mapping, on a
   declaration that is refused, or on one of those whose mapped name or arguments no declaration has.  This is said
   of the declarations of the libraries: a key that no declaration has is never looked up, as that of
   to_std_logic_vector (HIFSemantics_init.cpp:77), the function whose declaration is called to_signed
   (VHDLSemantics_methods.cpp:1002-1007). *)
OnlyUnsupportedStop ==
    Stopped /\ (\A i \in DOMAIN references : ~Disputed(i)) =>
        CASE step = "library without a mapping" -> \E l \in libraries : Foreign(l)
          [] step = "not simplified" -> \E i \in DOMAIN references : Refused(references[i])
          [] step = "undeclared" -> \E i \in DOMAIN references : Lost(i)
          [] OTHER -> FALSE

(* After mapping the library of every reference is included where the reference is; _mapEnumValue leaves out the
   inclusions. *)
IncludedWhereUsed ==
    Finished =>
        \A i \in DOMAIN references :
            \/ references[i].state = "gone"
            \/ IsValue(references[i].entity)
            \/ \E c \in inclusions : c.name = references[i].library
==============================================================================
