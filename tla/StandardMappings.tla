--------------------------- MODULE StandardMappings --------------------------
(***************************************************************************)
(* mapStandardSymbol of the four semantics: what becomes of a standard     *)
(* library, or of a symbol of one, when a design moves to a semantics.     *)
(*                                                                         *)
(* A name is a pair: the language of its hif_<language>_ prefix, "" when   *)
(* it has none, and the rest of the name.                                  *)
(***************************************************************************)
EXTENDS Naturals, Sequences, FiniteSets

(* MapCases and ValueSymbol. *)
Value(action, in, as) == [action |-> action, libraries |-> in, symbol |-> as]
Unknown == Value("unknown", <<>>, <<"", "">>)
Failed(assertion) == Value(assertion, <<>>, <<"", "">>)

(* ILanguageSemantics::_isHifPrefixed *)
IsHifPrefixed(name, language) == name[1] = language
Unprefixed(name) == <<"", name[2]>>

------------------------------------------------------------------------------
(* To HIF. *)

(* The symbols HIFSemantics::_initStandardSymbols registers, all of them SIMPLIFIED, by the language of their
   library. "standard" is a library of VHDL and one of Verilog. *)
SimplifiedFromVHDL ==
    [ieee_numeric_std |-> {"shift_left", "shift_right", "rotate_left", "rotate_right", "resize", "to_signed",
                           "to_std_logic_vector", "to_unsigned"},
     ieee_std_logic_1164 |-> {"to_stdulogic", "to_stdlogicvector", "to_stdulogicvector"},
     ieee_std_logic_arith |-> {"conv_integer", "conv_signed", "conv_unsigned", "conv_std_logic_vector"},
     ieee_std_logic_misc |-> {"and_reduce", "nand_reduce", "or_reduce", "nor_reduce", "xor_reduce", "xnor_reduce"},
     standard |-> {"base", "left", "right", "high", "low", "ascending", "image", "value", "pos", "val", "succ",
                   "pred", "leftof", "rightof", "range", "reverse_range", "length", "delayed", "stable", "quiet",
                   "transaction", "active", "last_event", "last_active", "driving", "driving_value",
                   "simple_name", "instance_name", "path_name", "foreign"}]
SimplifiedFromVerilog ==
    [standard |-> {"iterated_concat", "_system_fclose", "_system_fflush", "_system_fopen", "_system_random",
                   "_system_clog2", "_system_readmemb", "_system_readmemh", "_system_feof", "_system_fscanf"},
     vams_standard |-> {"cross", "_system_driver_count", "_system_driver_state", "_system_driver_strength",
                        "_system_driver_next_state", "_system_driver_next_strength", "_system_driver_type"}]

RegisteredBy(table, library, symbol) == library \in DOMAIN table /\ symbol \in table[library]
Registered(library, symbol) ==
    CASE RegisteredBy(SimplifiedFromVHDL, library, symbol) ->
            Value("simplified", <<<<"vhdl", library>>>>, <<"vhdl", symbol>>)
      [] RegisteredBy(SimplifiedFromVerilog, library, symbol) ->
            Value("simplified", <<<<"verilog", library>>>>, <<"verilog", symbol>>)
      [] OTHER -> Unknown

(* typeIsLogic of a parameter's type. *)
LogicBits == {"Logic", "ULogic"}
LogicTypes ==
    LogicBits \cup {"LogicVector", "ULogicVector", "SignedLogicVector", "SignedULogicVector", "Signed", "Unsigned"}

(* HIFSemantics::mapStandardSymbol *)
MapToHif(language, library, symbol, parameters) ==
    LET in == library[2]
        name == symbol[2]
        same(action) == Value(action, <<<<language, in>>>>, <<language, name>>)
        unless(logic) == same(IF parameters[1] \in logic THEN "keep" ELSE "simplified")
    IN  CASE in = name -> same("delete")
          [] in = "ieee_std_logic_1164" /\ name \in {"to_x01", "to_ux01"} -> unless(LogicTypes)
          [] in = "ieee_std_logic_arith" /\ name \in SimplifiedFromVHDL[in] -> unless(LogicTypes \ LogicBits)
          [] OTHER -> IF Registered(in, name) = Unknown THEN same("keep") ELSE Registered(in, name)

(* The symbols the _getSimplifiedSymbol functions of HIFSemantics put an expression or a cast in the place of ... *)
NumericStdRules == {"shift_left", "shift_right", "rotate_left", "rotate_right", "resize", "to_signed", "to_unsigned"}
StdLogic1164Rules == {"to_stdulogic", "to_stdlogicvector", "to_stdulogicvector", "to_x01", "to_ux01"}
StdLogicArithRules == {"conv_integer", "conv_signed", "conv_unsigned", "conv_std_logic_vector"}
StdLogicMiscRules == {"and_reduce", "nand_reduce", "or_reduce", "nor_reduce", "xor_reduce", "xnor_reduce"}
SpanRules == {"left", "right", "high", "low", "ascending", "length"}
ExpressionRules(library) ==
    CASE library = "ieee_numeric_std" -> NumericStdRules
      [] library = "ieee_std_logic_1164" -> StdLogic1164Rules
      [] library = "ieee_std_logic_arith" -> StdLogicArithRules
      [] library = "ieee_std_logic_misc" -> StdLogicMiscRules
      [] library \in {"ieee_std_logic_signed", "ieee_std_logic_unsigned"} -> {"conv_integer"}
      [] library = "standard" -> SpanRules
      [] OTHER -> {}

(* ... and another call. *)
SystemCallRules ==
    {"iterated_concat", "_system_fclose", "_system_fflush", "_system_fopen", "_system_random", "_system_clog2",
     "_system_readmemb", "_system_readmemh", "_system_feof", "_system_fscanf"}
DriverRules ==
    {"cross", "_system_driver_count", "_system_driver_state", "_system_driver_strength",
     "_system_driver_next_state", "_system_driver_next_strength", "_system_driver_type"}
CallRules(library) ==
    CASE library = "standard" -> SystemCallRules \cup {"stable"}
      [] library = "vams_standard" -> DriverRules
      [] OTHER -> {}

(* _getSimplifiedSymbol_stable: not(event). *)
CallInstead(library, symbol) ==
    IF symbol = "stable" THEN <<"vhdl", "event">> ELSE Registered(library, symbol).symbol

(* HIFSemantics::getSimplifiedSymbol: only of a registered symbol. *)
SimplifiedInHif(library, symbol) ==
    LET in == library[2]
        name == symbol[2]
    IN  CASE Registered(in, name) # Unknown /\ name \in ExpressionRules(in) -> [by |-> "expression", as |-> symbol]
          [] Registered(in, name) # Unknown /\ name \in CallRules(in) -> [by |-> "call", as |-> CallInstead(in, name)]
          [] OTHER -> [by |-> "error", as |-> symbol]

------------------------------------------------------------------------------
(* To a language. *)

(* mapStandardSymbol of VHDL and Verilog: the libraries with their own prefix, and empty tables. *)
MapToOwn(language, library, symbol) ==
    IF ~IsHifPrefixed(symbol, language) THEN Failed("not prefixed")
    ELSE Value(IF library[2] = symbol[2] THEN "delete" ELSE "keep", <<Unprefixed(library)>>, Unprefixed(symbol))

(* SystemCSemantics::_initStandardSymbols: the libraries ... *)
SystemCLibraryOf(library) ==
    LET with(others) == Value("keep", <<library>> \o others, library)
        c == [i \in 1..3 |-> <<"", (<<"cmath", "cstdlib", "standard">>)[i]>>]
    IN  CASE library = <<"vhdl", "standard">> -> Value("keep", <<<<"", "sc_core">>, library>>, library)
          [] library \in {<<"vhdl", "ieee_math_real">>, <<"vhdl", "ieee_math_complex">>} -> with(c)
          [] library = <<"vhdl", "ieee_numeric_std">> -> with(<<<<"", "hif_systemc_extensions">>>>)
          [] library = <<"verilog", "standard">> -> with(<<<<"", "cstdio">>>>)
          [] library = <<"vhdl", "psl_standard">> -> Unknown
          [] OTHER -> with(<<>>)

(* ... and their symbols. *)
SystemCAttributes == (SimplifiedFromVHDL["standard"] \cup {"last_value"})
SystemCUnits ==
    [fs |-> "SC_FS", ps |-> "SC_PS", ns |-> "SC_NS", us |-> "SC_US", ms |-> "SC_MS", sec |-> "SC_SEC"]
CMathNames ==
    [n \in {"ceil", "floor", "round", "trunc", "sqrt", "cbrt", "exp", "sin", "cos", "tan", "sinh", "cosh", "tanh"} |-> n]

\* Mutant: the names of VHDL for the smaller and the larger of two numbers.
CMathOtherOfVHDL ==
    [realmax |-> "realmax", realmin |-> "realmin", arcsin |-> "asin", arccos |-> "acos", arctan |-> "atan",
     arcsinh |-> "asinh", arccosh |-> "acosh", arctanh |-> "atanh"]

CMathOther ==
    [realmax |-> "fmax", realmin |-> "fmin", arcsin |-> "asin", arccos |-> "acos", arctan |-> "atan",
     arcsinh |-> "asinh", arccosh |-> "acosh", arctanh |-> "atanh"]

SystemCSymbolOf(library, symbol) ==
    LET name == symbol[2]
        c(in, as) == Value("delete", <<<<"", in>>>>, <<"", as>>)
        same(action) == Value(action, <<library>>, symbol)
    IN  CASE library = <<"vhdl", "standard">> ->
                CASE name \in SystemCAttributes -> same("simplified")
                  [] name \in DOMAIN SystemCUnits -> [c("sc_core", SystemCUnits[name]) EXCEPT !.action = "keep"]
                  [] name = "time_units" -> c("sc_core", "sc_time_unit")
                  [] name = "event" -> c("sc_core", "event")
                  [] name = "now" -> c("sc_core", "sc_time_stamp")
                  [] name \in {"severity_level", "delay_length", "file_open_kind", "file_open_status"} -> same("keep")
                  [] OTHER -> Unknown
          [] library = <<"vhdl", "ieee_std_logic_1164">> /\ name = "to_x01z" -> same("simplified")
          [] library = <<"vhdl", "ieee_math_real">> ->
                CASE name \in DOMAIN CMathNames -> c("cmath", CMathNames[name])
                  [] name \in DOMAIN CMathOther -> c("cmath", CMathOther[name])
                  [] name \in {"srand", "rand"} -> c("cstdlib", name)
                  [] OTHER -> Unknown
          [] library = <<"verilog", "standard">> /\ name = "_system_display" -> c("cstdio", "printf")
          [] OTHER -> Unknown

(* SystemCSemantics::mapStandardSymbol *)
MapToSystemC(library, symbol) ==
    CASE IsHifPrefixed(library, "systemc") -> MapToOwn("systemc", library, symbol)
      [] library = symbol -> SystemCLibraryOf(library)
      [] OTHER -> SystemCSymbolOf(library, symbol)

(* SystemCSemantics::getSimplifiedSymbol *)
SimplifiedInSystemC(library, symbol) ==
    [by |-> IF library = <<"vhdl", "ieee_std_logic_1164">> /\ symbol[2] = "to_x01z" THEN "expression" ELSE "error",
     as |-> symbol]

------------------------------------------------------------------------------

MapStandardSymbol(to, from, library, symbol, parameters) ==
    CASE to = "hif" -> MapToHif(from, library, symbol, parameters)
      [] to = "systemc" -> MapToSystemC(library, symbol)
      [] to \in {"vhdl", "verilog"} ->
            IF IsHifPrefixed(library, to) THEN MapToOwn(to, library, symbol) ELSE Unknown

(* getSimplifiedSymbol of VHDL and Verilog stops; nothing is registered as simplified there. *)
SimplifiedSymbol(to, library, symbol) ==
    IF to = "hif" THEN SimplifiedInHif(library, symbol) ELSE SimplifiedInSystemC(library, symbol)

-----------------------------------------------------------------------------
(***************************************************************************)
(* The standard packages of the three languages in their two forms: the    *)
(* source form, with the names of the language, and the HIF form, where    *)
(* ILanguageSemantics::_makeHifName puts a prefix before them.             *)
(*                                                                         *)
(* The entities of a library are its declarations and the values of its    *)
(* enumerations. A name is a pair (see StandardMappings).                  *)
(***************************************************************************)
VHDL == INSTANCE VHDLLibraries
Verilog == INSTANCE VerilogLibraries
SystemC == INSTANCE SystemCLibraries

Packages ==
    [vhdl |-> VHDL!KnownLibraries, verilog |-> Verilog!KnownLibraries, systemc |-> SystemC!KnownLibraries]
AllPackages ==
    UNION {{[language |-> l, package |-> p] : p \in Packages[l]} : l \in {"vhdl", "verilog", "systemc"}}
PackageOf(l) == (CHOOSE q \in AllPackages : q.language = l.language /\ q.package.name = l.name).package

(* A library is one of the two forms of a package. *)
AllLibraries ==
    {[language |-> q.language, form |-> form, name |-> q.package.name] : q \in AllPackages, form \in {"source", "hif"}}

(* getStandardLibrary of a semantics: the source form of its own packages; HIFSemantics knows the HIF form of all. *)
KnownBy(semantics) ==
    {l \in AllLibraries : IF semantics = "hif" THEN l.form = "hif" ELSE l.form = "source" /\ l.language = semantics}

(* ILanguageSemantics::_makeHifName *)
MakeHifName(library, base) == <<IF library.form = "hif" THEN library.language ELSE "", base>>
NameOf(library) == MakeHifName(library, library.name)

(* A declaration or, with a value, one value of an enumeration. *)
Entity(library, d, value) == [library |-> library, declaration |-> d, value |-> value]
Entities(library) ==
    UNION {{Entity(library, d, v) : v \in {""} \cup d.values} : d \in PackageOf(library).declarations}

BaseName(e) == IF e.value = "" THEN e.declaration.name ELSE e.value
DeclaredName(e) == IF e.declaration.prefixed THEN MakeHifName(e.library, BaseName(e)) ELSE <<"", BaseName(e)>>
Owner(e) == [e EXCEPT !.value = ""]
IsValue(e) == e.value # ""
IsUnit(e) == e.declaration.kind = "unit"
IsCall(e) == e.declaration.kind \in {"function", "procedure"}

(* f: comparing a function makes TLC evaluate it once, as a table. *)
Table(f) == CHOOSE table \in {f} : table = f

(* The entities of a library by their names: LibraryDef::declarations is searched by name. *)
EntitiesOf == Table([l \in AllLibraries |-> {<<DeclaredName(e), e>> : e \in Entities(l)}])
Searched(library, name) == {found[2] : found \in {named \in EntitiesOf[library] : named[1] = name}}

(* The argument lists a declaration is used with: its default values may stand for the last arguments. *)
ArgumentLists(d) ==
    {SubSeq(d.parameters, 1, n) : n \in (Len(d.parameters) - d.defaults)..Len(d.parameters)}

Takes(d, arguments) ==
    \E parameters \in ArgumentLists(d) :
        /\ Len(parameters) = Len(arguments)
        /\ \A i \in DOMAIN parameters :
            parameters[i] = arguments[i] \/ "Any" \in {parameters[i], arguments[i]}

BuiltinTypes ==
    {"Bool", "Int", "UInt", "Real", "Time", "String", "Char", "UChar", "Event", "Bit", "ULogic", "Logic",
     "BitVector", "ULogicVector", "LogicVector", "SignedLogicVector", "SignedULogicVector", "Signed",
     "Unsigned", "Record", "Integer", "Natural", "Array", "File", "Pointer", "Any", "-"}

(* The names a declaration refers to: the types of its signature and the names listed with it. *)
NamesUsed(d) ==
    LET types == ({d.parameters[i] : i \in DOMAIN d.parameters} \cup {d.result}) \ BuiltinTypes
    IN  d.uses \cup {<<"", t>> : t \in {t \in types : \A u \in d.uses : u[2] # t}}

InnerReferences ==
    Table([l \in AllLibraries |->
        {[in |-> l,
          library |-> IF u[1] = "" THEN NameOf(l) ELSE MakeHifName(l, u[1]),
          symbol |-> MakeHifName(l, u[2])] : u \in UNION {NamesUsed(d) : d \in PackageOf(l).declarations}}])

(* What a tree with one library also holds: the libraries it includes or names. *)
Requires(package) == package.libraries \cup {u[1] : u \in UNION {d.uses : d \in package.declarations}}
DependsOn ==
    Table([l \in AllLibraries |->
        {[l EXCEPT !.name = name] : name \in Requires(PackageOf(l)) \ {""}}])
WithDependencies(tree) == tree \cup UNION {DependsOn[l] : l \in tree}
=============================================================================
