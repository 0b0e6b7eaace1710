-------------------------- MODULE StandardLibraries --------------------------
(***************************************************************************)
(* What the standard libraries of the languages are made of: the           *)
(* declarations the semantics of VHDL, Verilog and SystemC push into a     *)
(* LibraryDef, in the two forms in which they are built.                   *)
(*                                                                         *)
(* A declaration is a record: its kind, its base name, whether the name    *)
(* goes through _makeHifName, the types of its parameters (a builtin type, *)
(* Any for a template, or the base name of a type), how many parameters at *)
(* the end have a default value, the type of its result, whether it is     *)
(* marked unsupported, the names it uses besides the types of its          *)
(* signature (pairs of a library, "" for its own, and a name), the values  *)
(* of an enumeration, and how many times it is declared. Template          *)
(* parameters, spans and default values are left out.                      *)
(***************************************************************************)
EXTENDS Naturals, Sequences, FiniteSets

Declared(kind, names, signatures, result) ==
    [kind: {kind}, name: names, prefixed: {TRUE}, parameters: signatures, defaults: {0}, result: {result},
     unsupported: {FALSE}, uses: {{}}, values: {{}}, copies: {1}]

Functions(names, signatures, result) == Declared("function", names, signatures, result)
Procedures(names, signatures) == Declared("procedure", names, signatures, "-")
Types(names, type) == Declared("type", names, {<<>>}, type)
Constants(names, type) == Declared("constant", names, {<<>>}, type)
Units(names) == Declared("unit", names, {<<>>}, "-")

(* ILanguageSemantics::_makeEnum *)
Enumeration(name, values) == {[d EXCEPT !.values = values] : d \in Declared("enumeration", {name}, {<<>>}, "-")}

(* ILanguageSemantics::_addMultiparamFunction: one function for every number of parameters up to five *)
AnyArguments(names, result) ==
    Declared(IF result = "-" THEN "procedure" ELSE "function", names,
             {[i \in 1..n |-> "Any"] : n \in 0..5}, result)

WithDefaults(n, declarations) == {[d EXCEPT !.defaults = n] : d \in declarations}
Unsupported(declarations) == {[d EXCEPT !.unsupported = TRUE] : d \in declarations}
Unprefixed(declarations) == {[d EXCEPT !.prefixed = FALSE] : d \in declarations}
Twice(declarations) == {[d EXCEPT !.copies = 2] : d \in declarations}
From(library, names, declarations) == {[d EXCEPT !.uses = @ \cup ({library} \X names)] : d \in declarations}
Using(names, declarations) == From("", names, declarations)
==============================================================================
