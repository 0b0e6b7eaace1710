-------------------------- MODULE VerilogTypeRules --------------------------
(***************************************************************************)
(* The types of Verilog operations: VerilogAnalysis, VerilogTypeVisitor    *)
(* and the queries of VerilogSemantics                                     *)
(* (src/src/semantics/VerilogSemantics.cpp).  Each rule is the overload of *)
(* map for the two classes in its name; the guards of a CASE are tried in  *)
(* order, as the early returns of the code are.                            *)
(***************************************************************************)
EXTENDS SemanticTypes

VerilogBit == BitType(TRUE, TRUE)
Register(width, signed) == BitvectorType(width, signed, TRUE, TRUE)
NativeReal == RealType(64)

IsRelational(op) == Is(op, "relational") \/ Is(op, "assignment")
IsArithmetic(op) == (Is(op, "arithmetic") \/ op = "concat") /\ op \notin {"abs", "rem", "log"}
IsPermittedOnReals(op) ==
    op \in {"or", "and", "not", "eq", "neq", "case_eq", "case_neq", "le", "ge", "lt", "gt", "plus", "minus", "mult",
            "div", "assign", "conv", "bind", "pow"}
CheckReal(t) == t.width \in {0, 64}

\* An operation that answers yes or no gives a bit, the others what they compute.
Answer(op, prec) == Typed(IF IsRelational(op) \/ Is(op, "logical") THEN VerilogBit ELSE prec, prec)
-----------------------------------------------------------------------------
UnaryVector(op, t) ==
    IF ~Is(op, "unary") THEN Untyped
    ELSE Typed(IF Is(op, "logical") \/ Is(op, "reduce") THEN VerilogBit ELSE t, t)
UnaryBit(op, t) == IF Is(op, "unary") THEN Typed(IF Is(op, "logical") THEN VerilogBit ELSE t, t) ELSE Untyped
UnaryReal(op, t) == IF IsPermittedOnReals(op) THEN UnaryBit(op, t) ELSE Untyped

ArrayArray(op, a, b) ==
    LET span == CASE op = "concat" -> RangeSum(a.width, b.width)
                  [] Is(op, "assignment") -> a.width
                  [] OTHER -> RangeMax(a.width, b.width)
        element == CASE EqualTypes(Elem(a), Elem(b), {"spans"}) -> Elem(a)
                     [] Is(op, "assignment") /\ Elem(a).class = "Real" -> Elem(a)
                     [] Elem(a).class = "Bit" /\ Elem(b).class = "Bit" -> VerilogBit
                     [] OTHER -> NoType
    IN  IF a.width = 0 \/ b.width = 0 \/ element = NoType THEN Untyped
        ELSE Answer(op, [ArrayOf(span, element) EXCEPT !.signed = a.signed /\ b.signed])
BitvectorBitvector(op, a, b) ==
    LET span == IF op = "concat" THEN RangeSum(a.width, b.width) ELSE RangeMax(a.width, b.width) IN
    IF a.width = 0 \/ b.width = 0 THEN Untyped
    ELSE Answer(op, [Register(span, a.signed /\ b.signed) EXCEPT !.constexpr = a.constexpr /\ b.constexpr])
ArrayBitvector(op, a, b) ==
    LET t == Base(a)
        bit == Elem(t)
    IN  IF bit.class # "Bit" THEN Untyped
        ELSE BitvectorBitvector(op, BitvectorType(t.width, t.signed, bit.logic, bit.resolved), b)
BitBit(op) == IF op = "concat" THEN Typed(Register(2, FALSE), VerilogBit) ELSE Answer(op, VerilogBit)
ArrayBit(op, a, b) == ArrayArray(op, a, ArrayOf(1, b))
BitvectorBit(op, a, b) ==
    BitvectorBitvector(op, a, [BitvectorType(1, FALSE, TRUE, b.resolved) EXCEPT !.constexpr = b.constexpr])
IntInt(op, a, b) ==
    IF a.width = 0 \/ b.width = 0 THEN Untyped
    ELSE Answer(op, [IntType(RangeMax(a.width, b.width), a.signed /\ b.signed)
                       EXCEPT !.constexpr = a.constexpr /\ b.constexpr])
RealReal(op, a, b) == IF CheckReal(a) /\ CheckReal(b) /\ IsPermittedOnReals(op) THEN Answer(op, NativeReal) ELSE Untyped

\* A register and a number: a logical operation has a precision and no result.
BitvectorReal(op, a, b) ==
    IF ~CheckReal(b) \/ ~IsPermittedOnReals(op) THEN Untyped
    ELSE Typed(CASE Is(op, "assignment") -> a
                 [] IsRelational(op) -> VerilogBit
                 [] IsArithmetic(op) -> b
                 [] OTHER -> NoType,
               NativeReal)
RealBitvector(op, a, b) ==
    CASE ~CheckReal(a) -> Untyped
      [] Is(op, "assignment") -> Typed(a, NativeReal)
      [] OTHER -> BitvectorReal(op, b, a)

\* A string is a number of 32 bits to a register.
StringBitvector(op, a, b) == IF Is(op, "assignment") THEN Both(a) ELSE BitvectorBitvector(op, Register(32, FALSE), b)
BitvectorString(op, a) == BitvectorBitvector(op, a, Register(32, FALSE))
Assigned(op, a) == IF Is(op, "assignment") THEN Both(a) ELSE Untyped
TimeScaled(op) == IF op \in {"mult", "div"} THEN Both(AType("Time")) ELSE Untyped

\* Views of the disciplines of Verilog-AMS can be concatenated; no view is a subtype
\* of another here.
Discipline == "discipline"
ViewView(op, a, b) ==
    CASE a.name # b.name -> Untyped
      [] Is(op, "assignment") -> Both(a)
      [] op = "concat" /\ a.name = Discipline -> Typed(ArrayOf(2, a), a)
      [] OTHER -> Untyped
ViewArray(op, a, b) ==
    IF op = "concat" /\ Elem(b) = a /\ a.name = Discipline THEN Both([b EXCEPT !.width = RangeIncremented(@)])
    ELSE Untyped
-----------------------------------------------------------------------------
\* The pairs of classes that map is declared for.
Maps ==
    {<<"Object", "Object">>, <<"Type", "TypeReference">>}
    \cup {"Array"} \X {"Array", "Bitvector", "Bit", "Real", "ViewReference"}
    \cup {"Bit"} \X {"Array", "Bitvector", "Bit", "Real"}
    \cup {"Bitvector"} \X {"Array", "Bitvector", "Bit", "Real", "String", "Time"}
    \cup {"Real"} \X {"Array", "Bitvector", "Bit", "Real", "Time"}
    \cup {<<"Int", "Int">>, <<"String", "String">>, <<"String", "Bitvector">>}
    \cup {"Time"} \X {"Bitvector", "Real", "Time"}
    \cup {"TypeReference"} \X {"TypeReference", "Type"}
    \cup {"ViewReference"} \X {"ViewReference", "Array"}
Chosen == ChosenMap(Maps)

RECURSIVE Analyze(_, _, _), AnalyzeUnary(_, _)
Overload(m, op, a, b) ==
    CASE m = <<"Array", "Array">> -> ArrayArray(op, a, b)
      [] m = <<"Array", "Bitvector">> -> ArrayBitvector(op, a, b)
      [] m = <<"Bitvector", "Array">> -> ArrayBitvector(op, b, a)
      [] m = <<"Array", "Bit">> -> ArrayBit(op, a, b)
      [] m = <<"Bit", "Array">> -> ArrayBit(op, b, a)
      [] m = <<"Array", "ViewReference">> -> ViewArray(op, b, a)
      [] m = <<"ViewReference", "Array">> -> ViewArray(op, a, b)
      [] m = <<"ViewReference", "ViewReference">> -> ViewView(op, a, b)
      [] m = <<"Bitvector", "Bitvector">> -> BitvectorBitvector(op, a, b)
      [] m = <<"Bitvector", "Bit">> -> BitvectorBit(op, a, b)
      [] m = <<"Bit", "Bitvector">> -> BitvectorBit(op, b, a)
      [] m = <<"Bit", "Bit">> -> BitBit(op)
      [] m = <<"Int", "Int">> -> IntInt(op, a, b)
      [] m = <<"Real", "Real">> -> RealReal(op, a, b)
      [] m \in {"Array", "Bit"} \X {"Real"} -> RealReal(op, NativeReal, b)
      [] m \in {"Real"} \X {"Array", "Bit"} -> RealReal(op, a, NativeReal)
      [] m = <<"Bitvector", "Real">> -> BitvectorReal(op, a, b)
      [] m = <<"Real", "Bitvector">> -> RealBitvector(op, a, b)
      [] m = <<"String", "Bitvector">> -> StringBitvector(op, a, b)
      [] m = <<"Bitvector", "String">> -> BitvectorString(op, a)
      [] m \in {<<"String", "String">>, <<"Time", "Time">>} -> Assigned(op, a)
      [] m \in {"Time"} \X {"Bitvector", "Real"} \cup {"Bitvector", "Real"} \X {"Time"} -> TimeScaled(op)
      [] m = <<"TypeReference", "TypeReference">> -> TypeReferences(Analyze, FALSE, op, a, b)
      [] m = <<"TypeReference", "Type">> -> TypeReferenceType(Analyze, op, a, b)
      [] m = <<"Type", "TypeReference">> -> TypeTypeReference(Analyze, op, a, b)
      [] OTHER -> Untyped
Map(op, a, b) == Overload(Chosen[a.class, b.class], op, a, b)
MapUnary(op, t) ==
    CASE t.class \in {"Array", "Bitvector"} -> UnaryVector(op, t)
      [] t.class = "Bit" -> UnaryBit(op, t)
      [] t.class = "Real" -> UnaryReal(op, t)
      [] t.class = "Event" -> IF op = "deref" THEN Both(t) ELSE Untyped
      [] t.class = "TypeReference" /\ ~IsTypeParameter(Base(t)) -> Restored(op, t, Base(t), AnalyzeUnary(op, Base(t)))
      [] OTHER -> Untyped
Analyze(op, a, b) ==
    IF NoType \in {a, b} THEN Untyped ELSE Concluded(Map(op, a, b), ConstexprResult(a, b))
AnalyzeUnary(op, t) == Concluded(MapUnary(op, t), ConstexprResult(t, t))

\* An operation inside a larger one is computed with the context precision, the
\* largest span of its leaves (0 when there is none around it): a bit that is
\* computed with becomes a register.
InContext(op, context, r) ==
    LET computed == ~(Is(op, "logical") \/ Is(op, "bitwise") \/ Is(op, "reduce") \/ IsRelational(op))
        widened(t) == IF t.class = "Bit" /\ computed THEN [Register(context, FALSE) EXCEPT !.constexpr = t.constexpr]
                      ELSE SetSpan(t, context)
    IN  IF op = "concat" \/ Is(op, "assignment") \/ r.ret = NoType \/ context = 0 THEN r
        ELSE Typed(widened(r.ret), widened(r.prec))
ExprTypeIn(op, a, b, context) == IF op = "ref" THEN Untyped ELSE InContext(op, context, Analyze(op, a, b))
ExprType(op, a, b) == ExprTypeIn(op, a, b, 0)
ExprTypeUnary(op, t) == IF op = "ref" THEN Untyped ELSE AnalyzeUnary(op, t)
-----------------------------------------------------------------------------
\* getTypeDefaultValue: a net that nobody drives floats, a variable is unknown; an
\* error refuses the classes that have no branch.
RECURSIVE TypeDefaultValue(_, _)
TypeDefaultValue(t, isNetDecl) ==
    LET digit == IF isNetDecl THEN "z" ELSE "x"
        register(width) == ConstOf("BitvectorValue", Register(width, FALSE), digit)
        inside(u) == TypeDefaultValue(u, isNetDecl)
        array(v) == IF v = NoValue THEN NoValue ELSE Others(v)
        named(v) == WithType(v, t)
    IN  CASE t.class = "Real" -> ConstOf("RealValue", t, "0")
          [] t.class = "Int" -> register(32)
          [] t.class = "Bit" -> ConstOf("BitValue", t, digit)
          [] t.class = "Time" -> ConstOf("TimeValue", t, "0")
          [] t.class = "Array" -> array(inside(Elem(t)))
          [] t.class = "Bitvector" -> IF t.width = 0 THEN NoValue ELSE register(t.width)
          [] t.class = "Record" -> AValue("RecordValue", NoType, "", [i \in DOMAIN t.of |-> inside(t.of[i])])
          [] t.class = "String" -> ConstOf("StringValue", AType("String"), "")
          [] t.class = "TypeReference" /\ ~IsTypeParameter(Base(t)) -> named(inside(Base(t)))
          [] OTHER -> NoValue

\* VerilogTypeVisitor: numbers become registers; there is no type for the others.
RECURSIVE MapForType(_)
MapForType(t) ==
    LET element == MapForType(Elem(t)) IN
    CASE t.class \in {"Bool", "Bit"} -> VerilogBit
      [] t.class = "Int" -> IF t.width = 0 THEN [Register(32, TRUE) EXCEPT !.constexpr = t.constexpr]
                            ELSE Register(t.width, t.signed)
      [] t.class = "Unsigned" -> Register(t.width, FALSE)
      [] t.class = "Signed" -> Register(t.width, TRUE)
      [] t.class = "Array" -> IF element = NoType THEN NoType ELSE [ArrayOf(t.width, element) EXCEPT !.signed = t.signed]
      [] t.class = "Bitvector" -> [t EXCEPT !.logic = TRUE, !.resolved = TRUE]
      [] t.class \in {"Real", "String", "Time", "TypeReference"} -> t
      [] OTHER -> NoType
SuggestedTypeForOp(t, op, opType, isOp1) == t

TypeForConstant(c) ==
    CASE c.class = "IntValue" -> Constant(Register(32, TRUE))
      [] c.class \in {"BitValue", "BoolValue"} -> Constant(VerilogBit)
      [] c.class = "BitvectorValue" -> Constant(Register(c.type.width, FALSE))
      [] c.class = "RealValue" -> Constant(NativeReal)
      [] c.class = "StringValue" -> AType("String")
      [] c.class = "TimeValue" -> AType("Time")
      [] OTHER -> NoType

CheckCondition(t) == t.class \in {"Bitvector", "Bit"} \/ (t.class = "Real" /\ CheckReal(t))
BoolConversion(c, type) ==
    LET t == Base(type)
        one == ConstOf("BitValue", VerilogBit, "1")
    IN  CASE ~CheckCondition(t) -> NoValue
          [] t.class = "Bit" -> Expr("case_eq", c, one)
          [] t.class = "Real" -> Expr("case_neq", c, ConstOf("RealValue", NativeReal, "0"))
          [] OTHER -> Expr("case_eq", AValue("Expression", NoType, "orrd", <<c>>), one)

\* A bit is not cast to a bit nor a register to a register.
ExplicitCast(v, target) ==
    IF \/ target.class = "Bit" /\ v.type.class \in {"Bool", "Bit"}
       \/ target.class = "Bitvector" /\ v.type.class = "Bitvector" THEN v
    ELSE CastOf(target, v)

TypeAllowedAsBound(t) == IF t.class \in {"Bit", "Array"} THEN NoType ELSE Constant(Register(SpanOf(t), FALSE))
IsTypeAllowed(t) ==
    CASE t = NoType \/ t.class \in {"Signed", "Unsigned", "Bool", "Int", "Pointer", "Reference"} -> FALSE
      [] t.class = "File" -> Base(Elem(t)).class = "String"
      [] t.class = "Bit" -> t.logic /\ t.resolved
      [] OTHER -> t.variant = "NATIVE_TYPE"
=============================================================================
