---------------------------- MODULE HIFTypeRules ----------------------------
(***************************************************************************)
(* The types of HIF operations: HIFAnalysis and the queries of             *)
(* HIFSemantics (src/src/semantics/HIFSemantics.cpp).  Each rule is the    *)
(* overload of map for the two classes in its name, a rule that another    *)
(* overload forwards to is named once.  HIF is strict: the two operands    *)
(* have one type, except that a constant takes the form of what it meets.  *)
(***************************************************************************)
EXTENDS SemanticTypes

IsRelationalOrAssignment(op) == Is(op, "relational") \/ Is(op, "assignment")
IsShiftNotRotate(op) == Is(op, "shift") /\ ~Is(op, "rotate")
Equalities == {"eq", "neq", "case_eq", "case_neq"}

\* The span of the result of two constants or of a constant and another operand;
\* 0 when two other operands have different spans.
ResultSpan(a, b) ==
    CASE IsConstexpr(a) /\ IsConstexpr(b) -> RangeMax(a.width, b.width)
      [] ~IsConstexpr(a) /\ IsConstexpr(b) -> a.width
      [] IsConstexpr(a) /\ ~IsConstexpr(b) -> b.width
      [] OTHER -> IF a.width = b.width THEN a.width ELSE 0

-----------------------------------------------------------------------------
BaseMapUnary(op, t) ==
    CASE ~Is(op, "unary") \/ Is(op, "logical") -> Untyped
      [] Is(op, "reduce") ->
            IF t.class # "Bitvector" THEN Untyped
            ELSE Typed([BitType(t.logic, t.resolved) EXCEPT !.constexpr = t.constexpr], t)
      [] op = "ref" -> Typed(CompositeOf("Pointer", t), t)
      [] OTHER -> Both(t)
UnaryBitvector(op, t) == IF op = "reverse" THEN Both(t) ELSE BaseMapUnary(op, t)
UnaryBool(op, t) == IF Is(op, "unary") /\ Is(op, "logical") THEN Both(t) ELSE Untyped
UnaryInt(op, t) ==
    CASE ~Is(op, "unary") \/ Is(op, "logical") -> Untyped
      [] Is(op, "reduce") -> Typed(BoolType, t)
      [] OTHER -> Both(t)
UnaryPointer(op, t) == IF op = "deref" THEN Typed(Elem(t), t) ELSE BaseMapUnary(op, t)
UnaryString(op, t) ==
    CASE op = "size" -> Typed(IntType(32, FALSE), t) [] op = "reverse" -> Both(t) [] OTHER -> Untyped
UnaryEvent(op, t) == IF op = "deref" THEN Both(t) ELSE Untyped

\* Two operands of one class: constants widen to the larger and become signed if
\* one is, else the type of the operand that is not constant is the result's.
OfShared(op, a, b, shared) ==
    IF shared = NoType THEN Untyped
    ELSE IF ~IsRelationalOrAssignment(op) THEN Both(shared)
    ELSE Typed(IF {a.class, b.class} \cap {"Signed", "Unsigned"} = {} /\ (IsLogic(a) \/ IsLogic(b))
               THEN [BitType(TRUE, IsResolved(shared)) EXCEPT !.constexpr = IsConstexpr(shared)]
               ELSE BoolType,
               shared)
BaseMap(op, a, b) ==
    LET opts == {"constexpr"} \cup IF Is(op, "assignment") THEN {} ELSE {"handle"} IN
    IF ~EqualTypes(a, b, opts) \/ Is(op, "logical") THEN Untyped
    ELSE OfShared(op, a, b,
                  CASE IsConstexpr(a) /\ IsConstexpr(b) ->
                          SetSigned(SetSpan(a, RangeMax(SpanOf(a), SpanOf(b))), IsSigned(a) \/ IsSigned(b))
                    [] ~IsConstexpr(a) /\ IsConstexpr(b) -> a
                    [] IsConstexpr(a) /\ ~IsConstexpr(b) -> b
                    [] OTHER -> IF SameType(a, b) THEN a ELSE NoType)
ShiftMap(op, a) == IF Is(op, "shift") THEN Both(a) ELSE Untyped

ArrayBit(op, a, b) ==
    IF op # "concat" \/ Elem(a).class # "Bit" \/ ~SameType(Elem(a), b) THEN Untyped
    ELSE Typed(SetElem([a EXCEPT !.width = RangeIncremented(@)], IF b.constexpr THEN Elem(a) ELSE b), a)
BitvectorBitvector(op, a, b) ==
    LET opts == {"constexpr"} \cup IF Is(op, "assignment") THEN {} ELSE {"handle"}
        span == IF op \in {"concat", "mult"} THEN RangeSum(a.width, b.width) ELSE ResultSpan(a, b)
        result == [BitvectorType(span, a.signed /\ b.signed, a.logic \/ b.logic, a.resolved \/ b.resolved)
                     EXCEPT !.constexpr = a.constexpr /\ b.constexpr]
    IN  CASE Is(op, "logical") \/ a.width = 0 \/ b.width = 0 -> Untyped
          [] IsShiftNotRotate(op) -> Both(a)
          [] op # "concat" /\ (a.logic # b.logic \/ ~EqualTypes(a, b, opts) \/ span = 0) -> Untyped
          [] IsRelationalOrAssignment(op) ->
                IF a.width # b.width THEN Untyped
                ELSE Typed(IF result.logic
                           THEN [BitType(TRUE, result.resolved) EXCEPT !.constexpr = result.constexpr]
                           ELSE BoolType,
                           result)
          [] OTHER -> Both(result)
BitvectorBit(op, a, b) ==
    IF op # "concat" THEN Untyped
    ELSE Both([BitvectorType(RangeIncremented(a.width), a.signed, a.logic \/ b.logic, a.resolved \/ b.resolved)
                 EXCEPT !.constexpr = a.constexpr /\ b.constexpr])
BitvectorBool(op, a, b) == BitvectorBit(op, a, [AType("Bit") EXCEPT !.constexpr = b.constexpr])
IntInt(op, a, b) ==
    IF op = "concat"
    THEN IF (~a.constexpr /\ ~b.constexpr /\ ~EqualTypes(a, b, {"spans"})) \/ a.width = 0 \/ b.width = 0 THEN Untyped
         ELSE LET like == IF a.constexpr THEN b ELSE a IN
              Both([IntType(RangeSum(a.width, b.width), like.signed) EXCEPT !.constexpr = like.constexpr])
    ELSE IF Is(op, "shift") THEN ShiftMap(op, a) ELSE BaseMap(op, a, b)
BitBit(op, a, b) ==
    IF op # "concat" THEN BaseMap(op, a, b)
    ELSE IF ~EqualTypes(a, b, {"constexpr"}) THEN Untyped
    ELSE Both([BitvectorType(2, FALSE, a.logic, a.resolved) EXCEPT !.constexpr = a.constexpr])
BoolBool(op, a, b) ==
    CASE op = "concat" -> Both([BitvectorType(2, FALSE, FALSE, FALSE) EXCEPT !.constexpr = a.constexpr /\ b.constexpr])
      [] Is(op, "logical") \/ IsRelationalOrAssignment(op) \/ Is(op, "bitwise") -> Both(BoolType)
      [] OTHER -> Untyped
EnumEnum(op, a, b) == IF IsRelationalOrAssignment(op) /\ SameType(a, b) THEN Typed(BoolType, a) ELSE Untyped
VectorVector(op, a, b) ==      \* two Signed or two Unsigned
    IF op # "concat" THEN BaseMap(op, a, b)
    ELSE IF a.width = 0 \/ b.width = 0 THEN Untyped ELSE Both(VectorType(a.class, RangeSum(a.width, b.width)))
VectorBit(op, a, b) ==
    IF op # "concat" THEN Untyped
    ELSE Both([VectorType(a.class, RangeIncremented(a.width)) EXCEPT !.constexpr = a.constexpr /\ b.constexpr])
VectorBitvector(op, a, b) ==
    IF ~b.constexpr THEN Untyped ELSE VectorVector(op, a, VectorType(a.class, b.width))
StringString(op, a, b) ==
    LET sized(width) == [AType("String") EXCEPT !.width = IF a.width # 0 /\ b.width # 0 THEN width ELSE 0] IN
    CASE op = "concat" -> Typed(AType("String"), sized(RangeSum(a.width, b.width)))
      [] Is(op, "assignment") -> Both(a)
      [] Is(op, "relational") -> Typed(BoolType, sized(RangeMax(a.width, b.width)))
      [] OTHER -> Untyped
StringPointer(op, a, b) ==
    CASE Base(Elem(b)).class # "Char" -> Untyped
      [] op = "concat" -> Both(AType("String"))
      [] Is(op, "assignment") -> Both(a)
      [] Is(op, "relational") -> Typed(BoolType, AType("String"))
      [] OTHER -> Untyped
PointerString(op, a, b) ==
    IF Is(op, "assignment") THEN IF Base(Elem(a)).class = "Char" THEN Both(a) ELSE Untyped
    ELSE StringPointer(op, b, a)
PointerInt(op, a) == IF op \in {"plus", "minus"} THEN Both(a) ELSE Untyped
ArrayInt(op, a, b) ==
    CASE op = "concat" /\ SameType(Base(Elem(a)), b) -> Both([a EXCEPT !.width = RangeIncremented(@)])
      [] b.constexpr /\ op \in {"plus", "minus"} -> Typed(CompositeOf("Pointer", Elem(a)), b)
      [] OTHER -> Untyped
IntArray(op, a, b) == IF op = "minus" THEN Untyped ELSE ArrayInt(op, b, a)
TimeTime(op) ==
    CASE Is(op, "relational") /\ op \notin {"case_eq", "case_neq"} -> Typed(BoolType, AType("Time"))
      [] Is(op, "assignment") \/ op \in {"plus", "minus"} -> Both(AType("Time"))
      [] OTHER -> Untyped
TimeScaled(op) == IF op \in {"mult", "div"} THEN Both(AType("Time")) ELSE Untyped
FileFile(op, a, b) == IF Is(op, "assignment") /\ SameType(a, b) THEN Both(a) ELSE Untyped

\* Views of the disciplines of Verilog-AMS can be concatenated; views have no other
\* operations here than assignment and equality, and no inheritance.
Discipline == "discipline"
ViewView(op, a, b) ==
    CASE ~(Is(op, "assignment") \/ op \in Equalities \cup {"concat"}) \/ a.name # b.name -> Untyped
      [] op = "concat" -> IF a.name = Discipline THEN Typed(ArrayOf(2, a), a) ELSE Untyped
      [] OTHER -> Typed(IF Is(op, "relational") THEN BoolType ELSE a, a)
ViewArray(op, a, b) ==
    IF op = "concat" /\ Elem(b) = a /\ a.name = Discipline THEN Both([b EXCEPT !.width = RangeIncremented(@)])
    ELSE Untyped
-----------------------------------------------------------------------------
\* The pairs of classes that map is declared for.
Maps ==
    {<<"Object", "Object">>, <<"Type", "Int">>, <<"Type", "TypeReference">>, <<"Type", "Reference">>}
    \cup {"Array"} \X {"Array", "Bit", "Signed", "Unsigned", "Bitvector", "Int", "ViewReference"}
    \cup {"Bit"} \X {"Array", "Bit", "Bitvector", "Signed", "Unsigned"}
    \cup {"Bool"} \X {"Bitvector", "Bool"}
    \cup {"Bitvector"} \X {"Bool", "Bit", "Bitvector", "Signed", "Time", "Unsigned", "Array"}
    \cup {<<"Char", "Char">>, <<"Enum", "Enum">>, <<"File", "File">>, <<"Record", "Record">>}
    \cup {"Int"} \X {"Array", "Int", "Time", "Pointer"}
    \cup {"Pointer"} \X {"Pointer", "String", "Int"}
    \cup {"Real"} \X {"Real", "Time"}
    \cup {"Reference"} \X {"Int", "Reference", "Type", "TypeReference"}
    \cup {"Signed"} \X {"Array", "Bit", "Bitvector", "Signed"}
    \cup {"String"} \X {"String", "Pointer"}
    \cup {"Time"} \X {"Bitvector", "Int", "Real", "Time"}
    \cup {"TypeReference"} \X {"Int", "Reference", "Type", "TypeReference"}
    \cup {"Unsigned"} \X {"Array", "Bit", "Bitvector", "Unsigned"}
    \cup {"ViewReference"} \X {"ViewReference", "Array"}
Chosen == ChosenMap(Maps)

RECURSIVE Analyze(_, _, _), AnalyzeUnary(_, _)

\* The element of a concatenation of arrays of elements u and v: two bits are no vector.
ConcatElement(prec, u, v) ==
    CASE prec.class = "Bitvector" ->
            IF u.class = "Bit" /\ v.class = "Bit"
            THEN [BitType(prec.logic, prec.resolved) EXCEPT !.constexpr = prec.constexpr] ELSE prec
      [] prec.class = "Array" -> Elem(prec)
      [] OTHER -> IF EqualTypes(u, v, {"constexpr", "string"}) THEN SetConstexpr(u, IsConstexpr(u) /\ IsConstexpr(v))
                  ELSE NoType
ArrayOfElements(op, element, width, signed) ==
    LET result == [ArrayOf(width, element) EXCEPT !.signed = signed] IN
    CASE element = NoType \/ width = 0 -> Untyped
      [] IsRelationalOrAssignment(op) -> Typed(IF element.class = "Bit" /\ element.logic THEN element ELSE BoolType, result)
      [] OTHER -> Both(result)
WithElements(op, a, b, r) ==
    IF r.ret = NoType THEN Untyped
    ELSE ArrayOfElements(op, IF op = "concat" THEN ConcatElement(r.prec, Base(Elem(a)), Base(Elem(b))) ELSE r.prec,
                         IF op \in {"concat", "mult"} THEN RangeSum(a.width, b.width) ELSE ResultSpan(a, b),
                         a.signed \/ b.signed)
ArrayArray(op, a, b) ==
    IF Is(op, "logical") \/ IsShiftNotRotate(op) \/ (op = "concat" /\ "Array" \in {Elem(a).class, Elem(b).class})
    THEN Untyped ELSE WithElements(op, a, b, Analyze(op, Elem(a), Elem(b)))
\* An array takes another vector: as one more element in a concatenation, else as
\* the vector it is made of bits like.
VectorArray(op, a, b) ==
    CASE op # "concat" ->
            IF Elem(b).class = "Bit" THEN VectorVector(op, a, VectorType(a.class, b.width)) ELSE Untyped
      [] Analyze("conv", a, Elem(b)).ret # NoType -> Both([b EXCEPT !.width = RangeIncremented(@)])
      [] OTHER -> Untyped
ArrayBitvector(op, a, b) ==
    IF op = "concat" /\ Analyze("conv", Elem(a), b).ret # NoType
    THEN Both([a EXCEPT !.width = RangeIncremented(@)]) ELSE Untyped
PointerPointer(op, a, b) ==
    CASE Analyze(op, Elem(a), Elem(b)).ret = NoType -> Untyped
      [] op \in Equalities -> Typed(BoolType, a)
      [] Is(op, "assignment") -> Both(a)
      [] OTHER -> Untyped
WithFields(op, a, r) ==
    IF \E i \in DOMAIN r : r[i].ret = NoType THEN Untyped
    ELSE Typed(IF Is(op, "assignment") THEN a ELSE BoolType, [AType("Record") EXCEPT !.of = [i \in DOMAIN r |-> r[i].prec]])
RecordRecord(op, a, b) ==
    IF ~(Is(op, "assignment") \/ op \in Equalities) \/ Len(a.of) # Len(b.of) THEN Untyped
    ELSE WithFields(op, a, [i \in DOMAIN a.of |-> Analyze(op, a.of[i], b.of[i])])

Overload(m, op, a, b) ==
    CASE m = <<"Type", "Int">> -> ShiftMap(op, a)
      [] m \in {<<"Type", "TypeReference">>} -> TypeTypeReference(Analyze, op, a, b)
      [] m \in {<<"TypeReference", "Type">>, <<"TypeReference", "Int">>} -> TypeReferenceType(Analyze, op, a, b)
      [] m = <<"TypeReference", "TypeReference">> -> TypeReferences(Analyze, TRUE, op, a, b)
      [] m \in {<<"Type", "Reference">>, <<"TypeReference", "Reference">>} -> Analyze(op, a, Elem(b))
      [] m = <<"Reference", "Reference">> -> Analyze(op, Elem(a), Elem(b))
      [] m[1] = "Reference" -> Analyze(op, Elem(a), b)
      [] m = <<"Array", "Array">> -> ArrayArray(op, a, b)
      [] m = <<"Array", "Bit">> -> ArrayBit(op, a, b)
      [] m = <<"Bit", "Array">> -> ArrayBit(op, b, a)
      [] m \in {"Signed", "Unsigned"} \X {"Array"} -> VectorArray(op, a, b)
      [] m \in {"Array"} \X {"Signed", "Unsigned"} -> VectorArray(op, b, a)
      [] m = <<"Array", "Bitvector">> -> ArrayBitvector(op, a, b)
      [] m = <<"Bitvector", "Array">> -> ArrayBitvector(op, b, a)
      [] m = <<"Array", "Int">> -> ArrayInt(op, a, b)
      [] m = <<"Int", "Array">> -> IntArray(op, a, b)
      [] m = <<"Array", "ViewReference">> -> ViewArray(op, b, a)
      [] m = <<"ViewReference", "Array">> -> ViewArray(op, a, b)
      [] m = <<"ViewReference", "ViewReference">> -> ViewView(op, a, b)
      [] m = <<"Bit", "Bit">> -> BitBit(op, a, b)
      [] m = <<"Bitvector", "Bit">> -> BitvectorBit(op, a, b)
      [] m = <<"Bit", "Bitvector">> -> BitvectorBit(op, b, a)
      [] m = <<"Bitvector", "Bool">> -> BitvectorBool(op, a, b)
      [] m = <<"Bool", "Bitvector">> -> BitvectorBool(op, b, a)
      [] m \in {"Signed", "Unsigned"} \X {"Bit"} -> VectorBit(op, a, b)
      [] m \in {"Bit"} \X {"Signed", "Unsigned"} -> VectorBit(op, b, a)
      [] m = <<"Bool", "Bool">> -> BoolBool(op, a, b)
      [] m = <<"Bitvector", "Bitvector">> -> BitvectorBitvector(op, a, b)
      [] m \in {"Signed", "Unsigned"} \X {"Bitvector"} -> VectorBitvector(op, a, b)
      [] m \in {"Bitvector"} \X {"Signed", "Unsigned"} -> VectorBitvector(op, b, a)
      [] m \in {<<"Signed", "Signed">>, <<"Unsigned", "Unsigned">>} -> VectorVector(op, a, b)
      [] m = <<"Int", "Int">> -> IntInt(op, a, b)
      [] m \in {<<"Char", "Char">>, <<"Real", "Real">>} -> BaseMap(op, a, b)
      [] m = <<"Enum", "Enum">> -> EnumEnum(op, a, b)
      [] m = <<"Record", "Record">> -> RecordRecord(op, a, b)
      [] m = <<"File", "File">> -> FileFile(op, a, b)
      [] m = <<"Pointer", "Pointer">> -> PointerPointer(op, a, b)
      [] m = <<"Pointer", "String">> -> PointerString(op, a, b)
      [] m = <<"String", "Pointer">> -> StringPointer(op, a, b)
      [] m = <<"Pointer", "Int">> -> PointerInt(op, a)
      [] m = <<"Int", "Pointer">> -> PointerInt(op, b)
      [] m = <<"String", "String">> -> StringString(op, a, b)
      [] m = <<"Time", "Time">> -> TimeTime(op)
      [] m \in {<<"Time", "Int">>, <<"Time", "Real">>, <<"Int", "Time">>, <<"Real", "Time">>} -> TimeScaled(op)
      [] OTHER -> Untyped

Map(op, a, b) == Overload(Chosen[a.class, b.class], op, a, b)
MapUnary(op, t) ==
    CASE t.class \in {"Array", "Bit", "Char", "Real"} -> BaseMapUnary(op, t)
      [] t.class \in {"Bitvector", "Signed", "Unsigned"} -> UnaryBitvector(op, t)
      [] t.class = "Bool" -> UnaryBool(op, t)
      [] t.class = "Int" -> UnaryInt(op, t)
      [] t.class = "Pointer" -> UnaryPointer(op, t)
      [] t.class = "String" -> UnaryString(op, t)
      [] t.class = "Event" -> UnaryEvent(op, t)
      [] t.class = "Reference" -> AnalyzeUnary(op, Elem(t))
      [] t.class = "TypeReference" /\ ~IsTypeParameter(Base(t)) -> Restored(op, t, Base(t), AnalyzeUnary(op, Base(t)))
      [] OTHER -> Untyped

Analyze(op, a, b) ==
    IF NoType \in {a, b} THEN Untyped ELSE Concluded(Map(op, a, b), ConstexprResult(a, b))
AnalyzeUnary(op, t) == Concluded(MapUnary(op, t), ConstexprResult(t, t))

\* HIFSemantics::getExprType; a pointer to what a reference refers to.
ExprType(op, a, b) == Analyze(op, a, b)
ExprTypeUnary(op, t) ==
    CASE op = "ref" -> Typed(CompositeOf("Pointer", IF t.class = "Reference" THEN Elem(t) ELSE t), t)
      [] op = "deref" /\ t.class = "Pointer" -> Typed(Elem(t), t)
      [] OTHER -> AnalyzeUnary(op, t)
-----------------------------------------------------------------------------
\* HIFSemantics::getTypeDefaultValue; native semantics are two-valued.
SimpleDefault(t) ==
    CASE t.class = "Enum" -> FirstOf(t)
      [] t.class = "Int" -> ConstOf("IntValue", t, "0")
      [] t.class = "Real" -> ConstOf("RealValue", t, "0")
      [] t.class = "File" -> CastOf(t, ConstOf("StringValue", AType("String"), ""))
      [] t.class = "String" -> ConstOf("StringValue", t, "")
      [] t.class = "Pointer" -> CastOf(t, ConstOf("IntValue", IntType(32, TRUE), "0"))
      [] OTHER -> NoValue
RECURSIVE TypeDefaultValue(_, _)
TypeDefaultValue(type, native) ==
    LET t == Base(type)
        digit == DigitOf(t, IF native THEN "0" ELSE "u")
        inside(u) == TypeDefaultValue(u, native)
    IN  CASE t.class = "Array" ->
                IF Elem(t) = NoType \/ inside(Elem(t)) = NoValue THEN NoValue ELSE Others(inside(Elem(t)))
          [] t.class \in {"Bitvector", "Signed", "Unsigned"} -> BitsOf(t, digit)
          [] t.class = "Record" -> AValue("RecordValue", NoType, "", [i \in DOMAIN t.of |-> inside(t.of[i])])
          [] t.class = "Bit" -> ConstOf("BitValue", t, digit)
          [] t.class = "Bool" -> ConstOf("BoolValue", t, "false")
          [] t.class = "Time" -> ConstOf("TimeValue", t, "0")
          [] t.class = "Char" -> ConstOf("CharValue", t, "0")
          [] OTHER -> SimpleDefault(t)

MapForType(t) == IF t.class = "Int" /\ t.width = 0 THEN [t EXCEPT !.width = 32] ELSE t
SuggestedTypeForOp(t, op, opType, isOp1) ==
    CASE IsShiftNotRotate(op) /\ ~isOp1 -> Constant(IntType(SpanOf(t), FALSE))
      [] op \in {"mult", "div"} /\ t.class = "Time" /\ opType.class = "Bitvector" -> Constant(IntType(64, FALSE))
      [] OTHER -> t

\* A constant: its class, its type, how many digits or characters it has and whether
\* the digits are 0 and 1; value is whether a number fits in 32 bits.
TypeForConstant(c) ==
    CASE c.class = "IntValue" -> Constant(IntType(IF c.value = "wide" THEN 64 ELSE 32, TRUE))
      [] c.class = "BoolValue" -> Constant(BoolType)
      [] c.class = "BitValue" ->
            IF c.type.class = "Bit" THEN Constant(c.type) ELSE Constant(BitType(c.value \notin {"0", "1"}, FALSE))
      [] c.class = "BitvectorValue" ->
            Constant(BitvectorType(c.type.width, FALSE, c.value \notin {"0", "1"}, TRUE))
      [] c.class = "CharValue" -> Constant(AType("Char"))
      [] c.class = "RealValue" -> Constant(RealType(64))
      [] c.class = "StringValue" -> Constant(AType("String"))
      [] c.class = "TimeValue" -> Constant(AType("Time"))

CheckCondition(t, logicTernary) == IF logicTernary THEN t.class = "Bit" /\ t.logic ELSE t.class = "Bool"

\* explicitBoolConversion of a value c of type type; an assertion refuses the types
\* that are in no branch.
Zero(t) == ConstOf(IF t.class \in {"Bitvector", "Signed", "Unsigned"} THEN "BitvectorValue" ELSE "IntValue", t, "0")
BoolConversion(c, type) ==
    LET t == Base(type) IN
    CASE CheckCondition(t, FALSE) -> c
      [] t.class = "Bit" -> CastOf(BoolType, Expr("case_eq", c, ConstOf("BitValue", t, "1")))
      [] t.class = "Enum" -> Expr("case_neq", c, FirstOf(t))
      [] t.class = "String" -> Expr("case_neq", c, ConstOf("StringValue", AType("String"), ""))
      [] t.class \in {"Bitvector", "Signed", "Unsigned"} -> Expr("case_eq", c, Not(Zero(t)))
      [] OTHER -> Expr("case_neq", c, Zero(t))

\* isTypeAllowedAsBound: no type when t may be a bound, else the type to use.
NativeWidths == {8, 16, 32, 64}
TypeAllowedAsBound(t) ==
    CASE t.class = "Int" /\ t.variant = "NATIVE_TYPE" /\ t.width \in NativeWidths \cup {0} -> NoType
      [] t.class = "Int" /\ t.width # 0 ->
            IntType(CHOOSE w \in NativeWidths : w >= t.width /\ \A v \in NativeWidths : v >= t.width => w <= v, IsSigned(t))
      [] OTHER -> IntType(SpanOf(t), IsSigned(t))

IsTypeAllowed(t) == t # NoType /\ t.variant = "NATIVE_TYPE"
=============================================================================
