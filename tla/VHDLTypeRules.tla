--------------------------- MODULE VHDLTypeRules ---------------------------
(***************************************************************************)
(* The types of VHDL operations: VHDLAnalysis, VHDLCastAnalysis and the    *)
(* queries of VHDLSemantics (src/src/semantics/VHDLSemantics.cpp).  Each   *)
(* rule is the overload of map for the two classes in its name; the guards *)
(* of a CASE are tried in order, as the early returns of the code are.     *)
(***************************************************************************)
EXTENDS SemanticTypes

\* setStrictTypeChecks and setUsePsl.
StrictTypeChecks == TRUE
UsingPsl == FALSE

IsStandardLogic(t) == t.logic /\ t.resolved
IsStandardUlogic(t) == t.logic /\ ~t.resolved
IsBitVectorType(t) == ~t.logic /\ ~t.resolved
IsShiftNoRotate(op) == Is(op, "shift") /\ ~Is(op, "rotate")
IsAllowedArithmeticOrConcat(op) == (Is(op, "arithmetic") \/ op = "concat") /\ op \notin {"abs", "rem", "log"}
IsRelationalOrAssignment(op) == Is(op, "relational") \/ Is(op, "assignment")
Equalities == {"eq", "neq", "case_eq", "case_neq"}

\* An assignment has the type of its target, a comparison is a Bool.
Compared(op, target, prec) == Typed(IF Is(op, "assignment") THEN target ELSE BoolType, prec)
Allowed(condition, r) == IF condition THEN r ELSE Untyped

-----------------------------------------------------------------------------
UnaryBitvector(op, t) ==
    CASE op = "bnot" -> Allowed(IsBitVectorType(t) \/ IsStandardLogic(t), Both(t))
      [] op \in {"plus", "minus"} -> Allowed(t.logic \/ t.constexpr, Both(t))
      [] Is(op, "reduce") -> Allowed(IsStandardLogic(t), Typed(BitType(TRUE, TRUE), t))
      [] OTHER -> Untyped
UnaryBit(op, t) ==
    Allowed(\/ op = "bnot" \/ (op = "not" /\ ~t.logic)
            \/ op \in {"plus", "minus"} /\ (IsStandardUlogic(t) \/ t.constexpr), Both(t))

ArrayType(op, a, b) ==
    Allowed(op = "concat" /\ a.width # 0 /\ SameType(Elem(a), b),
            Typed([ArrayOf(RangeIncremented(a.width), b) EXCEPT !.signed = a.signed], a))
\* Two Signed or two Unsigned.
VectorVector(op, a, b) ==
    LET span == CASE op \in {"div", "rem", "mod"} -> a.width
                  [] op \in {"mult", "concat"} -> RangeSum(a.width, b.width)
                  [] OTHER -> RangeMax(a.width, b.width)
    IN  CASE Is(op, "assignment") -> Allowed(a.width = b.width \/ ~StrictTypeChecks, Both(a))
          [] Is(op, "relational") -> Typed(BoolType, [a EXCEPT !.width = RangeMax(@, b.width)])
          [] OTHER -> Allowed(/\ a.width # 0 /\ b.width # 0
                              /\ IsAllowedArithmeticOrConcat(op) \/ Is(op, "bitwise") \/ IsShiftNoRotate(op),
                              Both(VectorType(a.class, span)))
\* A vector takes a Bitvector as one of its own class; a Bitvector that is assigned
\* a vector has to be converted.
VectorBitvector(op, a, b) == VectorVector(op, a, VectorType(a.class, b.width))
BitvectorVector(op, a, b) ==
    Allowed(~(Is(op, "assignment") /\ StrictTypeChecks), VectorVector(op, VectorType(b.class, a.width), b))
SignedUnsigned(op, a, b) ==
    LET wider == RangeIncremented(b.width) IN
    IF IsRelationalOrAssignment(op) THEN Compared(op, a, a)
    ELSE Allowed(/\ a.width # 0 /\ b.width # 0
                 /\ op \in {"plus", "minus", "mult"} \/ IsShiftNoRotate(op),
                 Both(VectorType("Signed", IF op = "mult" THEN RangeSum(a.width, wider) ELSE RangeMax(a.width, wider))))
VectorInt(op, a) ==
    CASE Is(op, "assignment") -> Untyped
      [] Is(op, "relational") -> Typed(BoolType, a)
      [] IsShiftNoRotate(op) -> Both(a)
      [] OTHER -> Allowed(a.width # 0 /\ IsAllowedArithmeticOrConcat(op),
                          Both(VectorType(a.class, IF op = "mult" THEN RangeSum(a.width, a.width) ELSE a.width)))
VectorBit(op, a, b) ==
    CASE IsRelationalOrAssignment(op) -> Compared(op, a, a)
      [] ~b.logic /\ ~b.constexpr -> Untyped
      [] op = "concat" -> Allowed(a.width # 0, Typed(VectorType(a.class, RangeIncremented(a.width)), a))
      [] OTHER -> Allowed(op \in {"plus", "minus"}, Both(BitvectorType(a.width, FALSE, TRUE, TRUE)))
IntInt(op, a, b) ==
    IF IsRelationalOrAssignment(op)
    THEN Compared(op, a, [IntType(RangeMax(a.width, b.width), a.signed \/ b.signed)
                            EXCEPT !.constexpr = a.constexpr /\ b.constexpr])
    ELSE Both(IntType(32, TRUE))
BitBit(op, a, b) ==
    LET prec == [(IF a.constexpr THEN b ELSE a) EXCEPT !.logic = a.logic \/ b.logic, !.resolved = a.resolved \/ b.resolved]
    IN  CASE ~a.constexpr /\ ~b.constexpr /\ a.logic # b.logic -> Untyped
          [] IsRelationalOrAssignment(op) -> Compared(op, a, prec)
          [] op = "concat" -> Both(BitvectorType(2, FALSE, prec.logic, prec.resolved))
          [] OTHER -> Allowed(\/ op = "bxor" \/ (Is(op, "logical") /\ ~prec.logic)
                              \/ prec.logic /\ (op = "xor" \/ Is(op, "bitwise"))
                              \/ IsStandardUlogic(prec) /\ op \in {"plus", "minus", "mult"}, Both(prec))
\* PSL mixes Bool and Bit.
AsBit(bool, bit) == [BitType(bit.logic, FALSE) EXCEPT !.constexpr = bool.constexpr]
BoolBit(op, a, b) == Allowed(UsingPsl, BitBit(op, AsBit(a, b), b))
BitBool(op, a, b) == Allowed(UsingPsl, BitBit(op, a, AsBit(b, a)))
BitvectorBit(op, a, b) ==
    LET result == [BitvectorType(RangeIncremented(a.width), a.signed, a.logic \/ b.logic,
                                 CASE a.constexpr = b.constexpr -> a.resolved \/ b.resolved
                                   [] a.constexpr -> b.resolved
                                   [] OTHER -> a.resolved)
                     EXCEPT !.constexpr = a.constexpr /\ b.constexpr]
    IN  CASE IsRelationalOrAssignment(op) -> Compared(op, a, a)
          [] op = "concat" -> Allowed(a.constexpr \/ b.constexpr \/ a.logic = b.logic,
                                      Typed(result, [result EXCEPT !.width = a.width]))
          [] Is(op, "bitwise") -> Allowed(IsBitVectorType(a) \/ a.constexpr, Both(a))
          [] OTHER -> Allowed(op \in {"plus", "minus", "mult"} /\ (a.logic \/ a.constexpr), Both(a))
BitvectorBitvector(op, a, b) ==
    LET span == RangeMax(a.width, b.width)
        meets(P(_)) == P(a) /\ P(b)
        constant == a.constexpr \/ b.constexpr
        flags(w, logic, resolved) == BitvectorType(w, a.signed \/ b.signed, logic, resolved)
        compared == [flags(IF Is(op, "assignment") THEN a.width ELSE span, a.logic \/ b.logic, a.resolved \/ b.resolved)
                       EXCEPT !.constexpr = a.constexpr /\ b.constexpr]
        other == IF a.constexpr THEN b ELSE a
    IN  CASE IsRelationalOrAssignment(op) ->
                Allowed(~(Is(op, "assignment") /\ a.width # b.width /\ StrictTypeChecks), Compared(op, a, compared))
          [] op = "concat" -> Typed([other EXCEPT !.width = RangeSum(a.width, b.width)], other)
          [] Is(op, "bitwise") ->
                IF meets(IsBitVectorType) THEN Both(flags(span, FALSE, FALSE))
                ELSE Allowed(/\ meets(IsStandardLogic) \/ meets(IsStandardUlogic) \/ constant
                             /\ a.width = 0 \/ b.width = 0 \/ a.width = b.width,
                             Both(flags(span, a.logic \/ b.logic, meets(IsStandardLogic))))
          [] OTHER ->
                Allowed(/\ ~StrictTypeChecks /\ op \in {"plus", "minus", "mult"}
                        /\ meets(IsStandardLogic) \/ meets(IsStandardUlogic) \/ constant,
                        Both(flags(IF op = "mult" THEN RangeSum(a.width, b.width) ELSE span, TRUE, meets(IsStandardLogic))))
BoolBool(op) == Allowed(Is(op, "logical") \/ IsRelationalOrAssignment(op), Both(BoolType))
RealReal(op, a, b) ==
    Allowed(EqualTypes(a, b, {"constexpr"}), Typed(IF Is(op, "logical") \/ Is(op, "relational") THEN BoolType ELSE a, a))
IntReal(op, b) == Allowed(Is(op, "arithmetic"), Both(b))
TimeScaled(op) == Allowed(op \in {"mult", "div"}, Both(AType("Time")))
TimeTime(op) ==
    Allowed(Is(op, "assignment") \/ op \in {"eq", "neq", "le", "ge", "lt", "gt", "plus", "minus"},
            Typed(IF Is(op, "relational") THEN BoolType ELSE AType("Time"), AType("Time")))
StringString(op, a) ==
    CASE op = "concat" -> Both(AType("String"))
      [] Is(op, "assignment") -> Both(a)
      [] Is(op, "relational") -> Typed(BoolType, AType("String"))
      [] OTHER -> Untyped
StringBitvector(op, a, b) ==     \* and the other way round
    LET joined == [AType("String") EXCEPT !.constexpr = a.constexpr /\ b.constexpr,
                                          !.width = IF a.width # 0 /\ b.width # 0 THEN RangeSum(a.width, b.width) ELSE 0]
    IN  CASE StrictTypeChecks -> Untyped
          [] op = "concat" -> Both(joined)
          [] OTHER -> Allowed(IsRelationalOrAssignment(op), Compared(op, a, AType("String")))
StringChar(op, a) == Allowed(IsRelationalOrAssignment(op) \/ op = "concat", Typed(IF Is(op, "relational") THEN BoolType ELSE a, a))
StringArray(op, a, b) == Allowed(Base(Elem(b)).class = "Char", StringChar(op, a))
CharString(op, a, b) == IF Is(op, "assignment") THEN Both(a) ELSE StringChar(op, b)
ArrayString(op, a, b) ==
    Allowed(Base(Elem(a)).class = "Char", IF Is(op, "assignment") THEN Both(a) ELSE StringArray(op, b, a))
CharChar(op, a, b) ==
    IF IsRelationalOrAssignment(op) THEN Compared(op, a, a)
    ELSE Allowed(op = "concat" /\ SameType(a, b), Typed(VectorType("String", 2), a))
EnumEnum(op, a, b) == Allowed(IsRelationalOrAssignment(op) /\ SameType(a, b), Compared(op, a, a))
RecordArray(op, a, b) ==
    IF StrictTypeChecks \/ ~(Is(op, "assignment") \/ op \in Equalities) THEN ArrayType(op, b, a) ELSE Both(a)

\* The pairs of classes that map is declared for.
Maps ==
    {<<"Object", "Object">>, <<"Array", "Type">>, <<"Type", "Array">>, <<"Type", "TypeReference">>}
    \cup {"TypeReference"} \X {"Type", "Array", "Bitvector", "TypeReference"}
    \cup {"Array"} \X {"Array", "Bitvector", "Signed", "Unsigned", "TypeReference", "String"}
    \cup {"Bitvector"} \X {"Array", "Bitvector", "Signed", "Unsigned", "Bit", "TypeReference", "String"}
    \cup {"Unsigned", "Signed"} \X {"Array", "Bitvector", "Signed", "Unsigned", "Int", "Bit"}
    \cup {"Record"} \X {"Array", "Record"} \cup {"String"} \X {"Array", "Bitvector", "String", "Char"}
    \cup {"Bit"} \X {"Bitvector", "Signed", "Unsigned", "Bit", "Bool"} \cup {"Bool"} \X {"Bit", "Bool"}
    \cup {"Int"} \X {"Signed", "Unsigned", "Int", "Real", "Time"} \cup {"Real"} \X {"Int", "Real", "Time"}
    \cup {"Time"} \X {"Int", "Real", "Time"} \cup {"Char"} \X {"String", "Char"}
    \cup {<<"Pointer", "Pointer">>, <<"File", "File">>, <<"Enum", "Enum">>}

Vector == {"Signed", "Unsigned"}
Chosen == ChosenMap(Maps)

RECURSIVE Analyze(_, _, _), AnalyzeUnary(_, _), Map(_, _, _)

\* Arrays of any elements can be compared and assigned.
WithElements(op, a, b, r, prec) ==
    LET signed == a.signed \/ b.signed
        widest == [ArrayOf(RangeMax(a.width, b.width), r.prec)
                     EXCEPT !.signed = signed, !.of = IF r.prec = NoType THEN <<>> ELSE @]
        element ==
            IF prec.class # "Bitvector" THEN Elem(prec)
            ELSE IF Base(Elem(a)).class = "Bit" /\ Base(Elem(b)).class = "Bit"
            THEN [BitType(prec.logic, prec.resolved) EXCEPT !.constexpr = prec.constexpr] ELSE r.prec
    IN  IF IsRelationalOrAssignment(op) THEN Compared(op, a, widest)
        ELSE Allowed(/\ op = "concat" /\ Elem(a).class # "Array" /\ Elem(b).class # "Array"
                     /\ r.ret # NoType /\ prec.class \in {"Array", "Bitvector"},
                     Typed([ArrayOf(RangeSum(a.width, b.width), element) EXCEPT !.signed = signed], a))
OfArrays(op, a, b, r) == WithElements(op, a, b, r, Base(r.prec))
ArrayArray(op, a, b) == OfArrays(op, a, b, Analyze(op, Elem(a), Elem(b)))
\* A vector joins an array whose elements it can be assigned to as one more of them.
Appended(a, b) == Allowed(Analyze("conv", Elem(a), b).ret # NoType, Both([a EXCEPT !.width = RangeIncremented(@)]))
BitvectorArray(op, a, b) ==
    LET bit == Elem(b)
        result == BitvectorType(IF op \in {"concat", "mult"} THEN RangeSum(a.width, b.width) ELSE RangeMax(a.width, b.width),
                                a.signed \/ b.signed, a.logic \/ bit.logic, a.resolved \/ bit.resolved)
    IN  IF bit.class = "Bit" THEN Typed(IF Is(op, "relational") THEN BoolType ELSE result, result)
        ELSE Allowed(op = "concat", Appended(b, a))
ArrayVector(op, a, b) ==
    LET asVector == VectorType(b.class, a.width) IN
    CASE op = "eq" -> Allowed(Elem(a).class = "Bit", VectorVector(op, asVector, b))
      [] Is(op, "assignment") -> Allowed(Elem(a).class = "Bit", Both(asVector))
      [] OTHER -> Allowed(op = "concat", Appended(a, b))
RecordRecord(op, a, b) ==
    LET r(i) == Analyze(op, a.of[i], b.of[i]) IN
    Allowed(/\ Is(op, "assignment") \/ Is(op, "equality")
            /\ Len(a.of) = Len(b.of) /\ \A i \in DOMAIN a.of : r(i).ret # NoType,
            Compared(op, a, [AType("Record") EXCEPT !.of = [i \in DOMAIN a.of |-> r(i).prec]]))
PointerPointer(op, a, b) == Allowed(IsRelationalOrAssignment(op), Map(op, Elem(a), Elem(b)))
FileFile(op, a, b) ==
    CASE Is(op, "relational") -> Map(op, Elem(a), Elem(b)) [] Is(op, "assignment") -> Both(a) [] OTHER -> Untyped

Overload(m, op, a, b) ==
    CASE m = <<"Array", "Type">> -> ArrayType(op, a, b)
      [] m = <<"Type", "Array">> -> ArrayType(op, b, a)
      [] m \in {"Type", "Bitvector", "Array"} \X {"TypeReference"} -> TypeTypeReference(Analyze, op, a, b)
      [] m \in {"TypeReference"} \X {"Type", "Bitvector", "Array"} -> TypeReferenceType(Analyze, op, a, b)
      [] m = <<"TypeReference", "TypeReference">> -> TypeReferences(Analyze, TRUE, op, a, b)
      [] m = <<"Array", "Array">> -> ArrayArray(op, a, b)
      [] m = <<"Bitvector", "Array">> -> BitvectorArray(op, a, b)
      [] m = <<"Array", "Bitvector">> -> BitvectorArray(op, b, a)
      [] m \in {"Array"} \X Vector -> ArrayVector(op, a, b)
      [] m \in Vector \X {"Array"} -> ArrayVector(op, b, a)
      [] m \in {<<"Signed", "Signed">>, <<"Unsigned", "Unsigned">>} -> VectorVector(op, a, b)
      [] m = <<"Signed", "Unsigned">> -> SignedUnsigned(op, a, b)
      [] m = <<"Unsigned", "Signed">> -> SignedUnsigned(op, b, a)
      [] m \in Vector \X {"Bitvector"} -> VectorBitvector(op, a, b)
      [] m \in {"Bitvector"} \X Vector -> BitvectorVector(op, a, b)
      [] m \in Vector \X {"Int"} -> VectorInt(op, a)
      [] m \in {"Int"} \X Vector -> VectorInt(op, b)
      [] m \in Vector \X {"Bit"} -> VectorBit(op, a, b)
      [] m \in {"Bit"} \X Vector -> VectorBit(op, b, a)
      [] m = <<"Bitvector", "Bitvector">> -> BitvectorBitvector(op, a, b)
      [] m = <<"Bitvector", "Bit">> -> BitvectorBit(op, a, b)
      [] m = <<"Bit", "Bitvector">> -> BitvectorBit(op, b, a)
      [] m \in {<<"Bitvector", "String">>, <<"String", "Bitvector">>} -> StringBitvector(op, a, b)
      [] m = <<"Bit", "Bit">> -> BitBit(op, a, b)
      [] m = <<"Bool", "Bit">> -> BoolBit(op, a, b)
      [] m = <<"Bit", "Bool">> -> BitBool(op, a, b)
      [] m = <<"Bool", "Bool">> -> BoolBool(op)
      [] m = <<"Int", "Int">> -> IntInt(op, a, b)
      [] m = <<"Int", "Real">> -> IntReal(op, b)
      [] m = <<"Real", "Int">> -> IntReal(op, a)
      [] m = <<"Real", "Real">> -> RealReal(op, a, b)
      [] m \in {"Time"} \X {"Int", "Real"} \cup {"Int", "Real"} \X {"Time"} -> TimeScaled(op)
      [] m = <<"Time", "Time">> -> TimeTime(op)
      [] m = <<"String", "String">> -> StringString(op, a)
      [] m = <<"String", "Char">> -> StringChar(op, a)
      [] m = <<"Char", "String">> -> CharString(op, a, b)
      [] m = <<"String", "Array">> -> StringArray(op, a, b)
      [] m = <<"Array", "String">> -> ArrayString(op, a, b)
      [] m = <<"Char", "Char">> -> CharChar(op, a, b)
      [] m = <<"Record", "Array">> -> RecordArray(op, a, b)
      [] m = <<"Record", "Record">> -> RecordRecord(op, a, b)
      [] m = <<"Pointer", "Pointer">> -> PointerPointer(op, a, b)
      [] m = <<"File", "File">> -> FileFile(op, a, b)
      [] m = <<"Enum", "Enum">> -> EnumEnum(op, a, b)
      [] OTHER -> Untyped
Map(op, a, b) == Overload(Chosen[a.class, b.class], op, a, b)
MapUnary(op, t) ==
    CASE t.class = "Bitvector" -> UnaryBitvector(op, t)
      [] t.class = "Signed" -> Allowed(op \in {"plus", "minus", "bnot", "abs"}, Both(t))
      [] t.class = "Unsigned" -> Allowed(op \in {"plus", "minus", "bnot"}, Both(t))
      [] t.class = "Int" -> Allowed(op \in {"plus", "minus"}, Both(t))
      [] t.class = "Bool" -> Allowed(op = "not", Both(t))
      [] t.class = "Bit" -> UnaryBit(op, t)
      [] t.class = "Real" -> Both(t)
      [] t.class = "TypeReference" /\ ~IsTypeParameter(Base(t)) -> Restored(op, t, Base(t), AnalyzeUnary(op, Base(t)))
      [] OTHER -> Untyped
Analyze(op, a, b) ==
    IF NoType \in {a, b} THEN Untyped ELSE Concluded(Map(op, a, b), ConstexprResult(a, b))
AnalyzeUnary(op, t) == Concluded(MapUnary(op, t), ConstexprResult(t, t))
ExprType(op, a, b) == Analyze(op, a, b)
ExprTypeUnary(op, t) == AnalyzeUnary(op, t)
-----------------------------------------------------------------------------
\* DefaultValueVisitor: VHDL starts a number at the left of its range, which is the
\* smallest one when it has none; what a constant stands for keeps the name of its type.
SimpleDefault(t) ==
    CASE t.class = "Enum" -> FirstOf(t)
      [] t.class = "File" -> CastOf(t, ConstOf("StringValue", AType("String"), ""))
      [] t.class = "Int" -> ConstOf("IntValue", IntType(32, TRUE), "left")
      [] t.class = "Pointer" -> CastOf(t, ConstOf("IntValue", IntType(32, TRUE), "0"))
      [] t.class = "Real" -> ConstOf("RealValue", t, "left")
      [] t.class = "String" -> ConstOf("StringValue", t, IF t.width = 0 THEN "" ELSE "spaces")
      [] t.class = "Time" -> ConstOf("TimeValue", t, "0")
      [] OTHER -> NoValue
RECURSIVE TypeDefaultValue(_)
TypeDefaultValue(type) ==
    LET t == Base(type)
        inside(u) == IF u = NoType THEN NoValue ELSE TypeDefaultValue(u)
        v == CASE t.class = "Array" -> Others(inside(Elem(t)))
               [] t.class = "Bit" -> ConstOf("BitValue", t, DigitOf(t, "u"))
               [] t.class \in {"Signed", "Unsigned"} -> BitsOf(t, "u")
               [] t.class = "Bitvector" -> BitsOf(t, DigitOf(t, "u"))
               [] t.class = "Bool" -> ConstOf("BoolValue", t, "false")
               [] t.class = "Char" -> ConstOf("CharValue", t, "0")
               [] t.class = "Record" -> AValue("RecordValue", NoType, "", [i \in DOMAIN t.of |-> inside(t.of[i])])
               [] t.class = "Reference" -> inside(Elem(t))
               [] OTHER -> SimpleDefault(t)
    IN  IF type.class = "TypeReference" THEN WithType(v, type) ELSE v

MapForType(t) ==
    IF t.class = "Bitvector" /\ t.signed /\ t.logic THEN [VectorType("Signed", t.width) EXCEPT !.constexpr = t.constexpr]
    ELSE t
\* A Bitvector has to become a number to be computed with.
SuggestedTypeForOp(t, op, opType, isOp1) ==
    LET number == [VectorType(IF t.signed THEN "Signed" ELSE "Unsigned", t.width) EXCEPT !.constexpr = t.constexpr]
        operand == IF Is(op, "arithmetic") /\ t.class = "Bitvector" THEN number ELSE t
    IN  ExprType(op, operand, operand).prec

TypeForConstant(c) ==
    CASE c.class = "BoolValue" -> Constant(BoolType)
      [] c.class = "BitValue" -> Constant(BitType(c.value \notin {"0", "1"}, FALSE))
      [] c.class = "BitvectorValue" -> Constant(BitvectorType(c.type.width, FALSE, c.value \notin {"0", "1"}, TRUE))
      [] c.class = "CharValue" -> Constant(AType("Char"))
      [] c.class = "IntValue" -> Constant(IntType(32, TRUE))
      [] c.class = "RealValue" -> Constant(RealType(64))
      [] c.class = "StringValue" -> Constant(VectorType("String", c.type.width))
      [] c.class = "TimeValue" -> Constant(AType("Time"))

CheckCondition(t, logicTernary) == IF logicTernary THEN t.class = "Bit" /\ t.logic ELSE t.class = "Bool"

\* The comparison of a vector is made without the vector.
Zero(t) == ConstOf("BitvectorValue", t, "0")
BoolConversion(c, type) ==
    LET t == Base(type) IN
    CASE t.class = "Bit" -> Expr("case_eq", c, ConstOf("BitValue", t, "1"))
      [] t.class \in Vector \cup {"Bitvector"} -> Expr("case_eq", NoValue, Not(Zero(t)))
      [] t.class = "Bool" -> c
      [] OTHER -> NoValue

-----------------------------------------------------------------------------
\* VHDLCastAnalysis: a cast is a conversion, a call of a function of ieee_numeric_std
\* or both; there is none for the other pairs of types.
Number(name, type, v) == Call(name, type, <<v, ConstOf("IntValue", IntType(32, TRUE), "size")>>)
Resized(v, w) == Number("resize", [v.type EXCEPT !.width = w], v)
\* _mapVectors: a vector is resized as a number, and converted when the class changes.
CastVectors(v, s, t) ==
    LET number == VectorType(IF s.signed THEN "Signed" ELSE "Unsigned", s.width)
        sized == CASE s.width = t.width -> v
                   [] s.class = "Bitvector" ->
                        CastOf([s EXCEPT !.width = t.width], Resized(CastOf(number, v), t.width))
                   [] OTHER -> Resized([v EXCEPT !.type = s], t.width)
    IN  CASE s.class = "Bitvector" /\ t.class = "Bitvector" /\ s.width = t.width -> CastOf(t, v)
          [] s.class # t.class -> CastOf(t, sized)
          [] OTHER -> sized
CastMap(v, s, t) ==
    LET pair == <<s.class, t.class>>
        toNumber(signed, w) == VectorType(IF signed THEN "Signed" ELSE "Unsigned", w)
    IN  CASE pair \in (Vector \cup {"Bitvector"}) \X (Vector \cup {"Bitvector"}) -> CastVectors(v, s, t)
          [] pair = <<"Bitvector", "Int">> ->
                Call("to_integer", IntType(32, TRUE),
                     <<Call(IF s.signed THEN "to_signed" ELSE "to_unsigned", toNumber(s.signed, s.width), <<v>>)>>)
          [] pair \in Vector \X {"Int"} -> Call("to_integer", IntType(32, TRUE), <<v>>)
          [] pair = <<"Int", "Bitvector">> ->
                CastOf(t, Number(IF s.signed THEN "to_signed" ELSE "to_unsigned", toNumber(s.signed, t.width), v))
          [] pair = <<"Int", "Signed">> -> Number("to_signed", toNumber(TRUE, t.width), v)
          [] pair = <<"Int", "Unsigned">> -> Number("to_unsigned", toNumber(FALSE, t.width), v)
          [] pair \in {<<"Array", "Array">>, <<"Int", "Int">>, <<"Pointer", "Pointer">>, <<"File", "File">>,
                       <<"String", "File">>, <<"Bit", "Bit">>} -> v
          [] pair = <<"Bit", "Bitvector">> -> IF s.logic = t.logic THEN v ELSE NoValue
          [] pair \in {<<"Int", "Pointer">>, <<"Bool", "Bit">>} -> CastOf(t, v)
          [] pair = <<"Bit", "Bool">> -> Expr("case_eq", v, [ConstOf("BitValue", s, "1") EXCEPT !.type = s])
          [] OTHER -> NoValue
\* A type that is only opaque is cast to by its name.
CastThrough(v, s, t) ==
    LET known == BaseType(t, TRUE)
        inner == IF SameType(s, Base(known)) THEN v ELSE CastMap(v, s, Base(known))
        made == CASE SameType(s, known) -> v
                  [] known.class = "TypeReference" -> IF inner = v THEN CastOf(known, v) ELSE inner
                  [] OTHER -> CastMap(v, s, known)
    IN  IF made.type = known THEN [made EXCEPT !.type = t] ELSE made
\* The type that the value has in VHDL chooses the conversion; the type it had in the source
\* is stored (VHDLSemantics.cpp:1877) and not used.
ExplicitCast(v, target) ==
    IF EqualTypes(BaseType(v.type, TRUE), BaseType(target, TRUE), {"constexpr", "signed"}) THEN v
    ELSE CastThrough(v, Base(v.type), target)

-----------------------------------------------------------------------------
TypeAllowedAsBound(t) == IF t.class = "Int" THEN NoType ELSE Constant(IntType(SpanOf(t), FALSE))
IsTypeAllowed(t) == t.class # "Reference" /\ t.variant \in {"NATIVE_TYPE", "VHDL_BITVECTOR_NUMERIC_STD"}
=============================================================================
