--------------------------- MODULE SemanticTypes ---------------------------
(***************************************************************************)
(* The types an expression can have and the helpers the language semantics *)
(* compute with (src/src/hif_utils/typePropertyUtils.cpp, operatorUtils.cpp *)
(* and src/src/semantics).  A type is a record; a member its class does    *)
(* not have keeps its default.  A span is its number of bits, 0 for none:  *)
(* directions, offsets and bounds that are not constant are left out.      *)
(***************************************************************************)
EXTENDS HifMembers

\* of holds the element of a composite type, the fields of a record, or what a
\* TypeReference is declared as (nothing for a type parameter); opaque belongs to
\* the TypeDef behind a TypeReference.
AType(c) == [class |-> c, width |-> 0, signed |-> FALSE, logic |-> FALSE, resolved |-> FALSE, constexpr |-> FALSE,
             variant |-> "NATIVE_TYPE", name |-> "", opaque |-> FALSE, of |-> <<>>]
NoType == AType("")

BoolType == AType("Bool")
BitType(logic, resolved) == [AType("Bit") EXCEPT !.logic = logic, !.resolved = resolved]
IntType(width, signed) == [AType("Int") EXCEPT !.width = width, !.signed = signed]
RealType(width) == [AType("Real") EXCEPT !.width = width]
BitvectorType(width, signed, logic, resolved) ==
    [AType("Bitvector") EXCEPT !.width = width, !.signed = signed, !.logic = logic, !.resolved = resolved]
VectorType(c, width) == [AType(c) EXCEPT !.width = width]
CompositeOf(c, t) == [AType(c) EXCEPT !.of = <<t>>]
ArrayOf(width, t) == [CompositeOf("Array", t) EXCEPT !.width = width]
Named(c, name) == [AType(c) EXCEPT !.name = name]
Constant(t) == [t EXCEPT !.constexpr = TRUE]

Composite == {"Array", "File", "Pointer", "Reference"}
Scoped == {"Enum", "Record"}
Simple == {"Bit", "Bitvector", "Bool", "Char", "Event", "Int", "Real", "Signed", "String", "Time", "Unsigned"}
HasSpan == {"Array", "Bitvector", "Int", "Real", "Signed", "Unsigned"}

Elem(t) == IF t.of = <<>> THEN NoType ELSE t.of[1]
SetElem(t, e) == [t EXCEPT !.of = <<e>>]

\* A type with the TypeReferences in it replaced by what they are declared as, down
\* to opaque ones when they count.
RECURSIVE BaseType(_, _)
BaseType(t, considerOpacity) ==
    CASE t.class = "TypeReference" ->
            IF t.of = <<>> \/ (considerOpacity /\ t.opaque) THEN t ELSE BaseType(t.of[1], considerOpacity)
      [] t.class \in Composite \cup {"Record"} ->
            [t EXCEPT !.of = [i \in DOMAIN @ |-> BaseType(@[i], considerOpacity)]]
      [] OTHER -> t
Base(t) == BaseType(t, FALSE)
IsTypeParameter(t) == t.class = "TypeReference" /\ t.of = <<>>

RECURSIVE IsConstexpr(_), IsSigned(_), IsLogic(_), IsResolved(_), SetConstexpr(_, _)
IsConstexpr(t) ==
    IF t.class \in Composite \cup {"TypeReference"} THEN t.of # <<>> /\ IsConstexpr(t.of[1]) ELSE t.constexpr
IsSigned(t) ==
    \/ t.class \in {"Char", "Enum", "Real", "Signed"}
    \/ t.class \in {"Array", "Bitvector", "Int"} /\ t.signed
    \/ t.class \in {"Pointer", "Reference", "TypeReference"} /\ t.of # <<>> /\ IsSigned(t.of[1])
IsLogic(t) ==
    \/ t.class \in {"Signed", "Unsigned"}
    \/ t.class \in {"Bit", "Bitvector"} /\ t.logic
    \/ t.class \in {"Array", "Pointer", "Reference", "TypeReference"} /\ t.of # <<>> /\ IsLogic(t.of[1])
IsResolved(t) ==
    \/ t.class \in {"Signed", "Unsigned"}
    \/ t.class \in {"Bit", "Bitvector"} /\ t.resolved
    \/ t.class \in {"Array", "Pointer", "Reference", "TypeReference"} /\ t.of # <<>> /\ IsResolved(t.of[1])
SetConstexpr(t, v) ==
    IF t.class \in Composite THEN IF t.of = <<>> THEN t ELSE SetElem(t, SetConstexpr(t.of[1], v))
    ELSE IF t.class \in Scoped \cup Simple THEN [t EXCEPT !.constexpr = v]
    ELSE t

\* The bits of the span of a type; strings have none here.
RECURSIVE SpanOf(_)
SpanOf(t) ==
    CASE t.class \in HasSpan -> t.width
      [] t.class \in {"Bit", "Bool"} -> 1
      [] t.class = "Char" -> 8
      [] t.class = "Enum" -> 32
      [] t.class = "Pointer" -> 64
      [] t.class \in {"Reference", "TypeReference"} /\ t.of # <<>> -> SpanOf(t.of[1])
      [] OTHER -> 0
RECURSIVE SetSpan(_, _), SetSigned(_, _), SetLogic(_, _), SetResolved(_, _)
SetSpan(t, width) ==
    IF t.class = "Reference" THEN SetElem(t, SetSpan(Elem(t), width))
    ELSE IF t.class \in HasSpan THEN [t EXCEPT !.width = width] ELSE t
SetSigned(t, v) ==
    IF t.class \in {"Array", "Bitvector", "Int"} THEN [t EXCEPT !.signed = v]
    ELSE IF t.class \in {"Pointer", "Reference"} THEN SetElem(t, SetSigned(Elem(t), v)) ELSE t
SetLogic(t, v) ==
    IF t.class \in {"Bit", "Bitvector"} THEN [t EXCEPT !.logic = v]
    ELSE IF t.class \in {"Array", "Pointer", "Reference"} THEN SetElem(t, SetLogic(Elem(t), v)) ELSE t
SetResolved(t, v) ==
    IF t.class \in {"Bit", "Bitvector"} THEN [t EXCEPT !.resolved = v]
    ELSE IF t.class \in {"Array", "Pointer", "Reference"} THEN SetElem(t, SetResolved(Elem(t), v)) ELSE t

RangeMax(w1, w2) == IF w1 > w2 THEN w1 ELSE w2
RangeSum(w1, w2) == w1 + w2
RangeIncremented(w) == w + 1

IsVectorType(t) == Base(t).class \in {"Bitvector", "Signed", "Unsigned"}

\* hif::equals on types under the options in opts: "constexpr", "spans", "signed",
\* "resolved", "logic" and "string" are flags that are not compared, "handle" is
\* handleConstexprTypes (a constant takes the form of what it meets), "only" is
\* checkOnlyTypes and "vectors" is handleVectorTypes.
AsVector(t) ==
    IF t.class \in {"Signed", "Unsigned"}
    THEN [BitvectorType(t.width, t.class = "Signed", TRUE, TRUE)
            EXCEPT !.constexpr = t.constexpr, !.variant = t.variant]
    ELSE t
RECURSIVE EqualTypes(_, _, _)
EqualAs(a, b, opts) ==
    LET constant == "handle" \in opts /\ (a.constexpr \/ b.constexpr)
        compared ==
            CASE a.class = "Bit" -> {"constexpr", "variant", "resolved", "logic"}
              [] a.class = "Bitvector" -> {"spans", "constexpr", "variant", "signed", "resolved", "logic"}
              [] a.class = "Int" -> {"spans", "constexpr", "variant", "signed"}
              [] a.class \in {"Signed", "Unsigned", "Real"} -> {"spans", "constexpr", "variant"}
              [] a.class = "String" -> {"string", "constexpr", "variant"}
              [] a.class = "Array" -> {"spans", "signed", "variant", "of"}
              [] a.class \in {"Pointer", "Reference", "File"} -> {"variant", "of"}
              [] a.class \in {"Enum", "Record"} -> {"constexpr", "variant", "name", "of"}
              [] a.class \in {"TypeReference", "ViewReference"} -> {"variant", "name"}
              [] OTHER -> {"constexpr", "variant"}
        free == CASE ~constant -> {}
                  [] a.class \in {"Bit", "Int", "Real", "Bool", "String"} -> compared
                  [] a.class = "Bitvector" -> {"constexpr", "variant", "signed"}
                  [] OTHER -> {}
    IN  /\ a.class = b.class
        /\ "only" \in opts \/
           \A f \in compared \ (free \cup opts) :
              CASE f \in {"spans", "string"} -> a.width = b.width
                [] f = "of" -> Len(a.of) = Len(b.of) /\ \A i \in DOMAIN a.of : EqualTypes(a.of[i], b.of[i], opts)
                [] OTHER -> a[f] = b[f]
EqualTypes(s, t, opts) ==
    LET form(u) == IF "vectors" \in opts THEN AsVector(u) ELSE u IN EqualAs(form(s), form(t), opts)
SameType(a, b) == EqualTypes(a, b, {})

-----------------------------------------------------------------------------
\* The values the semantics make: a class, a type, what it stands for (a digit, a
\* number, an operator) and the values inside.
AValue(c, type, value, of) == [class |-> c, type |-> type, value |-> value, of |-> of]
NoValue == AValue("", NoType, "", <<>>)
ConstOf(c, type, value) == AValue(c, Constant(type), value, <<>>)
Others(v) == AValue("Aggregate", NoType, "others", <<v>>)
CastOf(type, v) == AValue("Cast", type, "", <<v>>)
FirstOf(enum) == AValue("Identifier", enum, "first", <<>>)
Expr(op, v1, v2) == AValue("Expression", NoType, op, <<v1, v2>>)
Not(v) == AValue("Expression", NoType, "bnot", <<v>>)
Call(name, type, args) == AValue("FunctionCall", type, name, args)
WithType(v, type) == IF v.class \in {"BitValue", "BitvectorValue", "BoolValue", "CharValue", "IntValue", "RealValue",
                                     "StringValue", "TimeValue"} THEN [v EXCEPT !.type = type] ELSE v

\* Every bit of a type that is not known yet has this digit.
DigitOf(t, unknown) == IF IsLogic(t) THEN unknown ELSE "0"
\* The value of a vector of bits with one digit everywhere; without a known span an
\* aggregate of bits.
BitsOf(t, digit) ==
    IF t.width # 0 THEN ConstOf("BitvectorValue", t, digit)
    ELSE Others(ConstOf("BitValue", BitType(IsLogic(t), IsResolved(t)), digit))

-----------------------------------------------------------------------------
\* The operators that have each feature; the inverse of a comparison is its negation.
Having ==
    [unary |-> {"abs", "andrd", "bnot", "deref", "minus", "not", "orrd", "plus", "ref", "xorrd", "reverse",
               "size"},
     arithmetic |-> {"abs", "div", "log", "minus", "mod", "mult", "plus", "pow", "rem"},
     logical |-> {"and", "not", "or", "xor"},
     reduce |-> {"andrd", "orrd", "xorrd"},
     assignment |-> {"assign", "conv", "bind"},
     commutative |-> {"band", "bor", "bxor", "case_eq", "case_neq", "eq", "mult", "neq", "plus", "xor"},
     bitwise |-> {"band", "bnot", "bor", "bxor"},
     relational |-> {"case_eq", "case_neq", "eq", "ge", "gt", "le", "lt", "neq"},
     equality |-> {"case_eq", "case_neq", "eq", "neq"},
     rotate |-> {"rol", "ror"},
     shift |-> {"rol", "ror", "sla", "sll", "sra", "srl"}]
Is(op, feature) == op \in Having[feature]

-----------------------------------------------------------------------------
\* What the analysis of an operation gives: the type of the result and the type
\* the operation is computed in, or no types when the operation is not allowed.
Untyped == [ret |-> NoType, prec |-> NoType]
Typed(ret, prec) == [ret |-> ret, prec |-> prec]
Both(t) == Typed(t, t)

\* BiVisitor::callMap calls the overload of map that C++ chooses for the classes of
\* the two operands: of the declared pairs that take them, the one that no other is
\* closer than.
TypeClasses == Composite \cup Scoped \cup Simple \cup {"TypeReference", "ViewReference"}
ChosenAmong(fitting, bases) ==
    CHOOSE p \in fitting : \A q \in fitting : q[1] \in bases[p[1]] /\ q[2] \in bases[p[2]]
ChosenFor(pairs, bases) ==
    [c1, c2 \in TypeClasses |-> ChosenAmong({p \in pairs : p[1] \in bases[c1] /\ p[2] \in bases[c2]}, bases)]
ChosenMap(pairs) == ChosenFor(pairs, [c \in TypeClasses \cup {"Type", "Object"} |-> Bases[c]])

\* The result is a constant when the operands are; a type parameter counts as one.
ConstexprResult(a, b) ==
    LET free(t) == Base(t).class = "TypeReference" IN
    (free(a) \/ IsConstexpr(a)) /\ (free(b) \/ IsConstexpr(b))
Concluded(r, constexpr) == Typed(SetConstexpr(r.ret, constexpr), SetConstexpr(r.prec, constexpr))

\* A result that is the type behind a TypeReference becomes the TypeReference; the
\* spans of concatenations are not those of a declaration without template parameters.
Restored(op, tr, base, r) ==
    IF r.ret = NoType \/ r.prec = NoType \/ op = "concat" THEN r
    ELSE Typed(IF SameType(r.ret, base) THEN tr ELSE r.ret, IF SameType(r.prec, base) THEN tr ELSE r.prec)

\* _map of SemanticAnalysis: the types behind TypeReferences are analyzed; a type
\* parameter is taken to be the type it meets, and two only be assigned.
BehindFirst(a, b) == IF IsTypeParameter(Base(a)) THEN b ELSE Base(a)
BehindSecond(a, b) == IF IsTypeParameter(Base(b)) THEN a ELSE Base(b)
BehindBoth(oa, ob) ==
    LET isRef(t) == t.class = "TypeReference" IN
    CASE ~isRef(oa) /\ ~isRef(ob) -> <<oa, ob>>
      [] isRef(oa) /\ isRef(ob) /\ oa.name # ob.name -> <<>>
      [] IsTypeParameter(Base(oa)) \/ IsTypeParameter(Base(ob)) -> <<>>
      [] OTHER -> <<Base(oa), Base(ob)>>
ParametersAssigned(op, oa, ob) ==
    IF IsTypeParameter(Base(oa)) /\ IsTypeParameter(Base(ob)) /\ oa.name = ob.name /\ Is(op, "assignment")
    THEN Typed(BoolType, Base(oa)) ELSE Untyped
TypeReferenceType(Analyze(_, _, _), op, a, b) == Restored(op, a, BehindFirst(a, b), Analyze(op, BehindFirst(a, b), b))
TypeTypeReference(Analyze(_, _, _), op, a, b) == Restored(op, b, BehindSecond(a, b), Analyze(op, a, BehindSecond(a, b)))
TypeReferences(Analyze(_, _, _), considerOpacity, op, a, b) ==
    LET oa == BaseType(a, considerOpacity)
        ob == BaseType(b, considerOpacity)
        behind == BehindBoth(oa, ob)
    IN  IF behind = <<>> THEN ParametersAssigned(op, oa, ob)
        ELSE Restored(op, b, behind[2], Restored(op, a, behind[1], Analyze(op, behind[1], behind[2])))
=============================================================================
