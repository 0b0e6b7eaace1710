------------------------------ MODULE HifChecks ------------------------------
(*****************************************************************************)
(* What checkHif demands of an object of each class before it believes that  *)
(* a description is legal in a language: the visit methods of                *)
(* CheckHifDescription (src/src/semantics/checkHif.cpp). A row names what is *)
(* demanded of the object itself, the parts that must be there and what is   *)
(* demanded of its values; a value that is not there is not checked.         *)
(*****************************************************************************)
EXTENDS SemanticTypes, TLC

(***************************************************************************)
(* The type of a value in a language: what each semantics object says of   *)
(* types and constants, chosen by the language, and the rules of           *)
(* getSemanticType (src/src/semantics/getSemanticType.cpp) for each class  *)
(* of value.  A value with no type has NoType.                             *)
(***************************************************************************)

LOCAL INSTANCE SequencesExt

HIF == INSTANCE HIFTypeRules
VHDL == INSTANCE VHDLTypeRules
Verilog == INSTANCE VerilogTypeRules
-----------------------------------------------------------------------------
\* ILanguageSemantics::getExprType of one operand (b is NoType) or two.
Typing(l, op, a, b) ==
    CASE l = "HIF" -> IF b = NoType THEN HIF!ExprTypeUnary(op, a) ELSE HIF!ExprType(op, a, b)
      [] l = "VHDL" -> IF b = NoType THEN VHDL!ExprTypeUnary(op, a) ELSE VHDL!ExprType(op, a, b)
      [] l = "Verilog" -> IF b = NoType THEN Verilog!ExprTypeUnary(op, a) ELSE Verilog!ExprType(op, a, b)
MapForType(l, t) ==
    CASE l = "HIF" -> HIF!MapForType(t) [] l = "VHDL" -> VHDL!MapForType(t) [] l = "Verilog" -> Verilog!MapForType(t)
SuggestedType(l, t, op, opType, isOp1) ==
    CASE l = "HIF" -> HIF!SuggestedTypeForOp(t, op, opType, isOp1)
      [] l = "VHDL" -> VHDL!SuggestedTypeForOp(t, op, opType, isOp1)
      [] l = "Verilog" -> Verilog!SuggestedTypeForOp(t, op, opType, isOp1)
IsTypeAllowed(l, t) ==
    CASE l = "HIF" -> HIF!IsTypeAllowed(t) [] l = "VHDL" -> VHDL!IsTypeAllowed(t)
      [] l = "Verilog" -> Verilog!IsTypeAllowed(t)
CheckCondition(l, t) ==
    CASE l = "HIF" -> HIF!CheckCondition(t, FALSE) [] l = "VHDL" -> VHDL!CheckCondition(t, FALSE)
      [] l = "Verilog" -> Verilog!CheckCondition(t)
TypeAllowedAsBound(l, t) ==
    CASE l = "HIF" -> HIF!TypeAllowedAsBound(t) [] l = "VHDL" -> VHDL!TypeAllowedAsBound(t)
      [] l = "Verilog" -> Verilog!TypeAllowedAsBound(t)
\* The value of a declaration that has none: of a variable that is no net.
DefaultValue(l, t) ==
    CASE l = "HIF" -> HIF!TypeDefaultValue(t, FALSE) [] l = "VHDL" -> VHDL!TypeDefaultValue(t)
      [] l = "Verilog" -> Verilog!TypeDefaultValue(t, FALSE)
TypeForConstant(l, c) ==
    CASE l = "HIF" -> HIF!TypeForConstant(c) [] l = "VHDL" -> VHDL!TypeForConstant(c)
      [] l = "Verilog" -> Verilog!TypeForConstant(c)
BoolConversion(l, c, t) ==
    CASE l = "HIF" -> HIF!BoolConversion(c, t) [] l = "VHDL" -> VHDL!BoolConversion(c, t)
      [] l = "Verilog" -> Verilog!BoolConversion(c, t)
\* HIF has every cast.
ExplicitCast(l, v, target) ==
    CASE l = "HIF" -> CastOf(target, v) [] l = "VHDL" -> VHDL!ExplicitCast(v, target)
      [] l = "Verilog" -> Verilog!ExplicitCast(v, target)
IsTyped(r) == r.ret # NoType
-----------------------------------------------------------------------------
\* analyzePrecisionType: values that have to be of one type are compared one after
\* the other; so are the values of an aggregate, of a When and of a With.
CommonType(l, op, types) ==
    FoldLeft(LAMBDA t, u : IF t = NoType THEN t ELSE Typing(l, op, t, u).prec, types[1], Tail(types))

\* getVectorElementType; a bit of a vector is not of the language but of HIF.
ElementType(t) ==
    LET u == Base(t) IN
    CASE u.class = "Array" -> Elem(u)
      [] u.class \in {"Signed", "Unsigned"} -> [BitType(TRUE, TRUE) EXCEPT !.constexpr = u.constexpr]
      [] u.class = "Bitvector" -> [BitType(u.logic, u.resolved) EXCEPT !.constexpr = u.constexpr]
      [] u.class = "String" -> [AType("Char") EXCEPT !.constexpr = u.constexpr]
      [] OTHER -> NoType
\* getMemberSemanticType: the element of a vector as the language has it.
MemberType(l, t) ==
    LET u == Base(IF t.class = "Reference" THEN Elem(t) ELSE t) IN
    CASE u.class \in {"Array", "String"} -> [ElementType(u) EXCEPT !.constexpr = IF u.class = "String" THEN FALSE ELSE @]
      [] u.class \in {"Bit", "Bool"} -> u
      [] u.class = "Bitvector" -> MapForType(l, ElementType(u))
      [] u.class \in {"Signed", "Unsigned"} -> BitType(TRUE, TRUE)
      [] u.class = "Pointer" /\ l = "HIF" -> Elem(u)
      [] OTHER -> NoType
\* getSliceSemanticType of a slice of the given width.
SliceType(t, width) ==
    LET u == Base(IF t.class = "Reference" THEN Elem(t) ELSE t) IN
    IF u.class = "String" THEN [u EXCEPT !.width = width] ELSE IF SpanOf(u) = 0 THEN NoType ELSE SetSpan(u, width)

\* The type of an aggregate of some elements, and of one that gives the others of a
\* target of the type wanted.
OfElementType(elements, t) ==
    IF t = NoType THEN NoType
    ELSE SetConstexpr(ArrayOf(Len(elements), t), \A i \in DOMAIN elements : IsConstexpr(elements[i]))
AggregateType(l, elements) == OfElementType(elements, CommonType(l, "eq", elements))
OthersMade(others, wanted, w) ==
    CASE wanted = NoType -> NoType
      [] w.class = "Record" -> wanted
      [] w.class = "Array" ->
            LET same == Elem(w).class = "TypeReference" /\ EqualTypes(BaseType(Elem(w), TRUE), BaseType(others, TRUE), {"spans"})
            IN  SetElem(w, IF same THEN Elem(w) ELSE others)
      [] IsVectorType(w) \/ w.class = "String" -> w
      [] SpanOf(w) # 0 -> BitvectorType(SpanOf(w), IsSigned(w), IsLogic(Base(others)), IsResolved(Base(others)))
      [] OTHER -> NoType
OthersNamed(wanted, w, made) ==
    wanted.class = "TypeReference" /\ EqualTypes(BaseType(w, TRUE), BaseType(made, TRUE), {"spans"})
OthersOf(others, wanted, w, made) ==
    IF made = NoType THEN NoType
    ELSE SetConstexpr(IF OthersNamed(wanted, w, made) THEN wanted ELSE made, IsConstexpr(others))
OthersType(others, wanted) == OthersOf(others, wanted, Base(wanted), OthersMade(others, wanted, Base(wanted)))

\* The class of each value decides; wanted is the type of the other operand of the
\* construct that holds the value, results the types of the operations needed.
Literals == {"BitValue", "BitvectorValue", "BoolValue", "CharValue", "IntValue", "RealValue", "StringValue", "TimeValue"}
LiteralType(l, v) == IF v.type # NoType THEN v.type ELSE TypeForConstant(l, v)
RecordType(v, wanted, parts, results) ==
    IF Base(wanted).class = "Record" /\ Len(Base(wanted).of) = Len(v.of) /\ \A i \in DOMAIN results : IsTyped(results[i]) THEN wanted
    ELSE Constant([AType("Record") EXCEPT !.of = parts])
ValueType(l, v, wanted, parts, results) ==
    CASE v.class \in {"Identifier", "Cast", "FunctionCall"} -> v.type
      [] v.class \in Literals -> LiteralType(l, v)
      [] v.class = "Expression" -> IF results = <<>> THEN NoType ELSE results[1].ret
      [] v.class = "Aggregate" -> OthersType(parts[1], wanted)
      [] v.class = "RecordValue" -> RecordType(v, wanted, parts, results)
      [] OTHER -> NoType
\* What each part is wanted as, and the operations between the parts.
WantedAs(v, w, i) ==
    CASE v.class = "Aggregate" -> ElementType(w)
      [] v.class = "RecordValue" /\ i \in DOMAIN w.of -> w.of[i]
      [] OTHER -> NoType
Operations(v, w, parts) ==
    CASE v.class = "Expression" /\ parts # <<>> /\ NoType \notin {parts[i] : i \in DOMAIN parts} ->
            <<<<v.value, parts[1], IF Len(parts) = 2 THEN parts[2] ELSE NoType>>>>
      [] v.class = "RecordValue" -> [i \in DOMAIN parts \cap DOMAIN w.of |-> <<"conv", w.of[i], parts[i]>>]
      [] OTHER -> <<>>
WithParts(l, v, wanted, parts) ==
    ValueType(l, v, wanted, parts, [i \in DOMAIN Operations(v, Base(wanted), parts) |->
        LET o == Operations(v, Base(wanted), parts)[i] IN Typing(l, o[1], o[2], o[3])])
RECURSIVE TypeOf(_, _, _)
TypeOf(l, v, wanted) == WithParts(l, v, wanted, [i \in DOMAIN v.of |-> TypeOf(l, v.of[i], WantedAs(v, Base(wanted), i))])

-----------------------------------------------------------------------------
Check(self, parts, values) == [self |-> self, parts |-> parts, values |-> values]
CheckReal == Check({"allowed"}, {"span"}, <<>>)
-----------------------------------------------------------------------------
CheckPortAssignToVariable ==
    [PortAssign |-> Check({"typed", "declared"}, {"value"}, [value |-> "bind"]),
     Port |-> Check({"name", "portType", "portValue"}, {"type", "direction"}, [value |-> "initial"]),
     Variable |-> Check({"name", "default"}, {"type"}, [value |-> "initial"])]

CheckConstToParameter ==
    [Const |-> Check({"name"}, {"type", "value"}, [value |-> "initial"]),
     Continue |-> Check({"target"}, {}, <<>>),
     Signal |-> Check({"name", "default"}, {"type"}, [value |-> "initial"]),
     ValueTP |-> Check({"name", "templateType", "ofView"}, {"type"}, [value |-> "initial"]),
     Parameter |-> Check({"name"}, {"type"}, [value |-> "initial"])]

CheckFieldToIntValue ==
    [Field |-> Check({"name", "inRecord", "scopedField", "default"}, {"type"}, [value |-> "initial"]),
     Instance |-> Check({"declared", "constructed"}, {"referencedType"}, <<>>),
     Int |-> Check({"allowed", "bitfield"}, {"span"}, <<>>),
     IntValue |-> Check({"typed", "constant"}, {}, <<>>)]

CheckBitToRecord ==
    [Bit |-> Check({"allowed"}, {}, <<>>),
     BitValue |-> Check({"typed", "constant", "digits", "dontCare"}, {}, <<>>),
     BitvectorValue |-> Check({"typed", "constant", "digits", "dontCare"}, {}, <<>>),
     Bool |-> Check({"allowed"}, {}, <<>>),
     BoolValue |-> Check({"typed", "constant"}, {}, <<>>),
     Break |-> Check({"target"}, {}, <<>>),
     CharValue |-> Check({"typed", "constant"}, {}, <<>>),
     RealValue |-> Check({"typed", "constant"}, {}, <<>>),
     Record |-> Check({"allowed", "packedUnion", "scopedType"}, {}, <<>>)]

CheckRecordValueToGlobalAction ==
    [RecordValue |-> Check({"typed", "someFields"}, {}, <<>>),
     RecordValueAlt |-> Check({"name"}, {"value"}, <<>>),
     StringValue |-> Check({"typed", "constant"}, {}, <<>>),
     Function |-> Check({"returnType"}, {}, <<>>),
     FunctionCall |-> Check({"signature", "typed", "arguments", "instantiated", "declared"}, {}, <<>>),
     GlobalAction |-> Check({"noGlobalActions"}, {}, <<>>)]

CheckParameterAssignToProcedureCall ==
    [ParameterAssign |-> Check({"name", "ofCall", "declared", "typed"}, {"value"}, [value |-> "conv"]),
     Pointer |-> Check({"allowed"}, {}, <<>>),
     ValueTPAssign |-> Check({"name", "ofTemplate", "declared", "typed"}, {"value"}, [value |-> "conv"]),
     Procedure |-> Check({}, {}, <<>>),
     ProcedureCall |-> Check({"signature", "arguments", "instantiated", "declared"}, {}, <<>>)]

CheckExpressionToWhenAlt ==
    [Expression |-> Check({"arity", "typed"}, {}, [value1 |-> "typed", value2 |-> "typed"]),
     Assign |-> Check({"noAfter"}, {"rightHandSide", "leftHandSide"}, [rightHandSide |-> "assign", delay
     |-> "time"]),
     IfAlt |-> Check({}, {"condition"}, [condition |-> "condition"]),
     WhenAlt |-> Check({}, {"condition"}, [condition |-> "condition"])]

CheckWhenToSystem ==
    [When |-> Check({"typed"}, {}, [alts_value |-> "eq"]),
     With |-> Check({"noWith", "literalCase", "typed"}, {"default"}, [condition |-> "case"]),
     Reference |-> Check({"allowed"}, {}, <<>>),
     Return |-> Check({"inSubProgram"}, {}, [value |-> "conv"]),
     Identifier |-> Check({"name", "declared", "typed"}, {}, <<>>),
     System |-> Check({"language"}, {}, <<>>)]

CheckAliasToSlice ==
    [Alias |-> Check({}, {}, <<>>),
     Aggregate |-> Check({"someElements", "typed", "ofVector"}, {}, <<>>),
     AggregateAlt |-> Check({}, {}, [indices |-> "bound"]),
     Cast |-> Check({"typed", "castAllowed", "notTarget", "notSensitivity"}, {"value", "type"}, [value
     |-> "typed"]),
     Char |-> Check({"allowed"}, {}, <<>>),
     Slice |-> Check({"typed"}, {"prefix"}, [prefix |-> "sliced"])]

CheckStateTableToSwitch ==
    [StateTable |-> Check({"name", "oneState"}, {}, <<>>),
     String |-> Check({"allowed"}, {}, <<>>),
     Range |-> Check({"direction"}, {"leftBound", "rightBound"}, [leftBound |-> "bound", rightBound |->
     "bound"]),
     Switch |-> Check({"literalCase"}, {}, [condition |-> "case"])]

CheckDesignUnitToArray ==
    [DesignUnit |-> Check({"oneView"}, {}, <<>>),
     Library |-> Check({"allowed", "declared", "ofLibrary"}, {}, <<>>),
     LibraryDef |-> Check({"name", "language", "linkage"}, {}, <<>>),
     Member |-> Check({"typed"}, {"index", "prefix"}, [index |-> "bound"]),
     TypeReference |-> Check({"allowed", "name", "declared", "ofScope", "instantiated"}, {}, <<>>),
     Array |-> Check({"allowed"}, {"span", "type"}, <<>>)]

CheckBitvectorToFor ==
    [Bitvector |-> Check({"allowed"}, {"span"}, <<>>),
     ForGenerate |-> Check({"noGenerates", "oneInitial", "implicitIndex", "conditionKind"},
     {"condition"}, [condition |-> "condition"]),
     IfGenerate |-> Check({"noGenerates"}, {"condition"}, [condition |-> "condition"]),
     For |-> Check({"oneInitial", "conditionKind"}, {"condition"}, [condition |-> "condition"])]

CheckWhileToViewReference ==
    [While |-> Check({}, {"condition"}, [condition |-> "condition"]),
     View |-> Check({"name", "language"}, {"entity"}, <<>>),
     ViewReference |-> Check({"allowed", "name", "designUnit", "declared", "ofScope", "instantiated"},
     {}, <<>>)]

CheckWaitToEvent ==
    [Wait |-> Check({"waitActions"}, {}, [time |-> "time", condition |-> "condition", repetitions |->
     "integer"]),
     Enum |-> Check({"allowed", "scopedType"}, {}, <<>>),
     EnumValue |-> Check({"name", "inEnum", "scopedValue"}, {"type"}, [value |-> "initial"]),
     Event |-> Check({"allowed"}, {}, <<>>)]

CheckTimeToValueStatement ==
    [Time |-> Check({"allowed"}, {}, <<>>),
     TimeValue |-> Check({"typed", "constant"}, {}, <<>>),
     Transition |-> Check({"ofStateTable"}, {}, <<>>),
     TypeDef |-> Check({"opaqueScoped", "emptyExternal"}, {}, <<>>),
     FieldReference |-> Check({"name", "typed", "declared"}, {"prefix"}, <<>>),
     File |-> Check({"allowed"}, {}, <<>>),
     Unsigned |-> Check({"allowed"}, {"span"}, <<>>),
     ValueStatement |-> Check({"noValueStatement"}, {"value"}, <<>>)]

CheckSignedToTypeTPAssign ==
    [Signed |-> Check({"allowed"}, {"span"}, <<>>),
     TypeTPAssign |-> Check({"declared"}, {"type"}, <<>>)]

HifCheck ==
    CheckPortAssignToVariable @@ CheckConstToParameter @@ CheckFieldToIntValue @@
    CheckBitToRecord @@ CheckRecordValueToGlobalAction @@ CheckParameterAssignToProcedureCall @@
    CheckExpressionToWhenAlt @@ CheckWhenToSystem @@ CheckAliasToSlice @@
    CheckStateTableToSwitch @@ CheckDesignUnitToArray @@ CheckBitvectorToFor @@
    CheckWhileToViewReference @@ CheckWaitToEvent @@ CheckTimeToValueStatement @@
    CheckSignedToTypeTPAssign @@ [Real |-> CheckReal]
\* What is demanded of the value in slot s of an object of class c.
Demand(c, s) == IF c \in DOMAIN HifCheck /\ s \in DOMAIN HifCheck[c].values THEN HifCheck[c].values[s] ELSE "none"
-----------------------------------------------------------------------------
\* _checkDeclInitialValAssign: the type of the declaration, else one it can be given.
DeclaredAccepted(declared, t) == SameType(BaseType(t, TRUE), BaseType(declared, TRUE))
\* visitSlice, visitAggregate: what has parts that follow each other.
SlicedAccepted(t) == Base(t).class \in {"Bit", "Bool", "Bitvector", "Signed", "Unsigned", "Array", "Int", "String"}
\* visitWait: a number of repetitions is what the language has for an Int.
RepetitionsAccepted(l, t) == MapForType(l, IntType(32, TRUE)).class = t.class

\* The language accepts a value of type t where the demand is made, by a construct
\* whose other operand has the type with.
Comparing == [initial |-> "assign", assign |-> "assign", conv |-> "conv", bind |-> "bind", eq |-> "eq", case |-> "case_eq",
              plus |-> "plus"]
Accepted(l, demand, t, with) ==
    CASE demand = "condition" -> CheckCondition(l, t)
      [] demand = "bound" -> TypeAllowedAsBound(l, t) = NoType
      [] demand = "initial" /\ DeclaredAccepted(with, t) -> TRUE
      [] demand \in DOMAIN Comparing ->
            LET known(u) == IF demand = "initial" THEN Base(u) ELSE u IN
            IsTyped(Typing(l, Comparing[demand], known(with), known(t)))
      [] demand = "time" -> t.class = "Time"
      [] demand = "integer" -> RepetitionsAccepted(l, t)
      [] demand = "sliced" -> SlicedAccepted(t)
      [] OTHER -> t # NoType
=============================================================================
