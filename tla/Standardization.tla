-------------------------- MODULE Standardization --------------------------
(***************************************************************************)
(* Translating a description from the semantics of one language to those   *)
(* of another: standardizeHif                                              *)
(* (src/src/semantics/standardizeHif.cpp).  The visitor translates bottom  *)
(* up: the parts of an expression have their types in both languages when  *)
(* the expression is translated, and a part whose type does not fit gets a *)
(* cast.  The state is a value with its two types; every action wraps it   *)
(* in one more construct.  What a failed assertion stops is not a step.    *)
(***************************************************************************)
EXTENDS HifChecks

(*****************************************************************************)
(* What standardizeHif does to an object of each class once its parts have   *)
(* been translated: the visit methods of HifStdVisitor                       *)
(* (src/src/semantics/standardizeHif.cpp). A row gives the step for each     *)
(* part; self is the object itself. Steps on values: a value becomes an      *)
(* index, a condition, an initial value (default makes one first), the value *)
(* of an assignment, of a conversion or of a binding, an element of its      *)
(* construct, one of the alternatives of a choice, or loses its casts. Steps *)
(* on lists: declarations and parameters are sorted.                         *)
(*****************************************************************************)

\* Most visits only copy the object and go on with its parts.
Copied == <<>>
IsType == [self |-> "type"]
IsConstant == [self |-> "constant"]
IsSymbol == [self |-> "declaration"]
-----------------------------------------------------------------------------
StdAggregateToBool ==
    [Aggregate |-> [alts_value |-> "element", others |-> "element"],
     AggregateAlt |-> [indices |-> "index"],
     Alias |-> [value |-> "initial"],
     Array |-> IsType,
     Assign |-> [rightHandSide |-> "assign", leftHandSide |-> "uncast"],
     Bit |-> IsType,
     BitValue |-> IsConstant,
     Bitvector |-> IsType,
     BitvectorValue |-> IsConstant,
     Bool |-> IsType]

StdBoolValueToExpression ==
    [BoolValue |-> IsConstant,
     Break |-> Copied,
     Cast |-> [self |-> "cast"],
     Char |-> IsType,
     CharValue |-> IsConstant,
     Const |-> [value |-> "initial"],
     Contents |-> [declarations |-> "sort"],
     Continue |-> Copied,
     DesignUnit |-> Copied,
     Enum |-> IsType,
     EnumValue |-> [value |-> "initial"],
     Event |-> IsType,
     Expression |-> [self |-> "expression"]]

StdFunctionCallToIfAlt ==
    [FunctionCall |-> [self |-> "declaration", parameterAssigns |-> "parameters",
     templateParameterAssigns |-> "parameters", parameterAssigns_value |-> "conv",
     templateParameterAssigns_value |-> "conv"],
     Field |-> [value |-> "default"],
     FieldReference |-> [self |-> "declaration", value |-> "same"],
     File |-> IsType,
     For |-> [condition |-> "condition", initDeclarations |-> "sort"],
     ForGenerate |-> [condition |-> "condition", declarations |-> "sort", initDeclarations |-> "sort"],
     Function |-> Copied,
     GlobalAction |-> Copied,
     Entity |-> Copied,
     Identifier |-> IsSymbol,
     If |-> Copied,
     IfAlt |-> [condition |-> "condition"]]

StdIfGenerateToPointer ==
    [IfGenerate |-> [condition |-> "condition", declarations |-> "sort"],
     Instance |-> [self |-> "declaration", portAssigns |-> "parameters", portAssigns_value |-> "bind"],
     Int |-> IsType,
     IntValue |-> IsConstant,
     LibraryDef |-> [declarations |-> "sort"],
     Library |-> IsSymbol,
     Member |-> [index |-> "index", self |-> "member"],
     Null |-> Copied,
     Transition |-> Copied,
     ParameterAssign |-> IsSymbol,
     Parameter |-> [value |-> "initial"],
     Pointer |-> IsType]

StdPortAssignToRecordValueAlt ==
    [PortAssign |-> IsSymbol,
     Port |-> [value |-> "default"],
     Procedure |-> Copied,
     ProcedureCall |-> [self |-> "declaration", parameterAssigns |-> "parameters",
     templateParameterAssigns |-> "parameters", parameterAssigns_value |-> "conv",
     templateParameterAssigns_value |-> "conv"],
     Range |-> [leftBound |-> "index", rightBound |-> "index", self |-> "bounds"],
     Real |-> IsType,
     RealValue |-> IsConstant,
     Record |-> IsType,
     RecordValue |-> Copied,
     RecordValueAlt |-> Copied]

StdReferenceToStringValue ==
    [Reference |-> IsType,
     Return |-> [value |-> "conv"],
     Signal |-> [value |-> "default"],
     Signed |-> IsType,
     Slice |-> [self |-> "slice"],
     State |-> Copied,
     String |-> IsType,
     StateTable |-> [sensitivity |-> "uncast", sensitivityPos |-> "uncast", sensitivityNeg |-> "uncast",
     declarations |-> "sort"],
     SwitchAlt |-> Copied,
     Switch |-> [condition |-> "alternatives", alts_conditions |-> "alternatives"],
     System |-> [declarations |-> "sort"],
     StringValue |-> IsConstant]

StdTimeToVariable ==
    [Time |-> IsType,
     TimeValue |-> IsConstant,
     TypeDef |-> Copied,
     TypeReference |-> [self |-> "declaration", templateParameterAssigns |-> "parameters",
     templateParameterAssigns_value |-> "conv"],
     TypeTPAssign |-> IsSymbol,
     TypeTP |-> Copied,
     Unsigned |-> IsType,
     ValueStatement |-> Copied,
     ValueTPAssign |-> IsSymbol,
     ValueTP |-> [value |-> "initial"],
     Variable |-> [value |-> "default"]]

StdViewToWithAlt ==
    [View |-> [declarations |-> "sort"],
     ViewReference |-> [self |-> "declaration", templateParameterAssigns |-> "parameters",
     templateParameterAssigns_value |-> "conv"],
     Wait |-> [condition |-> "condition", repetitions |-> "index", sensitivity |-> "uncast"],
     When |-> [alts_value |-> "element", default |-> "element"],
     WhenAlt |-> [condition |-> "condition"],
     While |-> [condition |-> "condition"],
     With |-> [alts_value |-> "element", default |-> "element", condition |-> "alternatives",
     alts_conditions |-> "alternatives"],
     WithAlt |-> Copied]

Std ==
    StdAggregateToBool @@ StdBoolValueToExpression @@ StdFunctionCallToIfAlt @@
    StdIfGenerateToPointer @@ StdPortAssignToRecordValueAlt @@ StdReferenceToStringValue @@
    StdTimeToVariable @@ StdViewToWithAlt
\* What is done to the value in slot s of an object of class c.
Step(c, s) == IF s \in DOMAIN Std[c] THEN Std[c][s] ELSE "none"

-----------------------------------------------------------------------------
CONSTANTS Languages,    \* pairs of a source and a destination
          Leaves,       \* the types of identifiers
          Ops,          \* the operators
          MaxSize,      \* bound on the constructs around a value
          MaxWidth      \* bound on the width of a vector

VARIABLES source, destination,
          src, dst,     \* the types of the value so far
          size,         \* how many constructs it is made of
          last          \* the last construct and what it was computed with
vars == <<source, destination, src, dst, size, last>>
-----------------------------------------------------------------------------
\* The types inside a type are translated before it; a reference stays one.
RECURSIVE MapType(_, _)
MapType(l, t) ==
    LET inside == [i \in DOMAIN t.of |-> MapType(l, t.of[i])] IN
    IF t = NoType \/ \E i \in DOMAIN t.of : inside[i] = NoType THEN NoType
    ELSE IF t.class \in {"TypeReference", "ViewReference"} THEN [t EXCEPT !.of = inside]
    ELSE MapForType(l, [t EXCEPT !.of = inside])
-----------------------------------------------------------------------------
\* _handleLength: an operation that the destination computes in fewer bits gets wider
\* operands, in more bits a narrower result.
WithPrecision(t, like) == IF t = NoType THEN like ELSE SetSpan(t, SpanOf(like))
HandleLength(a, from, to, ret, op) ==
    LET longer(f) == [a EXCEPT ![f] = WithPrecision(@, from)] IN
    CASE "String" \in {from.class, to.class} \/ SpanOf(from) = 0 \/ SpanOf(to) = 0 \/ SpanOf(from) = SpanOf(to) -> a
      [] SpanOf(from) > SpanOf(to) ->
            IF Is(op, "shift") THEN longer("cast1")
            ELSE [longer("cast1") EXCEPT !.cast2 = WithPrecision(@, from)]
      [] OTHER -> [a EXCEPT !.result = WithPrecision(@, ret)]

\* _performSemanticsAlgorithm: what the operands of an operation on types that are d1
\* and d2 in the destination and its result have to be cast to there, no type where no
\* cast is needed; the source computes in prec and gives ret, the destination used.
NoAnalysis == [ok |-> FALSE, cast1 |-> NoType, cast2 |-> NoType, result |-> NoType]
WithResult(a, ret, used) == IF a.result = NoType /\ ~SameType(ret, used.ret) THEN [a EXCEPT !.result = ret] ELSE a
Finished(op, ret, prec, used, cast1, cast2) ==
    WithResult(HandleLength([ok |-> TRUE, cast1 |-> cast1, cast2 |-> cast2,
                             result |-> IF EqualTypes(ret, used.ret, {"spans"}) THEN NoType ELSE ret],
                            prec, used.prec, ret, op), ret, used)
Unless(same, cast) == IF same THEN NoType ELSE cast
\* The operands as they are.
DirectAnalysis(op, d1, d2, ret, prec, used) ==
    LET same(a, b) == EqualTypes(a, b, {"constexpr"})
        cast(d) == Unless(same(prec, used.prec) \/ same(d, prec), prec)
    IN  IF used.prec = NoType THEN NoAnalysis ELSE Finished(op, ret, prec, used, cast(d1), cast(d2))
\* The operands cast to c1 and c2.
CastAnalysis(op, d1, d2, ret, prec, used, c1, c2) ==
    Finished(op, ret, prec, used, Unless(SameType(d1, c1), c1), Unless(SameType(d2, c2), c2))
OperandCast(op, d2, prec) ==
    CASE Is(op, "relational") \/ Is(op, "arithmetic") \/ Is(op, "bitwise") \/ op = "concat" -> prec
      [] Is(op, "logical") -> MapType(destination, BoolType)
      [] Is(op, "shift") -> MapForType(destination, [IntType(SpanOf(d2), IsSigned(d2)) EXCEPT !.constexpr = IsConstexpr(d2)])
      [] OTHER -> NoType
\* The casts the destination suggests for operands cast to t.
SuggestedAnalysis(op, d1, d2, ret, prec, c) ==
    IF c[1] = NoType \/ c[2] = NoType THEN NoAnalysis
    ELSE LET used == Typing(destination, op, c[1], c[2]) IN
         IF IsTyped(used) THEN CastAnalysis(op, d1, d2, ret, prec, used, c[1], c[2]) ELSE NoAnalysis
CastingAnalysis(op, d1, d2, ret, prec, t, used, first) ==
    IF IsTyped(used) THEN CastAnalysis(op, d1, d2, ret, prec, used, first, t)
    ELSE SuggestedAnalysis(op, d1, d2, ret, prec, [i \in {1, 2} |-> SuggestedType(destination, t, op, <<d1, d2>>[i], i = 1)])
IndirectAnalysis(op, d1, d2, ret, prec, t, first) ==
    IF Is(op, "shift") /\ SpanOf(d2) = 0 THEN [NoAnalysis EXCEPT !.ok = TRUE]
    ELSE IF t = NoType THEN NoAnalysis
    ELSE CastingAnalysis(op, d1, d2, ret, prec, t, Typing(destination, op, first, t), first)
CheckedAnalysis(op, d1, d2, ret, prec, direct) ==
    CASE ret = NoType \/ prec = NoType -> NoAnalysis
      [] IsTyped(direct) -> DirectAnalysis(op, d1, d2, ret, prec, direct)
      [] direct.prec # NoType -> NoAnalysis
      [] OTHER -> LET t == OperandCast(op, d2, prec) IN
                  IndirectAnalysis(op, d1, d2, ret, prec, t, IF Is(op, "shift") THEN d1 ELSE t)
Analysis(op, before, d1, d2) ==
    IF ~IsTyped(before) \/ before.prec = NoType THEN NoAnalysis
    ELSE CheckedAnalysis(op, d1, d2, MapType(destination, before.ret), MapType(destination, before.prec),
                         Typing(destination, op, d1, d2))

\* _maintainSpan: an operand of a concatenation keeps its length; the element of an
\* array is an array of one.
MaintainSpan(t, cast) ==
    LET element == cast.class = "Array" /\ EqualTypes(Base(Elem(cast)), Base(t), {"constexpr"}) IN
    IF element THEN SetSpan(cast, 1) ELSE IF SpanOf(t) = 0 THEN cast ELSE SetSpan(cast, SpanOf(t))

\* _mapExpression: what an operation on d1 and d2 is computed with and its type, with
\* the casts that the analysis made.

\* Mutant: an operand is cast to its own length in every operation.
KeptSpan(op, t, cast) == IF t = NoType \/ cast = NoType THEN t ELSE MaintainSpan(t, cast)
Kept(op, t, cast) == IF t = NoType \/ cast = NoType THEN t ELSE IF op = "concat" THEN MaintainSpan(t, cast) ELSE cast

\* Mutant: the result is not cast.
MadeUncast(info, now) == [ok |-> info.ok /\ IsTyped(now), prec |-> now.prec, type |-> now.ret]
Made(info, now) ==
    [ok |-> info.ok /\ IsTyped(now), prec |-> now.prec, type |-> IF info.result = NoType THEN now.ret ELSE info.result]
WithCasts(op, d1, d2, info) ==
    Made(info, Typing(destination, op, Kept(op, d1, info.cast1), Kept(op, d2, info.cast2)))
Translated(op, before, d1, d2) == WithCasts(op, d1, d2, Analysis(op, before, d1, d2))
-----------------------------------------------------------------------------
\* What a construct needs of its parts in the source and has in the destination:
\* class and slot are where the value is, with is the other operand there and cast what
\* the value was before it was cast.
Value == [class |-> "", slot |-> "", with |-> NoType, cast |-> NoType, needs |-> NoType, uses |-> NoType]
IsValue == last.slot = ""
Identifier(t) == IsTypeAllowed(source, t) /\ MapType(destination, t) # NoType

Init ==
    /\ \E l \in Languages : source = l[1] /\ destination = l[2]
    /\ src \in {t \in Leaves : Identifier(t)}
    /\ dst = MapType(destination, src)
    /\ size = 0
    /\ last = Value

Becomes(from, to, construct) ==
    /\ from # NoType /\ to # NoType
    /\ SpanOf(from) <= MaxWidth
    /\ size' = size + 1
    /\ src' = from /\ dst' = to /\ last' = construct
    /\ UNCHANGED <<source, destination>>

\* visitExpression: the value so far is the left or the right operand, an identifier
\* the other, or it is the only one.
Expression(op, before, made) ==
    LET kept == Is(op, "arithmetic") \/ Is(op, "bitwise") \/ Is(op, "relational") IN
    /\ made.ok
    /\ Becomes(before.ret, made.type, IF kept THEN [Value EXCEPT !.needs = before.prec, !.uses = made.prec] ELSE Value)
OfOperands(op, t1, d1, t2, d2) ==
    LET before == Typing(source, op, t1, t2) IN Expression(op, before, Translated(op, before, d1, d2))
Operand(op, t, left) ==
    LET d == MapType(destination, t) IN
    /\ t = NoType => left
    /\ t # NoType => d # NoType
    /\ OfOperands(op, IF left THEN src ELSE t, IF left THEN dst ELSE d, IF left THEN t ELSE src, IF left THEN d ELSE dst)

\* visitCast
CastTo(t) == Identifier(t) /\ Becomes(t, MapType(destination, t), Value)

\* visitAggregate: the value for the others of what is assigned to.
ForOthers(t) ==
    LET from == OthersType(src, t)
        element == ElementType(MapType(destination, from))
    IN  /\ Identifier(t) /\ from # NoType /\ element # NoType
        /\ Becomes(from, OthersType(element, MapType(destination, t)), Value)
\* visitMember; visitSlice, with the length of the slice, _mapValue of what is not the
\* prefix of another.
MemberOf == Becomes(MemberType(source, src), MemberType(destination, dst), Value)
SliceOf(width) ==
    /\ SlicedAccepted(src)
    /\ SliceType(dst, width) # NoType
    /\ Becomes(SliceType(src, width), MapType(destination, SliceType(src, width)), Value)
-----------------------------------------------------------------------------
\* _mapIndex: a bound is an integer as long as the value, as the destination has it.
IndexType(t) ==
    LET number == MapForType(destination, [IntType(SpanOf(t), IsSigned(t)) EXCEPT !.constexpr = IsConstexpr(t)])
        allowed == TypeAllowedAsBound(destination, number)
    IN  IF SpanOf(t) = 0 THEN NoType ELSE IF allowed = NoType THEN number ELSE allowed
\* _mapCondition: a value that is no condition in the destination is cast to what a
\* Bool is there.

\* Mutant: asks the source what a condition is.
ConditionTypeOfSource(t) ==
    IF CheckCondition(source, t) THEN t ELSE MapType(destination, [BoolType EXCEPT !.constexpr = IsConstexpr(t)])
ConditionType(t) ==
    IF CheckCondition(destination, t) THEN t ELSE MapType(destination, [BoolType EXCEPT !.constexpr = IsConstexpr(t)])
\* _mapInitialValue, _mapReturn, _mapReferencedAssign: a value that cannot be given to
\* the target gets its type; _mapAssign: or the type the language suggests for it, when
\* the target is not native.
GivenType(step, target, t) ==
    CASE IsTyped(Typing(destination, IF step \in {"conv", "bind"} THEN step ELSE "assign", target, t)) -> t
      [] step # "assign" \/ target.variant = "NATIVE_TYPE" -> target
      [] OTHER -> SuggestedType(destination, target, "assign", t, FALSE)
Giving == {"initial", "default", "assign", "conv", "bind"}
Stepped(step, target, t) ==
    CASE step = "index" -> IndexType(t)
      [] step = "condition" -> ConditionType(t)
      [] step \in Giving -> GivenType(step, target, t)
      [] OTHER -> t

\* The slots of values; the assigns of a call are checked as objects of their own.
CheckedAs(c, s) ==
    CASE s = "parameterAssigns_value" -> <<"ParameterAssign", "value">>
      [] s = "templateParameterAssigns_value" -> <<"ValueTPAssign", "value">>
      [] s = "portAssigns_value" -> <<"PortAssign", "value">>
      [] OTHER -> <<c, s>>
DemandAt(c, s) == Demand(CheckedAs(c, s)[1], CheckedAs(c, s)[2])
ValueSteps == {"index", "condition"} \cup Giving
Slots ==
    {p \in UNION {{c} \X DOMAIN Std[c] : c \in DOMAIN Std} : Step(p[1], p[2]) \in ValueSteps}
    \cup {<<"Assign", "delay">>, <<"Wait", "time">>, <<"Slice", "prefix">>}
OtherOperands(c, s) == IF Step(c, s) \in Giving \/ DemandAt(c, s) \in Giving THEN Leaves ELSE {NoType}

Places(construct, to) ==
    /\ to # NoType
    /\ dst' = to
    /\ last' = [construct EXCEPT !.cast = IF to = dst THEN NoType ELSE dst]
    /\ UNCHANGED <<source, destination, src, size>>
\* The visit of an object of class c whose slot s holds the value.
Placed(c, s, t) ==
    LET target == MapType(destination, t) IN
    /\ t = NoType \/ Identifier(t)
    /\ Accepted(source, DemandAt(c, s), src, t)
    /\ Places([Value EXCEPT !.class = c, !.slot = s, !.with = target], Stepped(Step(c, s), target, dst))
\* visitRange with two bounds (_makeCompatibleBounds): they can be added.
Shared(a, b) == [a EXCEPT !.constexpr = @ /\ b.constexpr, !.signed = @ /\ b.signed, !.width = RangeMax(@, b.width)]
OfBounds(left, right, added) ==
    Places([Value EXCEPT !.class = "Range", !.slot = "bounds", !.with = IF added THEN right ELSE Shared(left, right)],
           IF added THEN left ELSE Shared(left, right))
Bounded(left, right) ==
    /\ left # NoType /\ right # NoType
    /\ OfBounds(left, right, IsTyped(Typing(destination, "plus", left, right)))
Bounds(t) ==
    /\ Identifier(t)
    /\ TypeAllowedAsBound(source, src) = NoType /\ TypeAllowedAsBound(source, t) = NoType
    /\ Bounded(IndexType(dst), IndexType(MapType(destination, t)))
\* Values that have to be of one type, the value so far and an identifier: common is
\* the type in the source, to and other theirs in the destination, both what comparing
\* them there gives.
\* visitWhen, visitWith (_dstPushCastToElements): the alternatives are cast to what
\* their common type is in the destination.
Alternative(common, both) == Becomes(common, both.prec, Value)
\* visitAggregate: so are the elements.
Element(common, to, both) ==
    Becomes(common, IF both.prec = NoType THEN NoType ELSE OfElementType(<<to, to>>, both.prec), Value)
\* visitSwitch, visitWith (_dstPushCastToConditions): the condition is cast to what the
\* type of the comparisons is in the destination, an alternative that cannot be
\* compared with it too.
Choice(to, other, both) ==
    Places([Value EXCEPT !.class = "Switch", !.slot = "condition", !.with = IF IsTyped(both) THEN other ELSE to], to)
Joins == [When |-> "eq", Aggregate |-> "eq", Switch |-> "case_eq"]
Together(join, common, to, other, both) ==
    \/ join = "When" /\ size < MaxSize /\ Alternative(common, both)
    \/ join = "Aggregate" /\ size < MaxSize /\ Element(common, to, both)
    \/ join = "Switch" /\ Choice(to, other, both)
Translating(join, common, to, other) ==
    /\ to # NoType
    /\ Together(join, common, to, other, Typing(destination, Joins[join], to, other))
OfJoin(join, t, common, to) == Translating(join, common, to, IF join = "Switch" THEN MapType(destination, t) ELSE to)
\* (Arrays are compared by VHDL even when their elements cannot be: not modelled.)
Common(join, t, compared) ==
    CASE compared = NoType \/ (compared.class = "Array" /\ compared.of = <<>>) -> NoType
      [] join = "Aggregate" -> OfElementType(<<src, t>>, compared)
      [] OTHER -> compared
Joining(join, t, common) ==
    /\ common # NoType
    /\ OfJoin(join, t, common, IF join = "Aggregate" THEN ElementType(MapType(destination, common)) ELSE MapType(destination, common))
Join(join, t) == Identifier(t) /\ Joining(join, t, Common(join, t, CommonType(source, Joins[join], <<t, src>>)))
\* A declaration without a value gets the default of its type, made by the source
\* (_assureInitialValue), and the value is translated (_mapInitialValue).
OfDefault(c, target, from, to) ==
    /\ to # NoType
    /\ src' = from /\ dst' = GivenType("initial", target, to)
    /\ last' = [Value EXCEPT !.class = c, !.slot = "default", !.with = target]
    /\ UNCHANGED <<source, destination, size>>
TranslatedDefault(c, t, from) == OfDefault(c, MapType(destination, t), from, MapType(destination, from))
ValuedDefault(c, t, value) == value # NoValue /\ TranslatedDefault(c, t, TypeOf(source, value, t))
Default(c, t) ==
    /\ size = 0
    /\ Identifier(t) /\ src = t
    /\ ValuedDefault(c, t, DefaultValue(source, t))
-----------------------------------------------------------------------------
\* manageCasts: a cast becomes the conversion the destination has for it, and a
\* condition that is still a cast, to what is no Bool there, is compared as the source
\* does it.
FixedConditions == {"IfAlt", "IfGenerate", "For", "ForGenerate", "WhenAlt"}
Managed ==
    LET value == AValue("Identifier", last.cast, "", <<>>)
        made == ExplicitCast(destination, value, dst)
        boolean == MapForType(destination, BoolType).class
        fixed == IF last.class \in FixedConditions /\ last.slot = "condition" /\ made.class = "Cast" /\ made.type.class # boolean
                 THEN BoolConversion(source, value, last.cast) ELSE made
    IN  /\ last.cast # NoType
        /\ fixed # NoValue
        /\ dst' = TypeOf(destination, fixed, NoType)
        /\ last' = [last EXCEPT !.cast = NoType]
        /\ UNCHANGED <<source, destination, src, size>>

Next ==
    \/ /\ IsValue /\ size < MaxSize
       /\ \/ \E op \in Ops, t \in Leaves \cup {NoType}, left \in BOOLEAN : Operand(op, t, left)
          \/ \E t \in Leaves : CastTo(t)
          \/ \E t \in Leaves : ForOthers(t)
          \/ MemberOf
          \/ \E width \in 1..MaxWidth : SliceOf(width)
    \/ /\ IsValue
       /\ \/ \E p \in Slots : \E t \in OtherOperands(p[1], p[2]) : Placed(p[1], p[2], t)
          \/ \E t \in Leaves : Bounds(t)
          \/ \E join \in DOMAIN Joins, t \in Leaves : Join(join, t)
          \/ \E c \in {"Field", "Port", "Signal", "Variable"}, t \in Leaves : Default(c, t)
    \/ Managed
Spec == Init /\ [][Next]_vars
-----------------------------------------------------------------------------
\* The type of a translated value is the translation of its type, up to the names that
\* types are given.
TypesFollow == IsValue => EqualTypes(Base(dst), Base(MapType(destination, src)), {"constexpr"})
\* What the source computes in a number of bits of four values, the destination
\* computes in no fewer bits of no fewer values.
PrecisionKept ==
    last.needs # NoType =>
        /\ SpanOf(last.uses) = 0 \/ SpanOf(last.uses) >= SpanOf(last.needs)
        /\ IsLogic(last.needs) => IsLogic(last.uses)
\* What checkHif asks of a translated value: its type is one the destination has, and
\* it fits where it is.
Accepting ==
    LET demand == CASE last.slot = "bounds" -> "plus" [] last.slot = "default" -> "initial" [] last.class = "Switch" -> "case"
                    [] OTHER -> DemandAt(last.class, last.slot)
    IN  IF IsValue THEN IsTypeAllowed(destination, dst) ELSE Accepted(destination, demand, dst, last.with)
IsBound == last.slot # "" /\ last.class # "Switch" /\ last.slot \notin {"bounds", "default"} /\ DemandAt(last.class, last.slot) = "bound"
\* isTypeAllowedAsBound of Verilog gives the register that a bound should be and does not
\* recognize it when it is one (VerilogSemantics.cpp:554).
IsRegisterAsked == EqualTypes(dst, TypeAllowedAsBound("Verilog", dst), {"constexpr", "signed"})
\* What was translated is accepted by the check of the destination, in one piece or after
\* its cast has become a conversion.  Verilog refuses every bound, so there the bound must
\* be the register that Verilog asks for; and it compares no Strings in a switch.
CheckAccepts ==
    \/ Accepting
    \/ destination = "Verilog" /\ IsBound /\ IsRegisterAsked
    \/ destination = "Verilog" /\ last.class = "Switch" /\ dst.class = "String"
=============================================================================
