------------------------------ MODULE HifClasses -----------------------------
(*****************************************************************************)
(* The classes of the HIF tree as their sources build them                   *)
(* (src/src/classes): the constructors, the setters with setChild for every  *)
(* field, and the fields and lists that _calculateFields lists of a class    *)
(* besides those of its base, under the names that _getFieldName and         *)
(* _getBListName give them. Every operation on objects of all classes        *)
(* (walking, copying, comparing, matching, saving) is a table over these     *)
(* classes in a module of its own.                                           *)
(*****************************************************************************)
EXTENDS HifMembers

\* What the constructor of a class initialises, and what its _calculateFields lists.
Builds(sets, listed) == [sets |-> sets, listed |-> listed]

ObjectBuilt == Builds({"comments", "codeInfo", "properties"}, <<>>)
ActionBuilt == Builds({}, <<>>)
AssignBuilt == Builds({}, <<"leftHandSide", "rightHandSide", "delay">>)
BreakBuilt == Builds({"name"}, <<>>)
ContinueBuilt == Builds({"name"}, <<>>)
ForBuilt == Builds({"name"}, <<"condition", "initDeclarations", "initValues", "stepActions", "forActions">>)
IfBuilt == Builds({}, <<"alts", "defaults">>)
NullBuilt == Builds({}, <<>>)
ProcedureCallBuilt == Builds({"name", "declaration"}, <<"instance", "templateParameterAssigns",
    "parameterAssigns">>)
ReturnBuilt == Builds({}, <<"value">>)
SwitchBuilt == Builds({"caseSemantics"}, <<"condition", "alts", "defaults">>)
TransitionBuilt == Builds({"name", "prevName", "priority", "enablingOr"}, <<"enablingLabelList",
    "enablingList", "updateLabelList", "updateList">>)
ValueStatementBuilt == Builds({}, <<"value">>)
WaitBuilt == Builds({}, <<"condition", "time", "repetitions", "sensitivity", "sensitivityPos",
    "sensitivityNeg", "actions">>)
WhileBuilt == Builds({"name", "doWhile"}, <<"condition", "actions">>)
AltBuilt == Builds({}, <<>>)
AggregateAltBuilt == Builds({}, <<"value", "indices">>)
IfAltBuilt == Builds({}, <<"condition", "actions">>)
RecordValueAltBuilt == Builds({"name"}, <<"value">>)
SwitchAltBuilt == Builds({}, <<"conditions", "actions">>)
WhenAltBuilt == Builds({}, <<"condition", "value">>)
WithAltBuilt == Builds({}, <<"value", "conditions">>)
DeclarationBuilt == Builds({"name", "keywords"}, <<>>)
DataDeclarationBuilt == Builds({}, <<"type", "value", "range">>)
AliasBuilt == Builds({"standard"}, <<>>)
ConstBuilt == Builds({"instance", "define", "standard"}, <<>>)
EnumValueBuilt == Builds({}, <<>>)
FieldBuilt == Builds({"direction"}, <<>>)
ParameterBuilt == Builds({"direction"}, <<>>)
PortBuilt == Builds({"direction", "wrapper"}, <<>>)
SignalBuilt == Builds({"standard", "wrapper"}, <<>>)
ValueTPBuilt == Builds({"compileTimeConstant"}, <<>>)
VariableBuilt == Builds({"instance", "standard"}, <<>>)
ScopeBuilt == Builds({}, <<>>)
BaseContentsBuilt == Builds({}, <<"globalAction", "declarations", "stateTables", "instances", "generates">>)
ContentsBuilt == Builds({}, <<"libraries">>)
GenerateBuilt == Builds({}, <<>>)
ForGenerateBuilt == Builds({}, <<"condition", "initDeclarations", "initValues", "stepActions">>)
IfGenerateBuilt == Builds({}, <<"condition">>)
DesignUnitBuilt == Builds({}, <<"views">>)
EntityBuilt == Builds({}, <<"parameters", "ports">>)
LibraryDefBuilt == Builds({"languageID", "standard", "cLinkage"}, <<"libraries", "declarations">>)
StateTableBuilt == Builds({"entryState", "flavour", "dontInitialize", "standard"}, <<"declarations",
    "sensitivity", "sensitivityPos", "sensitivityNeg", "states", "edges">>)
SubProgramBuilt == Builds({"kind", "standard"}, <<"stateTable", "parameters", "templateParameters">>)
FunctionBuilt == Builds({}, <<"type">>)
ProcedureBuilt == Builds({}, <<>>)
SystemBuilt == Builds({"version", "languageID"}, <<"libraryDefs", "designUnits", "declarations", "libraries",
    "actions">>)
TypeDeclarationBuilt == Builds({}, <<"type">>)
TypeDefBuilt == Builds({"opaque", "standard", "external"}, <<"range", "templateParameters">>)
TypeTPBuilt == Builds({}, <<>>)
ViewBuilt == Builds({"languageID", "standard", "filename"}, <<"entity", "contents", "libraries",
    "templateParameters", "declarations", "inheritances">>)
StateBuilt == Builds({"priority", "atomic"}, <<"actions", "invariants">>)
GlobalActionBuilt == Builds({}, <<"actions">>)
TypeBuilt == Builds({"typeVariant"}, <<>>)
CompositeTypeBuilt == Builds({"baseType", "baseOpaqueType"}, <<"type">>)
ArrayBuilt == Builds({"signed"}, <<"span">>)
FileBuilt == Builds({}, <<>>)
PointerBuilt == Builds({}, <<>>)
ReferenceBuilt == Builds({}, <<>>)
ReferencedTypeBuilt == Builds({"name"}, <<"instance">>)
LibraryBuilt == Builds({"filename", "standard", "system", "declaration"}, <<>>)
TypeReferenceBuilt == Builds({"declaration"}, <<"templateParameterAssigns", "ranges">>)
ViewReferenceBuilt == Builds({"designUnit", "declaration"}, <<"templateParameterAssigns">>)
ScopedTypeBuilt == Builds({"constexpr"}, <<>>)
EnumBuilt == Builds({}, <<"values">>)
RecordBuilt == Builds({"packed", "union", "baseType", "baseOpaqueType"}, <<"fields">>)
SimpleTypeBuilt == Builds({"constexpr"}, <<>>)
BitBuilt == Builds({"logic", "resolved"}, <<>>)
BitvectorBuilt == Builds({"logic", "resolved", "signed"}, <<"span">>)
BoolBuilt == Builds({}, <<>>)
CharBuilt == Builds({}, <<>>)
EventBuilt == Builds({}, <<>>)
IntBuilt == Builds({"signed"}, <<"span">>)
RealBuilt == Builds({}, <<"span">>)
SignedBuilt == Builds({}, <<"span">>)
StringBuilt == Builds({}, <<"spanInformation">>)
TimeBuilt == Builds({}, <<>>)
UnsignedBuilt == Builds({}, <<"span">>)
TypedObjectBuilt == Builds({"semanticType"}, <<>>)
ReferencedAssignBuilt == Builds({"name"}, <<>>)
PPAssignBuilt == Builds({"direction"}, <<"value">>)
ParameterAssignBuilt == Builds({"declaration"}, <<>>)
PortAssignBuilt == Builds({"declaration"}, <<"type", "partialBind">>)
TPAssignBuilt == Builds({}, <<>>)
TypeTPAssignBuilt == Builds({"declaration"}, <<"type">>)
ValueTPAssignBuilt == Builds({"declaration"}, <<"value">>)
ValueBuilt == Builds({}, <<>>)
AggregateBuilt == Builds({}, <<"others", "alts">>)
CastBuilt == Builds({}, <<"type", "value">>)
ConstValueBuilt == Builds({}, <<"type">>)
BitValueBuilt == Builds({"value"}, <<>>)
BitvectorValueBuilt == Builds({"value"}, <<>>)
BoolValueBuilt == Builds({"value"}, <<>>)
CharValueBuilt == Builds({"value"}, <<>>)
IntValueBuilt == Builds({"value"}, <<>>)
RealValueBuilt == Builds({"value"}, <<>>)
StringValueBuilt == Builds({"value", "plain"}, <<>>)
TimeValueBuilt == Builds({"unit", "value"}, <<>>)
ExpressionBuilt == Builds({"operator"}, <<"value1", "value2">>)
FunctionCallBuilt == Builds({"name", "declaration"}, <<"instance", "templateParameterAssigns",
    "parameterAssigns">>)
IdentifierBuilt == Builds({"name", "declaration"}, <<>>)
InstanceBuilt == Builds({"name", "declaration"}, <<"referencedType", "value", "portAssigns">>)
PrefixedReferenceBuilt == Builds({}, <<"prefix">>)
FieldReferenceBuilt == Builds({"name", "declaration"}, <<>>)
MemberBuilt == Builds({}, <<"index">>)
SliceBuilt == Builds({}, <<"span">>)
RangeBuilt == Builds({"direction"}, <<"leftBound", "rightBound">>)
RecordValueBuilt == Builds({}, <<"alts">>)
WhenBuilt == Builds({"logicTernary"}, <<"default", "alts">>)
WithBuilt == Builds({"caseSemantics"}, <<"condition", "default", "alts">>)

Built == [Object |-> ObjectBuilt, Action |-> ActionBuilt, Assign |-> AssignBuilt, Break |-> BreakBuilt,
          Continue |-> ContinueBuilt, For |-> ForBuilt, If |-> IfBuilt, Null |-> NullBuilt,
          ProcedureCall |-> ProcedureCallBuilt, Return |-> ReturnBuilt, Switch |-> SwitchBuilt,
          Transition |-> TransitionBuilt, ValueStatement |-> ValueStatementBuilt, Wait |-> WaitBuilt,
          While |-> WhileBuilt, Alt |-> AltBuilt, AggregateAlt |-> AggregateAltBuilt, IfAlt |-> IfAltBuilt,
          RecordValueAlt |-> RecordValueAltBuilt, SwitchAlt |-> SwitchAltBuilt, WhenAlt |-> WhenAltBuilt,
          WithAlt |-> WithAltBuilt, Declaration |-> DeclarationBuilt, DataDeclaration |-> DataDeclarationBuilt,
          Alias |-> AliasBuilt, Const |-> ConstBuilt, EnumValue |-> EnumValueBuilt, Field |-> FieldBuilt,
          Parameter |-> ParameterBuilt, Port |-> PortBuilt, Signal |-> SignalBuilt, ValueTP |-> ValueTPBuilt,
          Variable |-> VariableBuilt, Scope |-> ScopeBuilt, BaseContents |-> BaseContentsBuilt,
          Contents |-> ContentsBuilt, Generate |-> GenerateBuilt, ForGenerate |-> ForGenerateBuilt,
          IfGenerate |-> IfGenerateBuilt, DesignUnit |-> DesignUnitBuilt, Entity |-> EntityBuilt,
          LibraryDef |-> LibraryDefBuilt, StateTable |-> StateTableBuilt, SubProgram |-> SubProgramBuilt,
          Function |-> FunctionBuilt, Procedure |-> ProcedureBuilt, System |-> SystemBuilt,
          TypeDeclaration |-> TypeDeclarationBuilt, TypeDef |-> TypeDefBuilt, TypeTP |-> TypeTPBuilt,
          View |-> ViewBuilt, State |-> StateBuilt, GlobalAction |-> GlobalActionBuilt, Type |-> TypeBuilt,
          CompositeType |-> CompositeTypeBuilt, Array |-> ArrayBuilt, File |-> FileBuilt,
          Pointer |-> PointerBuilt, Reference |-> ReferenceBuilt, ReferencedType |-> ReferencedTypeBuilt,
          Library |-> LibraryBuilt, TypeReference |-> TypeReferenceBuilt, ViewReference |-> ViewReferenceBuilt,
          ScopedType |-> ScopedTypeBuilt, Enum |-> EnumBuilt, Record |-> RecordBuilt,
          SimpleType |-> SimpleTypeBuilt, Bit |-> BitBuilt, Bitvector |-> BitvectorBuilt, Bool |-> BoolBuilt,
          Char |-> CharBuilt, Event |-> EventBuilt, Int |-> IntBuilt, Real |-> RealBuilt,
          Signed |-> SignedBuilt, String |-> StringBuilt, Time |-> TimeBuilt, Unsigned |-> UnsignedBuilt,
          TypedObject |-> TypedObjectBuilt, ReferencedAssign |-> ReferencedAssignBuilt,
          PPAssign |-> PPAssignBuilt, ParameterAssign |-> ParameterAssignBuilt, PortAssign |-> PortAssignBuilt,
          TPAssign |-> TPAssignBuilt, TypeTPAssign |-> TypeTPAssignBuilt, ValueTPAssign |-> ValueTPAssignBuilt,
          Value |-> ValueBuilt, Aggregate |-> AggregateBuilt, Cast |-> CastBuilt,
          ConstValue |-> ConstValueBuilt, BitValue |-> BitValueBuilt, BitvectorValue |-> BitvectorValueBuilt,
          BoolValue |-> BoolValueBuilt, CharValue |-> CharValueBuilt, IntValue |-> IntValueBuilt,
          RealValue |-> RealValueBuilt, StringValue |-> StringValueBuilt, TimeValue |-> TimeValueBuilt,
          Expression |-> ExpressionBuilt, FunctionCall |-> FunctionCallBuilt, Identifier |-> IdentifierBuilt,
          Instance |-> InstanceBuilt, PrefixedReference |-> PrefixedReferenceBuilt,
          FieldReference |-> FieldReferenceBuilt, Member |-> MemberBuilt, Slice |-> SliceBuilt,
          Range |-> RangeBuilt, RecordValue |-> RecordValueBuilt, When |-> WhenBuilt, With |-> WithBuilt]

\* What getFields and getBLists have of a c: each class adds to what its base lists.
ListedSlots(c) ==
    UNION {{Built[b].listed[i] : i \in DOMAIN Built[b].listed} : b \in Bases[c]}
Initialised(c) == UNION {Built[b].sets : b \in Bases[c]}

-----------------------------------------------------------------------------
\* An object: its class, a value for each attribute (0 is what the constructor
\* sets) and the objects in each of its slots (a field holds at most one).
New(c) == [class |-> c, attrs |-> [a \in Initialised(c) |-> 0], kids |-> [s \in SlotsOf[c] |-> <<>>]]

SetAttr(o, a, v) == [o EXCEPT !.attrs[a] = v]
SetKids(o, s, q) == [o EXCEPT !.kids[s] = q]

\* The class's child objects that can be in slot s of o.
Fits(o, s, child) == IsA(child.class, SlotClass(o.class, s))

\* An attribute that is a tree of its own (types computed from the object) or a
\* pointer into the tree, never a part of what the user wrote.
Cached == {"semanticType", "baseType", "baseOpaqueType", "declaration"}

\* What a table of exceptions has for a class.
Of(exceptions, c) == IF c \in DOMAIN exceptions THEN exceptions[c] ELSE {}

\* o without the members that `drops` names for its class, children included.
RECURSIVE Without(_, _)
Without(o, drops) ==
    [o EXCEPT !.attrs = [a \in DOMAIN @ |-> IF a \in drops[o.class] THEN 0 ELSE @[a]],
              !.kids = [s \in DOMAIN @ |-> IF s \in drops[o.class] THEN <<>>
                                           ELSE [i \in DOMAIN @[s] |-> Without(@[s][i], drops)]]]

\* o and p are the same but for the members that `ignored` names for their class.
Agree(o, p, ignored) == Without(o, ignored) = Without(p, ignored)
==============================================================================
