------------------------------ MODULE HifMembers -----------------------------
(*****************************************************************************)
(* The classes of the HIF tree as their headers declare them                 *)
(* (include/hif/classes): what each remembers and what it owns. An object    *)
(* owns the objects in its fields and lists.                                 *)
(*****************************************************************************)
EXTENDS Naturals, Sequences, FiniteSets

\* A class: the class it derives from, its attributes (plain members with a
\* getter and a setter), its fields and its lists with the class of what they hold.
Declares(parent, attrs, fields, lists) == [parent |-> parent, attrs |-> attrs, fields |-> fields, lists |-> lists]
Nothing == <<>>

ObjectClass == Declares("", {"comments", "codeInfo", "properties"}, Nothing, Nothing)
ActionClass == Declares("Object", {}, Nothing, Nothing)
AssignClass == Declares("Action", {}, [leftHandSide |-> "Value", rightHandSide |-> "Value", delay |-> "Value"],
    Nothing)
BreakClass == Declares("Action", {"name"}, Nothing, Nothing)
ContinueClass == Declares("Action", {"name"}, Nothing, Nothing)
ForClass == Declares("Action", {"name"}, [condition |-> "Value"], [initDeclarations |-> "DataDeclaration",
    initValues |-> "Action", stepActions |-> "Action", forActions |-> "Action"])
IfClass == Declares("Action", {}, Nothing, [alts |-> "IfAlt", defaults |-> "Action"])
NullClass == Declares("Action", {}, Nothing, Nothing)
ProcedureCallClass == Declares("Action", {"name", "declaration"}, [instance |-> "Value"],
    [templateParameterAssigns |-> "TPAssign", parameterAssigns |-> "ParameterAssign"])
ReturnClass == Declares("Action", {}, [value |-> "Value"], Nothing)
SwitchClass == Declares("Action", {"caseSemantics"}, [condition |-> "Value"], [alts |-> "SwitchAlt",
    defaults |-> "Action"])
TransitionClass == Declares("Action", {"name", "prevName", "priority", "enablingOr"}, Nothing,
    [enablingLabelList |-> "Value", enablingList |-> "Value", updateLabelList |-> "Value",
    updateList |-> "Action"])
ValueStatementClass == Declares("Action", {}, [value |-> "Value"], Nothing)
WaitClass == Declares("Action", {}, [condition |-> "Value", time |-> "Value", repetitions |-> "Value"],
    [sensitivity |-> "Value", sensitivityPos |-> "Value", sensitivityNeg |-> "Value", actions |-> "Action"])
WhileClass == Declares("Action", {"name", "doWhile"}, [condition |-> "Value"], [actions |-> "Action"])
AltClass == Declares("Object", {}, Nothing, Nothing)
AggregateAltClass == Declares("Alt", {}, [value |-> "Value"], [indices |-> "Value"])
IfAltClass == Declares("Alt", {}, [condition |-> "Value"], [actions |-> "Action"])
RecordValueAltClass == Declares("Alt", {"name"}, [value |-> "Value"], Nothing)
SwitchAltClass == Declares("Alt", {}, Nothing, [conditions |-> "Value", actions |-> "Action"])
WhenAltClass == Declares("Alt", {}, [condition |-> "Value", value |-> "Value"], Nothing)
WithAltClass == Declares("Alt", {}, [value |-> "Value"], [conditions |-> "Value"])
DeclarationClass == Declares("Object", {"name", "keywords"}, Nothing, Nothing)
DataDeclarationClass == Declares("Declaration", {}, [type |-> "Type", value |-> "Value", range |-> "Range"],
    Nothing)
AliasClass == Declares("DataDeclaration", {"standard"}, Nothing, Nothing)
ConstClass == Declares("DataDeclaration", {"instance", "define", "standard"}, Nothing, Nothing)
EnumValueClass == Declares("DataDeclaration", {}, Nothing, Nothing)
FieldClass == Declares("DataDeclaration", {"direction"}, Nothing, Nothing)
ParameterClass == Declares("DataDeclaration", {"direction"}, Nothing, Nothing)
PortClass == Declares("DataDeclaration", {"direction", "wrapper"}, Nothing, Nothing)
SignalClass == Declares("DataDeclaration", {"standard", "wrapper"}, Nothing, Nothing)
ValueTPClass == Declares("DataDeclaration", {"compileTimeConstant"}, Nothing, Nothing)
VariableClass == Declares("DataDeclaration", {"instance", "standard"}, Nothing, Nothing)
ScopeClass == Declares("Declaration", {}, Nothing, Nothing)
BaseContentsClass == Declares("Scope", {}, [globalAction |-> "GlobalAction"], [declarations |-> "Declaration",
    stateTables |-> "StateTable", instances |-> "Instance", generates |-> "Generate"])
ContentsClass == Declares("BaseContents", {}, Nothing, [libraries |-> "Library"])
GenerateClass == Declares("BaseContents", {}, Nothing, Nothing)
ForGenerateClass == Declares("Generate", {}, [condition |-> "Value"], [initDeclarations |-> "DataDeclaration",
    initValues |-> "Action", stepActions |-> "Action"])
IfGenerateClass == Declares("Generate", {}, [condition |-> "Value"], Nothing)
DesignUnitClass == Declares("Scope", {}, Nothing, [views |-> "View"])
EntityClass == Declares("Scope", {}, Nothing, [parameters |-> "Parameter", ports |-> "Port"])
LibraryDefClass == Declares("Scope", {"languageID", "standard", "cLinkage"}, Nothing, [libraries |-> "Library",
    declarations |-> "Declaration"])
StateTableClass == Declares("Scope", {"entryState", "flavour", "dontInitialize", "standard"}, Nothing,
    [declarations |-> "Declaration", sensitivity |-> "Value", sensitivityPos |-> "Value",
    sensitivityNeg |-> "Value", states |-> "State", edges |-> "Transition"])
SubProgramClass == Declares("Scope", {"kind", "standard"}, [stateTable |-> "StateTable"],
    [parameters |-> "Parameter", templateParameters |-> "Declaration"])
FunctionClass == Declares("SubProgram", {}, [type |-> "Type"], Nothing)
ProcedureClass == Declares("SubProgram", {}, Nothing, Nothing)
SystemClass == Declares("Scope", {"version", "languageID"}, Nothing, [libraryDefs |-> "LibraryDef",
    designUnits |-> "DesignUnit", declarations |-> "Declaration", libraries |-> "Library",
    actions |-> "Action"])
TypeDeclarationClass == Declares("Scope", {}, [type |-> "Type"], Nothing)
TypeDefClass == Declares("TypeDeclaration", {"opaque", "standard", "external"}, [range |-> "Range"],
    [templateParameters |-> "Declaration"])
TypeTPClass == Declares("TypeDeclaration", {}, Nothing, Nothing)
ViewClass == Declares("Scope", {"languageID", "standard", "filename"}, [entity |-> "Entity",
    contents |-> "Contents"], [libraries |-> "Library", templateParameters |-> "Declaration",
    declarations |-> "Declaration", inheritances |-> "ViewReference"])
StateClass == Declares("Declaration", {"priority", "atomic"}, Nothing, [actions |-> "Action",
    invariants |-> "Value"])
GlobalActionClass == Declares("Object", {}, Nothing, [actions |-> "Action"])
TypeClass == Declares("Object", {"typeVariant"}, Nothing, Nothing)
CompositeTypeClass == Declares("Type", {"baseType", "baseOpaqueType"}, [type |-> "Type"], Nothing)
ArrayClass == Declares("CompositeType", {"signed"}, [span |-> "Range"], Nothing)
FileClass == Declares("CompositeType", {}, Nothing, Nothing)
PointerClass == Declares("CompositeType", {}, Nothing, Nothing)
ReferenceClass == Declares("CompositeType", {}, Nothing, Nothing)
ReferencedTypeClass == Declares("Type", {"name"}, [instance |-> "ReferencedType"], Nothing)
LibraryClass == Declares("ReferencedType", {"filename", "standard", "system", "declaration"}, Nothing, Nothing)
TypeReferenceClass == Declares("ReferencedType", {"declaration"}, Nothing,
    [templateParameterAssigns |-> "TPAssign", ranges |-> "Range"])
ViewReferenceClass == Declares("ReferencedType", {"designUnit", "declaration"}, Nothing,
    [templateParameterAssigns |-> "TPAssign"])
ScopedTypeClass == Declares("Type", {"constexpr"}, Nothing, Nothing)
EnumClass == Declares("ScopedType", {}, Nothing, [values |-> "EnumValue"])
RecordClass == Declares("ScopedType", {"packed", "union", "baseType", "baseOpaqueType"}, Nothing,
    [fields |-> "Field"])
SimpleTypeClass == Declares("Type", {"constexpr"}, Nothing, Nothing)
BitClass == Declares("SimpleType", {"logic", "resolved"}, Nothing, Nothing)
BitvectorClass == Declares("SimpleType", {"logic", "resolved", "signed"}, [span |-> "Range"], Nothing)
BoolClass == Declares("SimpleType", {}, Nothing, Nothing)
CharClass == Declares("SimpleType", {}, Nothing, Nothing)
EventClass == Declares("SimpleType", {}, Nothing, Nothing)
IntClass == Declares("SimpleType", {"signed"}, [span |-> "Range"], Nothing)
RealClass == Declares("SimpleType", {}, [span |-> "Range"], Nothing)
SignedClass == Declares("SimpleType", {}, [span |-> "Range"], Nothing)
StringClass == Declares("SimpleType", {}, [spanInformation |-> "Range"], Nothing)
TimeClass == Declares("SimpleType", {}, Nothing, Nothing)
UnsignedClass == Declares("SimpleType", {}, [span |-> "Range"], Nothing)
TypedObjectClass == Declares("Object", {"semanticType"}, Nothing, Nothing)
ReferencedAssignClass == Declares("TypedObject", {"name"}, Nothing, Nothing)
PPAssignClass == Declares("ReferencedAssign", {"direction"}, [value |-> "Value"], Nothing)
ParameterAssignClass == Declares("PPAssign", {"declaration"}, Nothing, Nothing)
PortAssignClass == Declares("PPAssign", {"declaration"}, [type |-> "Type", partialBind |-> "Value"], Nothing)
TPAssignClass == Declares("ReferencedAssign", {}, Nothing, Nothing)
TypeTPAssignClass == Declares("TPAssign", {"declaration"}, [type |-> "Type"], Nothing)
ValueTPAssignClass == Declares("TPAssign", {"declaration"}, [value |-> "Value"], Nothing)
ValueClass == Declares("TypedObject", {}, Nothing, Nothing)
AggregateClass == Declares("Value", {}, [others |-> "Value"], [alts |-> "AggregateAlt"])
CastClass == Declares("Value", {}, [type |-> "Type", value |-> "Value"], Nothing)
ConstValueClass == Declares("Value", {}, [type |-> "Type"], Nothing)
BitValueClass == Declares("ConstValue", {"value"}, Nothing, Nothing)
BitvectorValueClass == Declares("ConstValue", {"value"}, Nothing, Nothing)
BoolValueClass == Declares("ConstValue", {"value"}, Nothing, Nothing)
CharValueClass == Declares("ConstValue", {"value"}, Nothing, Nothing)
IntValueClass == Declares("ConstValue", {"value"}, Nothing, Nothing)
RealValueClass == Declares("ConstValue", {"value"}, Nothing, Nothing)
StringValueClass == Declares("ConstValue", {"value", "plain"}, Nothing, Nothing)
TimeValueClass == Declares("ConstValue", {"unit", "value"}, Nothing, Nothing)
ExpressionClass == Declares("Value", {"operator"}, [value1 |-> "Value", value2 |-> "Value"], Nothing)
FunctionCallClass == Declares("Value", {"name", "declaration"}, [instance |-> "Value"],
    [templateParameterAssigns |-> "TPAssign", parameterAssigns |-> "ParameterAssign"])
IdentifierClass == Declares("Value", {"name", "declaration"}, Nothing, Nothing)
InstanceClass == Declares("Value", {"name", "declaration"}, [referencedType |-> "ReferencedType",
    value |-> "Value"], [portAssigns |-> "PortAssign"])
PrefixedReferenceClass == Declares("Value", {}, [prefix |-> "Value"], Nothing)
FieldReferenceClass == Declares("PrefixedReference", {"name", "declaration"}, Nothing, Nothing)
MemberClass == Declares("PrefixedReference", {}, [index |-> "Value"], Nothing)
SliceClass == Declares("PrefixedReference", {}, [span |-> "Range"], Nothing)
RangeClass == Declares("Value", {"direction"}, [leftBound |-> "Value", rightBound |-> "Value",
    type |-> "Type"], Nothing)
RecordValueClass == Declares("Value", {}, Nothing, [alts |-> "RecordValueAlt"])
WhenClass == Declares("Value", {"logicTernary"}, [default |-> "Value"], [alts |-> "WhenAlt"])
WithClass == Declares("Value", {"caseSemantics"}, [condition |-> "Value", default |-> "Value"],
    [alts |-> "WithAlt"])

Classes == [Object |-> ObjectClass, Action |-> ActionClass, Assign |-> AssignClass, Break |-> BreakClass,
            Continue |-> ContinueClass, For |-> ForClass, If |-> IfClass, Null |-> NullClass,
            ProcedureCall |-> ProcedureCallClass, Return |-> ReturnClass, Switch |-> SwitchClass,
            Transition |-> TransitionClass, ValueStatement |-> ValueStatementClass, Wait |-> WaitClass,
            While |-> WhileClass, Alt |-> AltClass, AggregateAlt |-> AggregateAltClass, IfAlt |-> IfAltClass,
            RecordValueAlt |-> RecordValueAltClass, SwitchAlt |-> SwitchAltClass, WhenAlt |-> WhenAltClass,
            WithAlt |-> WithAltClass, Declaration |-> DeclarationClass,
            DataDeclaration |-> DataDeclarationClass, Alias |-> AliasClass, Const |-> ConstClass,
            EnumValue |-> EnumValueClass, Field |-> FieldClass, Parameter |-> ParameterClass,
            Port |-> PortClass, Signal |-> SignalClass, ValueTP |-> ValueTPClass, Variable |-> VariableClass,
            Scope |-> ScopeClass, BaseContents |-> BaseContentsClass, Contents |-> ContentsClass,
            Generate |-> GenerateClass, ForGenerate |-> ForGenerateClass, IfGenerate |-> IfGenerateClass,
            DesignUnit |-> DesignUnitClass, Entity |-> EntityClass, LibraryDef |-> LibraryDefClass,
            StateTable |-> StateTableClass, SubProgram |-> SubProgramClass, Function |-> FunctionClass,
            Procedure |-> ProcedureClass, System |-> SystemClass, TypeDeclaration |-> TypeDeclarationClass,
            TypeDef |-> TypeDefClass, TypeTP |-> TypeTPClass, View |-> ViewClass, State |-> StateClass,
            GlobalAction |-> GlobalActionClass, Type |-> TypeClass, CompositeType |-> CompositeTypeClass,
            Array |-> ArrayClass, File |-> FileClass, Pointer |-> PointerClass, Reference |-> ReferenceClass,
            ReferencedType |-> ReferencedTypeClass, Library |-> LibraryClass,
            TypeReference |-> TypeReferenceClass, ViewReference |-> ViewReferenceClass,
            ScopedType |-> ScopedTypeClass, Enum |-> EnumClass, Record |-> RecordClass,
            SimpleType |-> SimpleTypeClass, Bit |-> BitClass, Bitvector |-> BitvectorClass, Bool |-> BoolClass,
            Char |-> CharClass, Event |-> EventClass, Int |-> IntClass, Real |-> RealClass,
            Signed |-> SignedClass, String |-> StringClass, Time |-> TimeClass, Unsigned |-> UnsignedClass,
            TypedObject |-> TypedObjectClass, ReferencedAssign |-> ReferencedAssignClass,
            PPAssign |-> PPAssignClass, ParameterAssign |-> ParameterAssignClass,
            PortAssign |-> PortAssignClass, TPAssign |-> TPAssignClass, TypeTPAssign |-> TypeTPAssignClass,
            ValueTPAssign |-> ValueTPAssignClass, Value |-> ValueClass, Aggregate |-> AggregateClass,
            Cast |-> CastClass, ConstValue |-> ConstValueClass, BitValue |-> BitValueClass,
            BitvectorValue |-> BitvectorValueClass, BoolValue |-> BoolValueClass, CharValue |-> CharValueClass,
            IntValue |-> IntValueClass, RealValue |-> RealValueClass, StringValue |-> StringValueClass,
            TimeValue |-> TimeValueClass, Expression |-> ExpressionClass, FunctionCall |-> FunctionCallClass,
            Identifier |-> IdentifierClass, Instance |-> InstanceClass,
            PrefixedReference |-> PrefixedReferenceClass, FieldReference |-> FieldReferenceClass,
            Member |-> MemberClass, Slice |-> SliceClass, Range |-> RangeClass,
            RecordValue |-> RecordValueClass, When |-> WhenClass, With |-> WithClass]

-----------------------------------------------------------------------------
\* The class and the classes it derives from.
Bases[c \in DOMAIN Classes] ==
    {c} \cup IF Classes[c].parent = "" THEN {} ELSE Bases[Classes[c].parent]

IsA(c, base) == base \in Bases[c]

\* The classes that HifVisitor has a visit method for: those of objects.
Abstract == {Classes[c].parent : c \in DOMAIN Classes} \cup {"Scope"}
Concrete == DOMAIN Classes \ Abstract

AttrsOf  == [c \in Concrete |-> UNION {Classes[b].attrs : b \in Bases[c]}]
FieldsOf == [c \in Concrete |-> UNION {DOMAIN Classes[b].fields : b \in Bases[c]}]
ListsOf  == [c \in Concrete |-> UNION {DOMAIN Classes[b].lists : b \in Bases[c]}]
SlotsOf  == [c \in Concrete |-> FieldsOf[c] \cup ListsOf[c]]

\* The class that what slot s of a c holds derives from.
SlotClass(c, s) ==
    LET b == CHOOSE b \in Bases[c] : s \in DOMAIN Classes[b].fields \cup DOMAIN Classes[b].lists
    IN  IF s \in DOMAIN Classes[b].fields THEN Classes[b].fields[s] ELSE Classes[b].lists[s]

-----------------------------------------------------------------------------
(*****************************************************************************)
(* The enumerations of the HIF classes and the texts they are written as:    *)
(* the pairs of functions in src/src/hifEnums.cpp and in the classes that    *)
(* have enumerations of their own.                                           *)
(*****************************************************************************)
\* The texts of the values of each enumeration, the constructors' default first,
\* as the function that prints them has them and as the one that reads them does.
rangeDirectionToString == <<"UPTO", "DOWNTO">>
rangeDirectionFromString == <<"UPTO", "DOWNTO">>
portDirectionToString == <<"NONE", "IN", "OUT", "INOUT">>
portDirectionFromString == <<"NONE", "IN", "OUT", "INOUT">>
bitConstantToString == <<"U", "X", "0", "1", "Z", "W", "L", "H", "-">>
bitConstantFromString == <<"U", "X", "0", "1", "Z", "W", "L", "H", "-">>
operatorToString == <<"NONE", "||", "|", "&&", "&", "^^", "^", "!", "~", "==", "!=", "===", "!==", "<=", ">=",
    "<", ">", "SLL", "SRL", "SLA", "SRA", "ROL", "ROR", "+", "-", "*", "/", "MOD", "REM", "POW", "ABS",
    "CONCAT", "@", "$", "ANDRD", "ORRD", "XORRD", ":=", "LOG", "<--", "-->", "REVERSE", "SIZE">>
operatorFromString == <<"NONE", "||", "|", "&&", "&", "^^", "^", "!", "~", "==", "!=", "===", "!==", "<=",
    ">=", "<", ">", "SLL", "SRL", "SLA", "SRA", "ROL", "ROR", "+", "-", "*", "/", "MOD", "REM", "POW", "ABS",
    "CONCAT", "@", "$", "ANDRD", "ORRD", "XORRD", ":=", "LOG", "<--", "-->", "REVERSE", "SIZE">>
processFlavourToString == <<"HDL", "METHOD", "THREAD", "INITIAL", "ANALOG">>
processFlavourFromString == <<"HDL", "METHOD", "THREAD", "INITIAL", "ANALOG">>
languageIDToString == <<"RTL", "TLM", "CPP", "C", "PSL", "AMS">>
languageIDFromString == <<"RTL", "TLM", "CPP", "C", "PSL", "AMS">>
caseSemanticsToString == <<"CASE_LITERAL", "CASE_X", "CASE_Z">>
caseSemanticsFromString == <<"CASE_LITERAL", "CASE_X", "CASE_Z">>
typeVariantToString == <<"NATIVE_TYPE", "VHDL_BITVECTOR_NUMERIC_STD", "SYSTEMC_INT_SC_INT",
    "SYSTEMC_INT_SC_BIGINT", "SYSTEMC_INT_BITFIELD", "SYSTEMC_BITVECTOR_PROXY", "SYSTEMC_BITVECTOR_BASE",
    "SYSTEMC_BIT_BITREF">>
typeVariantFromString == <<"NATIVE_TYPE", "VHDL_BITVECTOR_NUMERIC_STD", "SYSTEMC_INT_SC_INT",
    "SYSTEMC_INT_SC_BIGINT", "SYSTEMC_INT_BITFIELD", "SYSTEMC_BITVECTOR_PROXY", "SYSTEMC_BITVECTOR_BASE",
    "SYSTEMC_BIT_BITREF">>
kindToString == <<"INSTANCE", "VIRTUAL", "STATIC", "MACRO", "IMPLICIT_INSTANCE">>
kindFromString == <<"INSTANCE", "VIRTUAL", "STATIC", "MACRO", "IMPLICIT_INSTANCE">>
timeUnitToString == <<"NS", "FS", "PS", "US", "MS", "SEC", "MIN", "HR">>
timeUnitFromString == <<"NS", "FS", "PS", "US", "MS", "SEC", "MIN", "HR">>

-----------------------------------------------------------------------------
\* Flags, those that are set by default and the others.
flagText == <<"false", "true">>
setFlagText == <<"true", "false">>
SetByDefault == {<<"Int", "signed">>, <<"Const", "instance">>, <<"Variable", "instance">>,
                 <<"ValueTP", "compileTimeConstant">>}

\* A name of a character that has no sign, and one that has.
charText == <<"'NUL'", "'LF'", "c">>

\* The text of the name that stands for no name, which constructors give, and
\* strings that are empty to begin with.
NameNone == "(no name)"
nameText == <<NameNone, "label", "">>
stringText == <<"", "label">>

\* The standard libraries that the semantics has.
StandardLibraries == {"label"}

\* Numbers are written in the digits that the printer has for them.
Numeric == {<<"IntValue", "value">>, <<"RealValue", "value">>, <<"TimeValue", "value">>, <<"State", "priority">>,
            <<"Transition", "priority">>}

\* The texts that attribute a of a c is written as and read from.
Texts(c, a, enums) ==
    IF a = "direction" THEN IF c = "Range" THEN enums.range ELSE enums.port
    ELSE IF a = "value" THEN IF c \in DOMAIN enums.value THEN enums.value[c] ELSE stringText
    ELSE IF a \in DOMAIN enums THEN enums[a]
    ELSE IF a \in {"name", "prevName", "designUnit", "entryState"} THEN nameText
    ELSE IF a \in {"filename", "version"} THEN stringText
    ELSE IF <<c, a>> \in SetByDefault THEN setFlagText ELSE flagText

Written == [range |-> rangeDirectionToString, port |-> portDirectionToString, operator |-> operatorToString,
            flavour |-> processFlavourToString, languageID |-> languageIDToString,
            caseSemantics |-> caseSemanticsToString, typeVariant |-> typeVariantToString, kind |-> kindToString,
            unit |-> timeUnitToString,
            value |-> [BitValue |-> bitConstantToString, BoolValue |-> flagText, CharValue |-> charText]]
Understood == [range |-> rangeDirectionFromString, port |-> portDirectionFromString,
               operator |-> operatorFromString, flavour |-> processFlavourFromString,
               languageID |-> languageIDFromString, caseSemantics |-> caseSemanticsFromString,
               typeVariant |-> typeVariantFromString, kind |-> kindFromString, unit |-> timeUnitFromString,
               value |-> [BitValue |-> bitConstantFromString, BoolValue |-> flagText, CharValue |-> charText]]

\* How many values an attribute has.
Count(c, a) == Len(Texts(c, a, Written))

ToText(c, a, v) == Texts(c, a, Written)[v + 1]

\* A missing attribute has an empty text, which is a flag that is not set.
FromText(c, a, text) ==
    LET texts == Texts(c, a, Understood)
        at == {i \in DOMAIN texts : texts[i] = text}
    IN  IF text = "" /\ {texts[i] : i \in DOMAIN texts} = {"true", "false"}
        THEN (CHOOSE i \in DOMAIN texts : texts[i] = "false") - 1
        ELSE (CHOOSE i \in at : TRUE) - 1
=============================================================================
