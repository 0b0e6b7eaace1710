------------------------------ MODULE XmlReader ------------------------------
(*****************************************************************************)
(* The XML reader (src/src/XmlParser.cpp): one visit method per class that   *)
(* takes an element of a document apart, asserts on a missing attribute and  *)
(* stops with an error at an unexpected child. A row is one method, for      *)
(* files in the format of this version; the tags of older formats are left   *)
(* out.                                                                      *)
(*****************************************************************************)
EXTENDS HifClasses, SequencesExt

\* The classes that the tags of the children stand for where one of a family may be.
VisitDataDeclaration == "ALIAS" :> "Alias" @@ "CONSTANT" :> "Const" @@ "ENUMVAL" :> "EnumValue"
    @@ "PARAMETER" :> "Parameter" @@ "PORT" :> "Port" @@ "SIGNAL" :> "Signal" @@ "VALUETP" :> "ValueTP"
    @@ "VARIABLE" :> "Variable"
VisitDeclaration == VisitDataDeclaration @@ "CONTENTS" :> "Contents" @@ "FORGENERATE" :> "ForGenerate"
    @@ "IFGENERATE" :> "IfGenerate" @@ "DESIGNUNIT" :> "DesignUnit" @@ "LIBRARYDEF" :> "LibraryDef"
    @@ "FUNCTION" :> "Function" @@ "PROCEDURE" :> "Procedure" @@ "TYPEDEF" :> "TypeDef"
    @@ "TYPETP" :> "TypeTP" @@ "STATE" :> "State"
VisitGenerate == "FORGENERATE" :> "ForGenerate" @@ "IFGENERATE" :> "IfGenerate"
VisitAction == "ASSIGN" :> "Assign" @@ "IF" :> "If" @@ "EXIT" :> "Break" @@ "FOR" :> "For"
    @@ "NEXT" :> "Continue" @@ "nullptr" :> "Null" @@ "TRANSITION" :> "Transition"
    @@ "PCALL" :> "ProcedureCall" @@ "RETURN" :> "Return" @@ "SWITCH" :> "Switch"
    @@ "VALUESTATEMENT" :> "ValueStatement" @@ "WAIT" :> "Wait" @@ "WHILE" :> "While"
VisitTPAssign == "TYPETPASSIGN" :> "TypeTPAssign" @@ "VALUETPASSIGN" :> "ValueTPAssign"
VisitType == "ARRAY" :> "Array" @@ "RECORD" :> "Record" @@ "BIT" :> "Bit" @@ "BITVECTOR" :> "Bitvector"
    @@ "BOOLEAN" :> "Bool" @@ "CHAR" :> "Char" @@ "ENUM" :> "Enum" @@ "EVENT" :> "Event"
    @@ "INTEGER" :> "Int" @@ "LIBRARY" :> "Library" @@ "POINTER" :> "Pointer" @@ "REAL" :> "Real"
    @@ "REFERENCE" :> "Reference" @@ "SIGNED_TYPE" :> "Signed" @@ "STRING" :> "String" @@ "TIME" :> "Time"
    @@ "FILE" :> "File" @@ "TYPEREFERENCE" :> "TypeReference" @@ "UNSIGNED_TYPE" :> "Unsigned"
    @@ "VIEWREFERENCE" :> "ViewReference"
VisitReferencedType == "LIBRARY" :> "Library" @@ "TYPEREFERENCE" :> "TypeReference"
    @@ "VIEWREFERENCE" :> "ViewReference"
VisitValue == "FIELDREFERENCE" :> "FieldReference" @@ "MEMBER" :> "Member" @@ "IDENTIFIER" :> "Identifier"
    @@ "SLICE" :> "Slice" @@ "AGGREGATE" :> "Aggregate" @@ "CAST" :> "Cast" @@ "BITVAL" :> "BitValue"
    @@ "BITVECTORVAL" :> "BitvectorValue" @@ "BOOLVAL" :> "BoolValue" @@ "CHARVAL" :> "CharValue"
    @@ "INTVAL" :> "IntValue" @@ "REALVAL" :> "RealValue" @@ "STRINGVAL" :> "StringValue"
    @@ "EXPRESSION" :> "Expression" @@ "RANGE" :> "Range" @@ "FCALL" :> "FunctionCall" @@ "WHEN" :> "When"
    @@ "WITH" :> "With" @@ "INSTANCE" :> "Instance" @@ "RECORDVALUE" :> "RecordValue"
    @@ "TIMEVALUE" :> "TimeValue"
\* The element is itself the range.
AsRange == "" :> "Range"

\* What a visit method reads: attributes that have to be there and attributes that
\* need not, children below an element with a tag of their own, and children with
\* the tags of their classes.
Part(slot, accepts) == [slot |-> slot, accepts |-> accepts]
Reads(required, optional, parts, bare) ==
    [required |-> required, optional |-> optional, parts |-> parts, bare |-> bare, strict |-> TRUE]
\* _visitDataDeclImpl, which passes over every other child.
ReadsData(required, optional) ==
    [required |-> [name |-> "name"] @@ required, optional |-> optional,
     parts |-> "TYPE" :> Part("type", VisitType) @@ "VALUE" :> Part("value", VisitValue) @@
              "RANGE" :> Part("range", AsRange),
     bare |-> {}, strict |-> FALSE]

ReadContents == Reads(Nothing, [name |-> "name"], "LIBRARIES" :> Part("libraries", [LIBRARY |-> "Library"])
    @@ "DECLARATIONS" :> Part("declarations", VisitDeclaration) @@ "STATETABLES" :> Part("stateTables",
    [STATETABLE |-> "StateTable"]) @@ "GENERATES" :> Part("generates", VisitGenerate)
    @@ "INSTANCES" :> Part("instances", [INSTANCE |-> "Instance"]), {Part("globalAction",
    [GLOBALACTION |-> "GlobalAction"])})

\* Mutant: the name of a design unit is looked for under its old attribute.
ReadDesignUnitOld == Reads([name |-> "id"], Nothing, Nothing, {Part("views", "VIEW" :> "View")})

ReadDesignUnit == Reads([name |-> "name"], Nothing, Nothing, {Part("views", [VIEW |-> "View"])})

\* Mutant: a state read from a file is never atomic.
ReadStateNotAtomic == Reads([name |-> "name"], [priority |-> "priority"], "ACTIONS" :> Part("actions",
    VisitAction) @@ "INVARIANTS" :> Part("invariants", VisitValue), {})

ReadState == Reads([name |-> "name"], [atomic |-> "atomic", priority |-> "priority"],
    "ACTIONS" :> Part("actions", VisitAction) @@ "INVARIANTS" :> Part("invariants", VisitValue), {})

ReadAggregateToBit ==
    [Aggregate |-> Reads(Nothing, Nothing, "ALTS" :> Part("alts", [ALT |-> "AggregateAlt"]) @@ "OTHERS"
     :> Part("others", VisitValue), {}),
     AggregateAlt |-> Reads(Nothing, Nothing, "VALUE" :> Part("value", VisitValue) @@ "INDICES" :>
     Part("indices", VisitValue), {}),
     Alias |-> ReadsData(Nothing, [standard |-> "standard"]),
     Array |-> Reads([typeVariant |-> "typeVariant"], [signed |-> "signed"], "TYPE" :> Part("type",
     VisitType) @@ "RANGE" :> Part("span", AsRange), {}),
     Assign |-> Reads(Nothing, Nothing, "LEFTHANDSIDE" :> Part("leftHandSide", VisitValue) @@
     "RIGHTHANDSIDE" :> Part("rightHandSide", VisitValue) @@ "DELAY" :> Part("delay", VisitValue),
     {}),
     Bit |-> Reads([logic |-> "logic", resolved |-> "resolved", typeVariant |-> "typeVariant"],
     [constexpr |-> "constexpr"], Nothing, {})]

ReadBitValueToIf ==
    [BitValue |-> Reads([value |-> "value"], Nothing, "TYPE" :> Part("type", VisitType), {}),
     Bitvector |-> Reads([logic |-> "logic", signed |-> "signed", resolved |-> "resolved", typeVariant
     |-> "typeVariant"], [constexpr |-> "constexpr"], "RANGE" :> Part("span", AsRange), {}),
     BitvectorValue |-> Reads([value |-> "VALUE"], Nothing, "TYPE" :> Part("type", VisitType), {}),
     Bool |-> Reads([typeVariant |-> "typeVariant"], [constexpr |-> "constexpr"], Nothing, {}),
     BoolValue |-> Reads(Nothing, [value |-> "value"], "TYPE" :> Part("type", VisitType), {}),
     If |-> Reads(Nothing, Nothing, "DEFAULTS" :> Part("defaults", VisitAction), {Part("alts", [ALT |->
     "IfAlt"])})]

ReadIfAltToConst ==
    [IfAlt |-> Reads(Nothing, Nothing, "CONDITION" :> Part("condition", VisitValue), {Part("actions",
     VisitAction)}),
     Cast |-> Reads(Nothing, Nothing, "VALUE" :> Part("value", VisitValue) @@ "TYPE" :> Part("type",
     VisitType), {}),
     Char |-> Reads([typeVariant |-> "typeVariant"], [constexpr |-> "constexpr"], Nothing, {}),
     CharValue |-> Reads([value |-> "value"], Nothing, "TYPE" :> Part("type", VisitType), {}),
     Const |-> ReadsData(Nothing, [instance |-> "instance", define |-> "define", standard |->
     "standard"])]

ReadEnumToField ==
    [Enum |-> Reads([typeVariant |-> "typeVariant"], Nothing, Nothing, {Part("values", [ENUMVAL |->
     "EnumValue"])}),
     EnumValue |-> ReadsData(Nothing, Nothing),
     Break |-> Reads([name |-> "name"], Nothing, Nothing, {}),
     Event |-> Reads([typeVariant |-> "typeVariant"], [constexpr |-> "constexpr"], Nothing, {}),
     Expression |-> Reads([operator |-> "operator"], Nothing, "VALUE1" :> Part("value1", VisitValue) @@
     "VALUE2" :> Part("value2", VisitValue), {}),
     FunctionCall |-> Reads([name |-> "name"], Nothing, "INSTANCE" :> Part("instance", VisitValue),
     {Part("templateParameterAssigns", VisitTPAssign), Part("parameterAssigns", [PARAMETERASSIGN |->
     "ParameterAssign"])}),
     Field |-> ReadsData(Nothing, [direction |-> "direction"])]

ReadFieldReferenceToFor ==
    [FieldReference |-> Reads([name |-> "fieldName"], Nothing, "PREFIX" :> Part("prefix", VisitValue),
     {}),
     File |-> Reads([typeVariant |-> "typeVariant"], Nothing, Nothing, {Part("type", VisitType)}),
     For |-> Reads([name |-> "label"], Nothing, "INITDECLARATIONS" :> Part("initDeclarations",
     VisitDataDeclaration) @@ "INITVALUES" :> Part("initValues", VisitAction) @@ "CONDITION" :>
     Part("condition", VisitValue) @@ "STEPACTIONS" :> Part("stepActions", VisitAction) @@ "ACTIONS"
     :> Part("forActions", VisitAction), {})]

ReadForGenerateToFunction ==
    [ForGenerate |-> Reads([name |-> "name"], Nothing, "CONDITION" :> Part("condition", VisitValue) @@
     "DECLARATIONS" :> Part("declarations", VisitDeclaration) @@ "STATETABLES" :>
     Part("stateTables", [STATETABLE |-> "StateTable"]) @@ "GENERATES" :> Part("generates",
     VisitGenerate) @@ "INSTANCES" :> Part("instances", [INSTANCE |-> "Instance"]) @@
     "INITDECLARATIONS" :> Part("initDeclarations", VisitDataDeclaration) @@ "INITVALUES" :>
     Part("initValues", VisitAction) @@ "STEPACTIONS" :> Part("stepActions", VisitAction),
     {Part("globalAction", [GLOBALACTION |-> "GlobalAction"])}),
     Function |-> Reads([name |-> "name", kind |-> "kind"], [standard |-> "standard"], "TYPE" :>
     Part("type", VisitType) @@ "TEMPLATE_PARAMETERS" :> Part("templateParameters",
     VisitDeclaration) @@ "PARAMETERS" :> Part("parameters", [PARAMETER |-> "Parameter"]),
     {Part("stateTable", [STATETABLE |-> "StateTable"])})]

ReadGlobalActionToInstance ==
    [GlobalAction |-> Reads(Nothing, Nothing, Nothing, {Part("actions", VisitAction)}),
     Entity |-> Reads([name |-> "name"], Nothing, Nothing, {Part("parameters", [PARAMETER |->
     "Parameter"]), Part("ports", [PORT |-> "Port"])}),
     IfGenerate |-> Reads([name |-> "name"], Nothing, "CONDITION" :> Part("condition", VisitValue) @@
     "DECLARATIONS" :> Part("declarations", VisitDeclaration) @@ "STATETABLES" :>
     Part("stateTables", [STATETABLE |-> "StateTable"]) @@ "GENERATES" :> Part("generates",
     VisitGenerate) @@ "INSTANCES" :> Part("instances", [INSTANCE |-> "Instance"]),
     {Part("globalAction", [GLOBALACTION |-> "GlobalAction"])}),
     Instance |-> Reads([name |-> "name"], Nothing, "VALUE" :> Part("value", VisitValue) @@ "PORTASSIGNS"
     :> Part("portAssigns", [PORTASSIGN |-> "PortAssign"]), {Part("referencedType",
     VisitReferencedType)})]

ReadIntToLibraryDef ==
    [Int |-> Reads([typeVariant |-> "typeVariant"], [signed |-> "signed", constexpr |-> "constexpr"],
     "SPAN" :> Part("span", AsRange), {}),
     IntValue |-> Reads(Nothing, [value |-> "value"], "TYPE" :> Part("type", VisitType), {}),
     Library |-> Reads([name |-> "name", typeVariant |-> "typeVariant"], [filename |-> "filename",
     standard |-> "standard", system |-> "system"], "INSTANCE" :> Part("instance", [LIBRARY |->
     "Library"]), {}),
     LibraryDef |-> Reads([name |-> "name", languageID |-> "languageId"], [standard |-> "standard",
     cLinkage |-> "clinkage"], Nothing, {Part("libraries", [LIBRARY |-> "Library"]),
     Part("declarations", VisitDeclaration)})]

ReadMemberToParameter ==
    [Member |-> Reads(Nothing, Nothing, "PREFIX" :> Part("prefix", VisitValue) @@ "INDEX" :>
     Part("index", VisitValue), {}),
     Identifier |-> Reads([name |-> "name"], Nothing, Nothing, {}),
     Continue |-> Reads([name |-> "name"], Nothing, Nothing, {}),
     Null |-> Reads(Nothing, Nothing, Nothing, {}),
     Transition |-> Reads([prevName |-> "source", name |-> "destination"], [enablingOr |-> "orMode",
     priority |-> "priority"], "ENABLING_LABEL" :> Part("enablingLabelList", VisitValue) @@
     "ENABLING" :> Part("enablingList", VisitValue) @@ "UPDATE_LABEL" :> Part("updateLabelList",
     VisitValue) @@ "UPDATE" :> Part("updateList", VisitAction), {}),
     Parameter |-> ReadsData([direction |-> "direction"], Nothing)]

ReadParameterAssignToPort ==
    [ParameterAssign |-> Reads([name |-> "name", direction |-> "direction"], Nothing, "VALUE" :>
     Part("value", VisitValue), {}),
     ProcedureCall |-> Reads([name |-> "name"], Nothing, "INSTANCE" :> Part("instance", VisitValue),
     {Part("templateParameterAssigns", VisitTPAssign), Part("parameterAssigns", [PARAMETERASSIGN |->
     "ParameterAssign"])}),
     Pointer |-> Reads([typeVariant |-> "typeVariant"], Nothing, Nothing, {Part("type", VisitType)}),
     PortAssign |-> Reads([name |-> "name", direction |-> "direction"], Nothing, "VALUE" :> Part("value",
     VisitValue) @@ "TYPE" :> Part("type", VisitType), {}),
     Port |-> ReadsData([direction |-> "direction"], [wrapper |-> "wrapper"])]

ReadProcedureToRecord ==
    [Procedure |-> Reads([name |-> "name", kind |-> "kind"], [standard |-> "standard"],
     "TEMPLATE_PARAMETERS" :> Part("templateParameters", VisitDeclaration) @@ "PARAMETERS" :>
     Part("parameters", [PARAMETER |-> "Parameter"]), {Part("stateTable", [STATETABLE |->
     "StateTable"])}),
     Range |-> Reads([direction |-> "direction"], Nothing, "LEFTBOUND" :> Part("leftBound", VisitValue)
     @@ "RIGHTBOUND" :> Part("rightBound", VisitValue) @@ "TYPE" :> Part("type", VisitType), {}),
     Real |-> Reads([typeVariant |-> "typeVariant"], [constexpr |-> "constexpr"], "SPAN" :> Part("span",
     AsRange), {}),
     RealValue |-> Reads(Nothing, [value |-> "value"], "TYPE" :> Part("type", VisitType), {}),
     Record |-> Reads([packed |-> "packed", union |-> "union", typeVariant |-> "typeVariant"], [constexpr
     |-> "constexpr"], Nothing, {Part("fields", [FIELD |-> "Field"])})]

ReadRecordValueToSigned ==
    [RecordValue |-> Reads(Nothing, Nothing, "ALTS" :> Part("alts", [RECORDVALUEALT |->
     "RecordValueAlt"]), {}),
     RecordValueAlt |-> Reads([name |-> "name"], Nothing, "VALUE" :> Part("value", VisitValue), {}),
     Reference |-> Reads([typeVariant |-> "typeVariant"], Nothing, Nothing, {Part("type", VisitType)}),
     Return |-> Reads(Nothing, Nothing, Nothing, {Part("value", VisitValue)}),
     Signal |-> ReadsData(Nothing, [standard |-> "standard", wrapper |-> "wrapper"]),
     Signed |-> Reads([typeVariant |-> "typeVariant"], [constexpr |-> "constexpr"], "RANGE" :>
     Part("span", AsRange), {})]

ReadSliceToStateTable ==
    [Slice |-> Reads(Nothing, Nothing, "RANGE" :> Part("span", AsRange) @@ "PREFIX" :> Part("prefix",
     VisitValue), {}),
     StateTable |-> Reads([name |-> "name", flavour |-> "flavour"], [dontInitialize |-> "dontinitialize",
     standard |-> "standard", entryState |-> "entryStateName"], "SENSITIVITY" :> Part("sensitivity",
     VisitValue) @@ "SENSITIVITY_POS" :> Part("sensitivityPos", VisitValue) @@ "SENSITIVITY_NEG" :>
     Part("sensitivityNeg", VisitValue) @@ "DECLARATIONS" :> Part("declarations", VisitDeclaration)
     @@ "STATES" :> Part("states", [STATE |-> "State"]) @@ "EDGES" :> Part("edges", [TRANSITION |->
     "Transition"]), {})]

ReadStringToSwitchAlt ==
    [String |-> Reads([typeVariant |-> "typeVariant"], [constexpr |-> "constexpr"], "SPAN_INFORMATION" :>
     Part("spanInformation", AsRange), {}),
     Switch |-> Reads(Nothing, [caseSemantics |-> "caseSemantics"], "CONDITION" :> Part("condition",
     VisitValue) @@ "DEFAULTS" :> Part("defaults", VisitAction), {Part("alts", [ALT |->
     "SwitchAlt"])}),
     SwitchAlt |-> Reads(Nothing, Nothing, "ACTIONS" :> Part("actions", VisitAction), {Part("conditions",
     VisitValue)})]

ReadSystemToTimeValue ==
    [System |-> Reads([name |-> "name", languageID |-> "languageId"], [version |-> "release"],
     "LIBRARYDEFS" :> Part("libraryDefs", "LIBRARYDEF" :> "LibraryDef") @@ "DESIGNUNITS" :>
     Part("designUnits", "DESIGNUNIT" :> "DesignUnit") @@ "DECLARATIONS" :> Part("declarations",
     VisitDeclaration) @@ "LIBRARIES" :> Part("libraries", "LIBRARY" :> "Library") @@ "ACTIONS" :>
     Part("actions", VisitAction), {}),
     StringValue |-> Reads([value |-> "value"], Nothing, "TYPE" :> Part("type", VisitType), {}),
     Time |-> Reads([typeVariant |-> "typeVariant"], [constexpr |-> "constexpr"], Nothing, {}),
     TimeValue |-> Reads([unit |-> "unit"], [value |-> "value"], "TYPE" :> Part("type", VisitType), {})]

ReadTypeDefToUnsigned ==
    [TypeDef |-> Reads([name |-> "name"], [opaque |-> "opaque", standard |-> "standard", external |->
     "external"], "TYPE" :> Part("type", VisitType) @@ "RANGE" :> Part("range", AsRange) @@
     "TEMPLATE_PARAMETERS" :> Part("templateParameters", VisitDeclaration), {}),
     TypeTP |-> Reads([name |-> "name"], Nothing, Nothing, {Part("type", VisitType)}),
     TypeReference |-> Reads([name |-> "name", typeVariant |-> "typeVariant"], Nothing, "RANGES" :>
     Part("ranges", [RANGE |-> "Range"]) @@ "TEMPLATE_PARAMETER_ASSIGNS" :>
     Part("templateParameterAssigns", VisitTPAssign) @@ "INSTANCE" :> Part("instance",
     [VIEWREFERENCE |-> "ViewReference", LIBRARY |-> "Library"]), {}),
     TypeTPAssign |-> Reads([name |-> "name"], Nothing, "TYPE" :> Part("type", VisitType), {}),
     Unsigned |-> Reads([typeVariant |-> "typeVariant"], [constexpr |-> "constexpr"], "RANGE" :>
     Part("span", AsRange), {})]

ReadValueStatementToView ==
    [ValueStatement |-> Reads(Nothing, Nothing, Nothing, {Part("value", VisitValue)}),
     ValueTP |-> ReadsData(Nothing, [compileTimeConstant |-> "compileTimeConstant"]),
     ValueTPAssign |-> Reads([name |-> "name"], Nothing, "VALUE" :> Part("value", VisitValue), {}),
     Variable |-> ReadsData(Nothing, [instance |-> "instance", standard |-> "standard"]),
     View |-> Reads([name |-> "name", languageID |-> "languageId"], [standard |-> "standard", filename
     |-> "filename"], "TEMPLATE_PARAMETERS" :> Part("templateParameters", VisitDeclaration) @@
     "LIBRARIES" :> Part("libraries", [LIBRARY |-> "Library"]) @@ "DECLARATIONS" :>
     Part("declarations", VisitDeclaration) @@ "INHERITANCES" :> Part("inheritances", [VIEWREFERENCE
     |-> "ViewReference"]), {Part("entity", [ENTITY |-> "Entity"]), Part("contents", [CONTENTS |->
     "Contents"])})]

ReadViewReferenceToWhenAlt ==
    [ViewReference |-> Reads([name |-> "name", designUnit |-> "unitName", typeVariant |-> "typeVariant"],
     Nothing, "INSTANCE" :> Part("instance", [VIEWREFERENCE |-> "ViewReference", LIBRARY |->
     "Library"]), {Part("templateParameterAssigns", VisitTPAssign)}),
     Wait |-> Reads(Nothing, Nothing, "SENSITIVITY" :> Part("sensitivity", VisitValue) @@
     "SENSITIVITY_POS" :> Part("sensitivityPos", VisitValue) @@ "SENSITIVITY_NEG" :>
     Part("sensitivityNeg", VisitValue) @@ "ACTIONS" :> Part("actions", VisitAction) @@ "CONDITION"
     :> Part("condition", VisitValue) @@ "REPETITIONS" :> Part("repetitions", VisitValue) @@ "TIME"
     :> Part("time", VisitValue), {}),
     When |-> Reads(Nothing, [logicTernary |-> "logicTernary"], "DEFAULT" :> Part("default", VisitValue),
     {Part("alts", [ALT |-> "WhenAlt"])}),
     WhenAlt |-> Reads(Nothing, Nothing, "CONDITION" :> Part("condition", VisitValue) @@ "VALUE" :>
     Part("value", VisitValue), {})]

ReadWhileToWithAlt ==
    [While |-> Reads([name |-> "name"], [doWhile |-> "doWhile"], "CONDITION" :> Part("condition",
     VisitValue) @@ "ACTIONS" :> Part("actions", VisitAction), {}),
     With |-> Reads(Nothing, [caseSemantics |-> "caseSemantics"], "DEFAULT" :> Part("default",
     VisitValue) @@ "CONDITION" :> Part("condition", VisitValue), {Part("alts", [ALT |->
     "WithAlt"])}),
     WithAlt |-> Reads(Nothing, Nothing, "VALUE" :> Part("value", VisitValue), {Part("conditions",
     VisitValue)})]

ReadRow ==
    ReadAggregateToBit @@ ReadBitValueToIf @@ ReadIfAltToConst @@ ReadEnumToField @@
    ReadFieldReferenceToFor @@ ReadForGenerateToFunction @@ ReadGlobalActionToInstance @@
    ReadIntToLibraryDef @@ ReadMemberToParameter @@ ReadParameterAssignToPort @@
    ReadProcedureToRecord @@ ReadRecordValueToSigned @@ ReadSliceToStateTable @@
    ReadStringToSwitchAlt @@ ReadSystemToTimeValue @@ ReadTypeDefToUnsigned @@
    ReadValueStatementToView @@ ReadViewReferenceToWhenAlt @@ ReadWhileToWithAlt @@ [Contents
    |-> ReadContents, DesignUnit |-> ReadDesignUnit, State |-> ReadState]

-----------------------------------------------------------------------------
\* Reading ends with an object, <<o>>, or with an error message or a null pointer.
Failed == <<>>

\* What _addCodeInfoPropertiesComments takes out of the children of an element.
DetailOf(c) ==
    "CODE_INFO" :> "codeInfo" @@ "PROPERTIES" :> "properties" @@ "COMMENTS" :> "comments"
    @@ (IF IsA(c, "Declaration") THEN "ADDITIONAL_KEYWORDS" :> "keywords" ELSE Nothing)

\* These visit the first child as the range whether there is one or not.
NeedsRange == [Real |-> "SPAN", Signed |-> "RANGE", Unsigned |-> "RANGE"]

\* The member an attribute sets; one that is missing counts as empty.
ReadAttr(c, a, row, e) ==
    LET names == row.required @@ row.optional IN
    IF a \notin DOMAIN names THEN 0
    ELSE LET text == IF names[a] \in DOMAIN e.attrs THEN e.attrs[names[a]] ELSE ""
         IN  IF <<c, a>> \in Numeric THEN text ELSE FromText(c, a, text)

\* The library that the semantics has for a name, given to the reader whole.
StandardLibrary(name) == [New("LibraryDef") EXCEPT !.attrs["name"] = name, !.attrs["standard"] = 1,
                                                   !.kids["declarations"] = <<New("Function")>>]

RECURSIVE Read(_, _)
Visit(accepts, e) == IF e.tag \in DOMAIN accepts THEN Read(accepts[e.tag], e) ELSE Failed

\* What a child of an element of class c gives: <<slot, result>> for each object.
FromPart(c, part, e) ==
    LET inner == IF part.slot \in ListsOf[c] THEN e.kids ELSE SubSeq(e.kids, 1, 1) IN
    IF part.accepts = AsRange THEN <<<<part.slot, Read("Range", e)>>>>
    ELSE IF part.slot \in FieldsOf[c] /\ e.kids = <<>> THEN <<<<part.slot, Failed>>>>
    ELSE [i \in DOMAIN inner |-> <<part.slot, Visit(part.accepts, inner[i])>>]
FromChild(c, row, e) ==
    LET bare == {part \in row.bare : e.tag \in DOMAIN part.accepts} IN
    IF e.tag \in DOMAIN row.parts THEN FromPart(c, row.parts[e.tag], e)
    ELSE IF bare # {} THEN LET part == CHOOSE part \in bare : TRUE IN <<<<part.slot, Visit(part.accepts, e)>>>>
    ELSE IF row.strict THEN <<<<"", Failed>>>> ELSE <<>>

Read(c, e) ==
    LET row == ReadRow[c]
        details == DetailOf(c)
        isDetail(k) == k.tag \in DOMAIN details
        isChild(k) == ~isDetail(k)
        children == SelectSeq(e.kids, isChild)
        read == FlattenSeq([i \in DOMAIN children |-> FromChild(c, row, children[i])])
        detail(a) == {k \in Range(SelectSeq(e.kids, isDetail)) : details[k.tag] = a}
        into(s) == FoldLeft(LAMBDA q, r : IF r[1] # s THEN q ELSE IF s \in ListsOf[c] THEN q \o r[2] ELSE r[2],
                            <<>>, read)
        attr(a) == IF detail(a) # {} THEN (CHOOSE k \in detail(a) : TRUE).attrs["of"] ELSE ReadAttr(c, a, row, e)
        o == [class |-> c, attrs |-> [a \in AttrsOf[c] |-> attr(a)], kids |-> [s \in SlotsOf[c] |-> into(s)]]
    IN  IF /\ \A a \in DOMAIN row.required : row.required[a] \in DOMAIN e.attrs
           /\ \A i \in DOMAIN read : read[i][2] # Failed
           /\ c \in DOMAIN NeedsRange => children # <<>>
        THEN IF c = "LibraryDef" /\ e.attrs["standard"] = "true" /\ children = <<>> /\ e.attrs["name"] \in StandardLibraries
             THEN <<StandardLibrary(o.attrs["name"])>> ELSE <<o>>
        ELSE Failed
==============================================================================
