------------------------------ MODULE XmlPrinter -----------------------------
(*****************************************************************************)
(* The XML writer (src/src/PrintXmlVisitor.cpp): one visit method per class, *)
(* each of which makes an element and gives it attributes and children. A    *)
(* row is one method; the operators below them are what the methods share    *)
(* and the methods that do something else.                                   *)
(*****************************************************************************)
EXTENDS HifClasses, SequencesExt

\* What a visit method writes: an element with this tag, an attribute for each
\* member, an element around the children of each slot that is not empty, and
\* the children of the other slots after them.
Element(tag, attrs, parts, bare) == [tag |-> tag, attrs |-> attrs, parts |-> parts, bare |-> bare]

PrintFor == Element("FOR", [label |-> "name"], "INITDECLARATIONS" :> "initDeclarations"
    @@ "INITVALUES" :> "initValues" @@ "CONDITION" :> "condition" @@ "STEPACTIONS" :> "stepActions"
    @@ "ACTIONS" :> "forActions", <<>>)

\* Mutant: the invariants of a state are not written.
PrintStateWithoutInvariants == Element("STATE", [name |-> "name", atomic |-> "atomic", priority |-> "priority"],
    "ACTIONS" :> "actions", <<>>)

PrintState == Element("STATE", [name |-> "name", atomic |-> "atomic", priority |-> "priority"],
    "ACTIONS" :> "actions" @@ "INVARIANTS" :> "invariants", <<>>)

PrintAggregateToAssign ==
    [Aggregate |-> Element("AGGREGATE", Nothing, "ALTS" :> "alts" @@ "OTHERS" :> "others", <<>>),
     AggregateAlt |-> Element("ALT", Nothing, "INDICES" :> "indices" @@ "VALUE" :> "value", <<>>),
     Alias |-> Element("ALIAS", [name |-> "name", standard |-> "standard"], "RANGE" :> "range" @@ "TYPE"
     :> "type" @@ "VALUE" :> "value", <<>>),
     Array |-> Element("ARRAY", [signed |-> "signed", typeVariant |-> "typeVariant"], "RANGE" :> "span"
     @@ "TYPE" :> "type", <<>>),
     Assign |-> Element("ASSIGN", Nothing, "LEFTHANDSIDE" :> "leftHandSide" @@ "RIGHTHANDSIDE" :>
     "rightHandSide" @@ "DELAY" :> "delay", <<>>)]

PrintSystemToBitValue ==
    [System |-> Element("SYSTEM", [release |-> "version", name |-> "name", languageId |-> "languageID"],
     "LIBRARYDEFS" :> "libraryDefs" @@ "DESIGNUNITS" :> "designUnits" @@ "DECLARATIONS" :>
     "declarations" @@ "LIBRARIES" :> "libraries" @@ "ACTIONS" :> "actions", <<>>),
     Bit |-> Element("BIT", [constexpr |-> "constexpr", logic |-> "logic", resolved |-> "resolved",
     typeVariant |-> "typeVariant"], Nothing, <<>>),
     BitValue |-> Element("BITVAL", [value |-> "value"], "TYPE" :> "type", <<>>)]

PrintBitvectorToIf ==
    [Bitvector |-> Element("BITVECTOR", [constexpr |-> "constexpr", logic |-> "logic", signed |->
     "signed", resolved |-> "resolved", typeVariant |-> "typeVariant"], "RANGE" :> "span", <<>>),
     BitvectorValue |-> Element("BITVECTORVAL", [VALUE |-> "value"], "TYPE" :> "type", <<>>),
     Bool |-> Element("BOOLEAN", [constexpr |-> "constexpr", typeVariant |-> "typeVariant"], Nothing,
     <<>>),
     BoolValue |-> Element("BOOLVAL", [value |-> "value"], "TYPE" :> "type", <<>>),
     IfAlt |-> Element("ALT", Nothing, "CONDITION" :> "condition", <<"actions">>),
     If |-> Element("IF", Nothing, "DEFAULTS" :> "defaults", <<"alts">>)]

PrintCastToConst ==
    [Cast |-> Element("CAST", Nothing, "VALUE" :> "value" @@ "TYPE" :> "type", <<>>),
     Char |-> Element("CHAR", [constexpr |-> "constexpr", typeVariant |-> "typeVariant"], Nothing, <<>>),
     CharValue |-> Element("CHARVAL", [value |-> "value"], "TYPE" :> "type", <<>>),
     Const |-> Element("CONSTANT", [name |-> "name", instance |-> "instance", define |-> "define",
     standard |-> "standard"], "RANGE" :> "range" @@ "TYPE" :> "type" @@ "VALUE" :> "value", <<>>)]

PrintContentsToBreak ==
    [Contents |-> Element("CONTENTS", [name |-> "name"], "LIBRARIES" :> "libraries" @@ "DECLARATIONS" :>
     "declarations" @@ "STATETABLES" :> "stateTables" @@ "GENERATES" :> "generates" @@ "INSTANCES"
     :> "instances", <<"globalAction">>),
     DesignUnit |-> Element("DESIGNUNIT", [name |-> "name"], Nothing, <<"views">>),
     Enum |-> Element("ENUM", [typeVariant |-> "typeVariant"], Nothing, <<"values">>),
     EnumValue |-> Element("ENUMVAL", [name |-> "name"], "RANGE" :> "range" @@ "TYPE" :> "type" @@
     "VALUE" :> "value", <<>>),
     Break |-> Element("EXIT", [name |-> "name"], Nothing, <<>>)]

PrintEventToFile ==
    [Event |-> Element("EVENT", [constexpr |-> "constexpr", typeVariant |-> "typeVariant"], Nothing,
     <<>>),
     Expression |-> Element("EXPRESSION", [operator |-> "operator"], "VALUE1" :> "value1" @@ "VALUE2" :>
     "value2", <<>>),
     FunctionCall |-> Element("FCALL", [name |-> "name"], "INSTANCE" :> "instance",
     <<"templateParameterAssigns", "parameterAssigns">>),
     Field |-> Element("FIELD", [name |-> "name", direction |-> "direction"], "RANGE" :> "range" @@
     "TYPE" :> "type" @@ "VALUE" :> "value", <<>>),
     FieldReference |-> Element("FIELDREFERENCE", [fieldName |-> "name"], "PREFIX" :> "prefix", <<>>),
     File |-> Element("FILE", [typeVariant |-> "typeVariant"], Nothing, <<"type">>)]

PrintForGenerateToFunction ==
    [ForGenerate |-> Element("FORGENERATE", [name |-> "name"], "DECLARATIONS" :> "declarations" @@
     "STATETABLES" :> "stateTables" @@ "GENERATES" :> "generates" @@ "INSTANCES" :> "instances" @@
     "INITDECLARATIONS" :> "initDeclarations" @@ "INITVALUES" :> "initValues" @@ "CONDITION" :>
     "condition" @@ "STEPACTIONS" :> "stepActions", <<"globalAction">>),
     Function |-> Element("FUNCTION", [name |-> "name", standard |-> "standard", kind |-> "kind"],
     "TEMPLATE_PARAMETERS" :> "templateParameters" @@ "PARAMETERS" :> "parameters" @@ "TYPE" :>
     "type", <<"stateTable">>)]

PrintGlobalActionToIntValue ==
    [GlobalAction |-> Element("GLOBALACTION", Nothing, Nothing, <<"actions">>),
     Entity |-> Element("ENTITY", [name |-> "name"], Nothing, <<"parameters", "ports">>),
     IfGenerate |-> Element("IFGENERATE", [name |-> "name"], "CONDITION" :> "condition" @@ "DECLARATIONS"
     :> "declarations" @@ "STATETABLES" :> "stateTables" @@ "GENERATES" :> "generates" @@
     "INSTANCES" :> "instances", <<"globalAction">>),
     Int |-> Element("INTEGER", [constexpr |-> "constexpr", signed |-> "signed", typeVariant |->
     "typeVariant"], "SPAN" :> "span", <<>>),
     IntValue |-> Element("INTVAL", [value |-> "value"], "TYPE" :> "type", <<>>)]

PrintInstanceToContinue ==
    [Instance |-> Element("INSTANCE", [name |-> "name"], "VALUE" :> "value" @@ "PORTASSIGNS" :>
     "portAssigns", <<"referencedType">>),
     LibraryDef |-> Element("LIBRARYDEF", [name |-> "name", standard |-> "standard", clinkage |->
     "cLinkage", languageId |-> "languageID"], Nothing, <<"libraries", "declarations">>),
     Library |-> Element("LIBRARY", [name |-> "name", filename |-> "filename", standard |-> "standard",
     system |-> "system", typeVariant |-> "typeVariant"], "INSTANCE" :> "instance", <<>>),
     Member |-> Element("MEMBER", Nothing, "PREFIX" :> "prefix" @@ "INDEX" :> "index", <<>>),
     Identifier |-> Element("IDENTIFIER", [name |-> "name"], Nothing, <<>>),
     Continue |-> Element("NEXT", [name |-> "name"], Nothing, <<>>)]

PrintNullToProcedureCall ==
    [Null |-> Element("nullptr", Nothing, Nothing, <<>>),
     Transition |-> Element("TRANSITION", [source |-> "prevName", destination |-> "name", orMode |->
     "enablingOr", priority |-> "priority"], "ENABLING_LABEL" :> "enablingLabelList" @@ "ENABLING"
     :> "enablingList" @@ "UPDATE_LABEL" :> "updateLabelList" @@ "UPDATE" :> "updateList", <<>>),
     ParameterAssign |-> Element("PARAMETERASSIGN", [name |-> "name", direction |-> "direction"], "VALUE"
     :> "value", <<>>),
     Parameter |-> Element("PARAMETER", [name |-> "name", direction |-> "direction"], "RANGE" :> "range"
     @@ "TYPE" :> "type" @@ "VALUE" :> "value", <<>>),
     ProcedureCall |-> Element("PCALL", [name |-> "name"], "INSTANCE" :> "instance",
     <<"templateParameterAssigns", "parameterAssigns">>)]

PrintPointerToProcedure ==
    [Pointer |-> Element("POINTER", [typeVariant |-> "typeVariant"], Nothing, <<"type">>),
     PortAssign |-> Element("PORTASSIGN", [name |-> "name", direction |-> "direction"], "TYPE" :> "type"
     @@ "VALUE" :> "value" @@ "PARTIAL_BIND" :> "partialBind", <<>>),
     Port |-> Element("PORT", [name |-> "name", direction |-> "direction", wrapper |-> "wrapper"],
     "RANGE" :> "range" @@ "VALUE" :> "value" @@ "TYPE" :> "type", <<>>),
     Procedure |-> Element("PROCEDURE", [name |-> "name", standard |-> "standard", kind |-> "kind"],
     "TEMPLATE_PARAMETERS" :> "templateParameters" @@ "PARAMETERS" :> "parameters",
     <<"stateTable">>)]

PrintRangeToRecordValue ==
    [Range |-> Element("RANGE", [direction |-> "direction"], "LEFTBOUND" :> "leftBound" @@ "RIGHTBOUND"
     :> "rightBound" @@ "TYPE" :> "type", <<>>),
     Real |-> Element("REAL", [constexpr |-> "constexpr", typeVariant |-> "typeVariant"], "SPAN" :>
     "span", <<>>),
     RealValue |-> Element("REALVAL", [value |-> "value"], "TYPE" :> "type", <<>>),
     Record |-> Element("RECORD", [constexpr |-> "constexpr", packed |-> "packed", union |-> "union",
     typeVariant |-> "typeVariant"], Nothing, <<"fields">>),
     RecordValue |-> Element("RECORDVALUE", Nothing, "ALTS" :> "alts", <<>>)]

PrintRecordValueAltToSlice ==
    [RecordValueAlt |-> Element("RECORDVALUEALT", [name |-> "name"], "VALUE" :> "value", <<>>),
     Reference |-> Element("REFERENCE", [typeVariant |-> "typeVariant"], Nothing, <<"type">>),
     Return |-> Element("RETURN", Nothing, Nothing, <<"value">>),
     Signal |-> Element("SIGNAL", [name |-> "name", standard |-> "standard", wrapper |-> "wrapper"],
     "RANGE" :> "range" @@ "TYPE" :> "type" @@ "VALUE" :> "value", <<>>),
     Signed |-> Element("SIGNED_TYPE", [constexpr |-> "constexpr", typeVariant |-> "typeVariant"],
     "RANGE" :> "span", <<>>),
     Slice |-> Element("SLICE", Nothing, "PREFIX" :> "prefix" @@ "RANGE" :> "span", <<>>)]

PrintStringToSwitchAlt ==
    [String |-> Element("STRING", [constexpr |-> "constexpr", typeVariant |-> "typeVariant"],
     "SPAN_INFORMATION" :> "spanInformation", <<>>),
     StateTable |-> Element("STATETABLE", [name |-> "name", standard |-> "standard", flavour |->
     "flavour", dontinitialize |-> "dontInitialize", entryStateName |-> "entryState"], "SENSITIVITY"
     :> "sensitivity" @@ "SENSITIVITY_POS" :> "sensitivityPos" @@ "SENSITIVITY_NEG" :>
     "sensitivityNeg" @@ "DECLARATIONS" :> "declarations" @@ "STATES" :> "states" @@ "EDGES" :>
     "edges", <<>>),
     SwitchAlt |-> Element("ALT", Nothing, "ACTIONS" :> "actions", <<"conditions">>)]

PrintSwitchToTypeDef ==
    [Switch |-> Element("SWITCH", [caseSemantics |-> "caseSemantics"], "CONDITION" :> "condition" @@
     "DEFAULTS" :> "defaults", <<"alts">>),
     StringValue |-> Element("STRINGVAL", [value |-> "value"], "TYPE" :> "type", <<>>),
     Time |-> Element("TIME", [constexpr |-> "constexpr", typeVariant |-> "typeVariant"], Nothing, <<>>),
     TimeValue |-> Element("TIMEVALUE", [value |-> "value", unit |-> "unit"], "TYPE" :> "type", <<>>),
     TypeDef |-> Element("TYPEDEF", [name |-> "name", standard |-> "standard", opaque |-> "opaque",
     external |-> "external"], "TEMPLATE_PARAMETERS" :> "templateParameters" @@ "TYPE" :> "type" @@
     "RANGE" :> "range", <<>>)]

PrintTypeReferenceToValueTPAssign ==
    [TypeReference |-> Element("TYPEREFERENCE", [name |-> "name", typeVariant |-> "typeVariant"],
     "INSTANCE" :> "instance" @@ "TEMPLATE_PARAMETER_ASSIGNS" :> "templateParameterAssigns" @@
     "RANGES" :> "ranges", <<>>),
     TypeTPAssign |-> Element("TYPETPASSIGN", [name |-> "name"], "TYPE" :> "type", <<>>),
     TypeTP |-> Element("TYPETP", [name |-> "name"], Nothing, <<"type">>),
     Unsigned |-> Element("UNSIGNED_TYPE", [constexpr |-> "constexpr", typeVariant |-> "typeVariant"],
     "RANGE" :> "span", <<>>),
     ValueStatement |-> Element("VALUESTATEMENT", Nothing, Nothing, <<"value">>),
     ValueTPAssign |-> Element("VALUETPASSIGN", [name |-> "name"], "VALUE" :> "value", <<>>)]

PrintValueTPToViewReference ==
    [ValueTP |-> Element("VALUETP", [name |-> "name", compileTimeConstant |-> "compileTimeConstant"],
     "RANGE" :> "range" @@ "TYPE" :> "type" @@ "VALUE" :> "value", <<>>),
     Variable |-> Element("VARIABLE", [name |-> "name", standard |-> "standard", instance |->
     "instance"], "RANGE" :> "range" @@ "TYPE" :> "type" @@ "VALUE" :> "value", <<>>),
     View |-> Element("VIEW", [name |-> "name", standard |-> "standard", filename |-> "filename",
     languageId |-> "languageID"], "TEMPLATE_PARAMETERS" :> "templateParameters" @@ "INHERITANCES"
     :> "inheritances" @@ "LIBRARIES" :> "libraries" @@ "DECLARATIONS" :> "declarations",
     <<"entity", "contents">>),
     ViewReference |-> Element("VIEWREFERENCE", [name |-> "name", unitName |-> "designUnit", typeVariant
     |-> "typeVariant"], "INSTANCE" :> "instance", <<"templateParameterAssigns">>)]

PrintWaitToWhile ==
    [Wait |-> Element("WAIT", Nothing, "TIME" :> "time" @@ "CONDITION" :> "condition" @@ "REPETITIONS" :>
     "repetitions" @@ "SENSITIVITY" :> "sensitivity" @@ "SENSITIVITY_POS" :> "sensitivityPos" @@
     "SENSITIVITY_NEG" :> "sensitivityNeg" @@ "ACTIONS" :> "actions", <<>>),
     When |-> Element("WHEN", [logicTernary |-> "logicTernary"], "DEFAULT" :> "default", <<"alts">>),
     WhenAlt |-> Element("ALT", Nothing, "CONDITION" :> "condition" @@ "VALUE" :> "value", <<>>),
     While |-> Element("WHILE", [name |-> "name", doWhile |-> "doWhile"], "CONDITION" :> "condition" @@
     "ACTIONS" :> "actions", <<>>)]

PrintWithToWithAlt ==
    [With |-> Element("WITH", [caseSemantics |-> "caseSemantics"], "CONDITION" :> "condition" @@
     "DEFAULT" :> "default", <<"alts">>),
     WithAlt |-> Element("ALT", Nothing, "VALUE" :> "value", <<"conditions">>)]

PrintRow ==
    PrintAggregateToAssign @@ PrintSystemToBitValue @@ PrintBitvectorToIf @@ PrintCastToConst @@
    PrintContentsToBreak @@ PrintEventToFile @@ PrintForGenerateToFunction @@
    PrintGlobalActionToIntValue @@ PrintInstanceToContinue @@ PrintNullToProcedureCall @@
    PrintPointerToProcedure @@ PrintRangeToRecordValue @@ PrintRecordValueAltToSlice @@
    PrintStringToSwitchAlt @@ PrintSwitchToTypeDef @@ PrintTypeReferenceToValueTPAssign @@
    PrintValueTPToViewReference @@ PrintWaitToWhile @@ PrintWithToWithAlt @@ [For |-> PrintFor,
    State |-> PrintState]

-----------------------------------------------------------------------------
\* An element of the text.
Node(tag, attrs, kids) == [tag |-> tag, attrs |-> attrs, kids |-> kids]

\* A range keeps no more than its bounds and its direction.
HasDetails(o) == o.class # "Range"

\* _addCodeLineInfoAndProperties: the keywords are those of declarations.
Details(o) ==
    LET tags == <<<<"CODE_INFO", "codeInfo">>, <<"PROPERTIES", "properties">>, <<"COMMENTS", "comments">>,
                  <<"ADDITIONAL_KEYWORDS", "keywords">>>>
        set(d) == d[2] \in DOMAIN o.attrs /\ o.attrs[d[2]] # 0
        present == SelectSeq(tags, set)
    IN  IF HasDetails(o) THEN [i \in DOMAIN present |-> Node(present[i][1], [of |-> o.attrs[present[i][2]]], <<>>)]
        ELSE <<>>

\* A value that is the name none() is left empty by four methods.
PrintedEmpty == {<<"Break", "name">>, <<"For", "name">>, <<"While", "name">>, <<"StateTable", "entryState">>}
\* The digits that operator<< gives a double: sixteen in visitRealValue, and the
\* six of a new stream in visitTimeValue.
Precision == [RealValue |-> 16, TimeValue |-> 6]

PrintedAttr(o, a) ==
    LET v == o.attrs[a] IN
    IF <<o.class, a>> \in Numeric
    THEN IF o.class \in DOMAIN Precision /\ v > Precision[o.class] THEN Precision[o.class] ELSE v
    ELSE LET text == ToText(o.class, a, v)
         IN  IF <<o.class, a>> \in PrintedEmpty /\ text = NameNone THEN "" ELSE text

\* An empty bitvector value has no attribute.
Prints(o, a) == ~(o.class = "BitvectorValue" /\ a = "value" /\ PrintedAttr(o, a) = "")

\* visitPortAssign writes the value where the type belongs.
PrintedSlot(o, s) ==
    IF o.class = "PortAssign" /\ s = "type" /\ o.kids["type"] # <<>> THEN o.kids["value"] ELSE o.kids[s]

\* A standard library that the semantics knows is written without its contents.
IsStandard(o) ==
    /\ o.class = "LibraryDef" /\ ToText("LibraryDef", "standard", o.attrs["standard"]) = "true"
    /\ ToText("LibraryDef", "name", o.attrs["name"]) \in StandardLibraries

\* A null pointer is visited: a port assignment with a type and no value.
RECURSIVE PrintFails(_)
PrintFails(o) ==
    \/ o.class = "PortAssign" /\ o.kids["type"] # <<>> /\ o.kids["value"] = <<>>
    \/ ~IsStandard(o) /\ \E s \in SlotsOf[o.class] : \E i \in DOMAIN o.kids[s] : PrintFails(o.kids[s][i])

\* What visiting o adds to the element on top of the stack: an element for o, but
\* a range that is in no list puts its parts into the element that is there.
Adds(attrs, kids) == [attrs |-> attrs, kids |-> kids]
RECURSIVE Added(_, _)
Merged(q, listed) ==
    FoldLeft(LAMBDA sum, o : LET x == Added(o, listed) IN Adds(x.attrs @@ sum.attrs, sum.kids \o x.kids),
             Adds(Nothing, <<>>), q)
PartsOf(o, row) ==
    LET full == SetToSeq({tag \in DOMAIN row.parts : o.kids[row.parts[tag]] # <<>>})
        Part(tag) == LET s == row.parts[tag]
                         x == Merged(PrintedSlot(o, s), s \in ListsOf[o.class])
                     IN  Node(tag, x.attrs, x.kids)
    IN  [i \in DOMAIN full |-> Part(full[i])]
BareOf(o, row) ==
    FoldLeft(LAMBDA sum, s : LET x == Merged(o.kids[s], s \in ListsOf[o.class])
                             IN  Adds(x.attrs @@ sum.attrs, sum.kids \o x.kids),
             Adds(Nothing, <<>>), IF IsStandard(o) THEN <<>> ELSE row.bare)
Added(o, listed) ==
    LET row == PrintRow[o.class]
        bare == BareOf(o, row)
        written == {x \in DOMAIN row.attrs : Prints(o, row.attrs[x])}
        attrs == bare.attrs @@ [x \in written |-> PrintedAttr(o, row.attrs[x])]
        kids == PartsOf(o, row) \o bare.kids \o Details(o)
    IN  IF o.class = "Range" /\ ~listed THEN Adds(attrs, kids)
        ELSE Adds(Nothing, <<Node(row.tag, attrs, kids)>>)

\* The text of o at a place of a list.
TextOf(o) == Added(o, TRUE).kids[1]
==============================================================================
