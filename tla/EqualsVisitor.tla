------------------------------ MODULE EqualsVisitor --------------------------
(*****************************************************************************)
(* hif::equals (src/src/hif_utils/equals.cpp): a visitor with one method per *)
(* class that compares the members it names with those of the other object,  *)
(* some of them only under an option. A row is the pairs of a member and its *)
(* condition. The signature mode of functions and type definitions, the      *)
(* component mode of views and the handling of constexpr, vector and         *)
(* external types are the branches that only options outside DefaultEquals   *)
(* and Assurances reach: a row gives what the method compares when those are *)
(* off.                                                                      *)
(*****************************************************************************)
EXTENDS HifClasses, TLC

\* Members compared whatever the options are, when one is on, when one is off.
Always(members)         == members \X {"always"}
When(option, members)   == members \X {option}
Unless(option, members) == members \X {"not " \o option}

EqObject          == When("assureSameProperties", {"properties"})
EqDeclaration     == When("assureSameAdditionalKeywords", {"keywords"}) \cup EqObject
EqDataDeclaration == When("checkDeclarationRangeConstraint", {"range"}) \cup EqDeclaration
EqSymbol          == When("assureSameSymbolDeclarations", {"declaration"}) \cup EqObject
EqVariant         == When("checkTypeVariantField", {"typeVariant"})
EqTypeFlags       == When("checkConstexprFlag", {"constexpr"}) \cup EqVariant

\* Mutant: a new flag of a class is not added to its comparison.
EqStateWithoutAtomic == Always({"name", "priority", "actions", "invariants"}) \cup EqDeclaration

EqState == Always({"name", "atomic", "priority", "actions", "invariants"}) \cup EqDeclaration

EqAggregateToBitValue ==
    [Aggregate |-> Always({"others", "alts"}) \cup EqObject,
     AggregateAlt |-> Always({"indices", "value"}) \cup EqObject,
     Alias |-> Always({"name", "standard", "type", "value"}) \cup EqDataDeclaration,
     Array |-> When("checkSpans", {"span"}) \cup When("checkSignedFlag", {"signed"}) \cup
     When("checkInnerTypeOfComposite", {"type"}) \cup EqVariant \cup EqObject,
     Assign |-> Always({"leftHandSide", "rightHandSide", "delay"}) \cup EqObject,
     System |-> Always({"name", "languageID", "libraryDefs", "designUnits", "declarations", "libraries",
     "actions"}) \cup EqObject,
     Bit |-> When("checkResolvedFlag", {"resolved"}) \cup When("checkLogicFlag", {"logic"}) \cup
     EqTypeFlags \cup EqObject,
     BitValue |-> Always({"value", "type"}) \cup EqObject]

EqBitvectorToCharValue ==
    [Bitvector |-> When("checkSpans", {"span"}) \cup When("checkSignedFlag", {"signed"}) \cup
     When("checkLogicFlag", {"logic"}) \cup When("checkResolvedFlag", {"resolved"}) \cup EqTypeFlags
     \cup EqObject,
     BitvectorValue |-> Always({"value", "type"}) \cup EqObject,
     Bool |-> EqTypeFlags \cup EqObject,
     BoolValue |-> Always({"value", "type"}) \cup EqObject,
     If |-> Always({"alts", "defaults"}) \cup EqObject,
     IfAlt |-> Always({"condition", "actions"}) \cup EqObject,
     Cast |-> Always({"value", "type"}) \cup EqObject,
     Char |-> EqTypeFlags \cup EqObject,
     CharValue |-> Always({"value", "type"}) \cup EqObject]

EqConstToExpression ==
    [Const |-> Always({"name", "instance", "define", "standard", "type", "value"}) \cup EqDataDeclaration,
     Contents |-> Always({"declarations", "stateTables", "globalAction", "generates", "instances"}) \cup
     EqDeclaration,
     DesignUnit |-> Always({"name", "views"}) \cup EqDeclaration,
     Enum |-> Always({"values"}) \cup EqVariant \cup EqObject,
     EnumValue |-> Always({"name", "type", "value"}) \cup EqDataDeclaration,
     Event |-> EqTypeFlags \cup EqObject,
     Break |-> Always({"name"}) \cup EqObject,
     Expression |-> Always({"operator", "value1", "value2"}) \cup EqObject]

EqFunctionCallToFunction ==
    [FunctionCall |-> Always({"name", "templateParameterAssigns", "parameterAssigns", "instance"}) \cup
     EqSymbol,
     Field |-> Always({"name", "direction", "type"}) \cup When("checkFieldsInitialvalue", {"value"}) \cup
     EqDataDeclaration,
     FieldReference |-> Always({"name", "prefix"}) \cup EqSymbol,
     File |-> When("checkInnerTypeOfComposite", {"type"}) \cup EqVariant \cup EqObject,
     For |-> Always({"name", "initDeclarations", "initValues", "condition", "stepActions", "forActions"})
     \cup EqObject,
     ForGenerate |-> Always({"name", "declarations", "stateTables", "globalAction", "generates",
     "instances", "initDeclarations", "initValues", "condition", "stepActions"}) \cup EqDeclaration,
     Function |-> Always({"name", "kind", "standard", "templateParameters", "type", "parameters"}) \cup
     Unless("skipDeclarationBodies", {"stateTable"}) \cup EqDeclaration]

EqGlobalActionToLibrary ==
    [GlobalAction |-> Always({"actions"}),
     IfGenerate |-> Always({"name", "condition", "declarations", "stateTables", "globalAction",
     "generates", "instances"}) \cup EqDeclaration,
     Entity |-> Always({"name", "parameters", "ports"}) \cup EqDeclaration,
     Instance |-> Always({"name", "referencedType", "value", "portAssigns"}) \cup EqSymbol,
     Int |-> When("checkSpans", {"span"}) \cup When("checkSignedFlag", {"signed"}) \cup EqTypeFlags \cup
     EqObject,
     IntValue |-> Always({"value", "type"}) \cup EqObject,
     Library |-> Always({"name", "filename", "standard", "system"}) \cup When("checkReferencedInstance",
     {"instance"}) \cup EqVariant \cup EqSymbol]

EqLibraryDefToProcedureCall ==
    [LibraryDef |-> Always({"name", "languageID", "standard", "cLinkage", "libraries", "declarations"})
     \cup EqDeclaration,
     Member |-> Always({"prefix", "index"}) \cup EqObject,
     Null |-> EqObject,
     Identifier |-> Always({"name"}) \cup EqSymbol,
     Continue |-> Always({"name"}) \cup EqObject,
     Transition |-> Always({"name", "priority", "enablingOr", "enablingLabelList", "enablingList",
     "updateLabelList", "updateList"}) \cup EqObject,
     Parameter |-> Always({"type", "direction", "value"}) \cup Unless("skipDeclarationBodies", {"name"})
     \cup EqDataDeclaration,
     ParameterAssign |-> Always({"name", "direction", "value"}) \cup EqSymbol,
     ProcedureCall |-> Always({"name", "templateParameterAssigns", "parameterAssigns", "instance"}) \cup
     EqSymbol]

EqPointerToRealValue ==
    [Pointer |-> When("checkInnerTypeOfComposite", {"type"}) \cup EqVariant \cup EqObject,
     Port |-> Always({"name", "type", "direction", "wrapper", "value"}) \cup EqDataDeclaration,
     PortAssign |-> Always({"name", "direction", "value", "type", "partialBind"}) \cup EqSymbol,
     Procedure |-> Always({"name", "kind", "standard", "templateParameters", "parameters"}) \cup
     Unless("skipDeclarationBodies", {"stateTable"}) \cup EqDeclaration,
     Range |-> Always({"leftBound", "rightBound", "type"}) \cup When("checkSpanDirection", {"direction"})
     \cup EqObject,
     Real |-> When("checkSpans", {"span"}) \cup EqTypeFlags \cup EqObject,
     RealValue |-> Always({"value", "type"}) \cup EqObject]

EqRecordToSlice ==
    [Record |-> Always({"packed", "union", "fields"}) \cup EqTypeFlags \cup EqObject,
     RecordValue |-> Always({"alts"}) \cup EqObject,
     RecordValueAlt |-> Always({"name", "value"}) \cup EqObject,
     Reference |-> Always({"type"}) \cup EqVariant \cup EqObject,
     Return |-> Always({"value"}) \cup EqObject,
     Signal |-> Always({"name", "standard", "wrapper", "type", "value"}) \cup EqDataDeclaration,
     Signed |-> When("checkSpans", {"span"}) \cup EqTypeFlags \cup EqObject,
     Slice |-> Always({"prefix"}) \cup When("checkSpans", {"span"}) \cup EqObject]

EqStateTableToTimeValue ==
    [StateTable |-> Always({"name", "flavour", "dontInitialize", "entryState", "standard",
     "declarations", "sensitivity", "sensitivityPos", "sensitivityNeg", "states", "edges"}) \cup
     EqDeclaration,
     Switch |-> Always({"caseSemantics", "condition", "alts", "defaults"}) \cup EqObject,
     String |-> When("checkStringSpan", {"spanInformation"}) \cup EqTypeFlags \cup EqObject,
     SwitchAlt |-> Always({"conditions", "actions"}) \cup EqObject,
     StringValue |-> Always({"value", "type"}) \cup EqObject,
     Time |-> EqTypeFlags \cup EqObject,
     TimeValue |-> Always({"unit", "value", "type"}) \cup EqObject]

EqTypeDefToValueTP ==
    [TypeDef |-> Always({"name", "templateParameters", "opaque", "standard", "external"}) \cup
     Unless("skipDeclarationBodies", {"type"}) \cup When("checkSpans", {"range"}) \cup EqDeclaration,
     TypeReference |-> Always({"name", "templateParameterAssigns"}) \cup When("checkSpans", {"ranges"})
     \cup When("checkReferencedInstance", {"instance"}) \cup EqVariant \cup EqSymbol,
     TypeTPAssign |-> Always({"name", "type"}) \cup EqSymbol,
     TypeTP |-> Always({"type"}) \cup Unless("skipDeclarationBodies", {"name"}) \cup EqDeclaration,
     Unsigned |-> When("checkSpans", {"span"}) \cup EqTypeFlags \cup EqObject,
     ValueStatement |-> Always({"value"}) \cup EqObject,
     ValueTPAssign |-> Always({"name", "value"}) \cup EqSymbol,
     ValueTP |-> Always({"compileTimeConstant", "type", "value"}) \cup Unless("skipDeclarationBodies",
     {"name"}) \cup EqDataDeclaration]

EqVariableToWhenAlt ==
    [Variable |-> Always({"name", "instance", "standard", "type", "value"}) \cup EqDataDeclaration,
     View |-> Always({"name", "standard", "languageID", "filename", "entity"}) \cup
     Unless("skipViewContents", {"templateParameters"}) \cup Unless("skipDeclarationBodies",
     {"libraries", "inheritances", "declarations", "contents"}) \cup EqDeclaration,
     ViewReference |-> Always({"name", "designUnit", "templateParameterAssigns"}) \cup
     When("checkReferencedInstance", {"instance"}) \cup EqVariant \cup EqSymbol,
     Wait |-> Always({"repetitions", "time", "condition", "sensitivity", "sensitivityPos",
     "sensitivityNeg", "actions"}) \cup EqObject,
     When |-> Always({"logicTernary", "alts", "default"}) \cup EqObject,
     WhenAlt |-> Always({"condition", "value"}) \cup EqObject]

EqWhileToWithAlt ==
    [While |-> Always({"name", "doWhile", "condition", "actions"}) \cup EqObject,
     With |-> Always({"caseSemantics", "condition", "alts", "default"}) \cup EqObject,
     WithAlt |-> Always({"conditions", "value"}) \cup EqObject]

EqualsRow ==
    EqAggregateToBitValue @@ EqBitvectorToCharValue @@ EqConstToExpression @@
    EqFunctionCallToFunction @@ EqGlobalActionToLibrary @@ EqLibraryDefToProcedureCall @@
    EqPointerToRealValue @@ EqRecordToSlice @@ EqStateTableToTimeValue @@ EqTypeDefToValueTP @@
    EqVariableToWhenAlt @@ EqWhileToWithAlt @@ [State |-> EqState]

-----------------------------------------------------------------------------
\* The EqualsOptions that are on by default, and the assurances that are not.
DefaultEquals == {"checkSpans", "checkInnerTypeOfComposite", "checkDeclarationRangeConstraint",
                  "checkFieldsInitialvalue", "checkReferencedInstance", "checkConstexprFlag", "checkLogicFlag",
                  "checkSignedFlag", "checkResolvedFlag", "checkTypeVariantField", "checkStringSpan",
                  "checkSpanDirection", "skipReferences"}
Assurances == {"assureSameSymbolDeclarations", "assureSameProperties", "assureSameAdditionalKeywords"}

Compared(c, on) ==
    {m[1] : m \in {m \in EqualsRow[c] :
        m[2] = "always" \/ m[2] \in on \/ \E option \in {"skipDeclarationBodies", "skipViewContents"} :
                                            m[2] = "not " \o option /\ option \notin on}}

\* Properties are compared name by name in the order of the map, and names that
\* differ (values 1 and 2 stand for maps with one entry of different names) end
\* the comparison with success.  Two declarations differ only when both are set.
\* The values of two times differ when they are equal.
SameAttr(c, a, v, w) ==
    \/ c = "TimeValue" /\ a = "value" /\ v # w
    \/ v = w /\ ~(c = "TimeValue" /\ a = "value")
    \/ a = "properties" /\ v # 0 /\ w # 0
    \/ a = "declaration" /\ 0 \in {v, w}

\* _equals(o1, o2): what a Reference refers to takes its place unless references
\* are skipped; then the classes and the compared members decide.
Referred(o, on) ==
    IF o.class = "Reference" /\ "skipReferences" \notin on THEN o.kids["type"][1] ELSE o

RECURSIVE Equals(_, _, _)
SameKids(c, s, p, q, on) ==
    \/ "skipChilden" \in on
    \/ s \in FieldsOf[c] /\ p = <<>> /\ "skipNullBranches" \in on
    \/ Len(p) = Len(q) /\ \A i \in DOMAIN p : Equals(p[i], q[i], on)
Equals(left, right, on) ==
    LET o1 == Referred(left, on)
        o2 == Referred(right, on)
        c  == o1.class
    IN  /\ c = o2.class
        /\ \A m \in Compared(c, on) :
              IF m \in AttrsOf[c] THEN SameAttr(c, m, o1.attrs[m], o2.attrs[m])
                                 ELSE SameKids(c, m, o1.kids[m], o2.kids[m], on)
==============================================================================
