------------------------------ MODULE CopyVisitor ----------------------------
(*****************************************************************************)
(* hif::copy (src/src/hif_utils/copy.cpp): a visitor with one method per     *)
(* class that makes a new object and copies the members it names, then those *)
(* of the base classes and features. A row is what one method copies itself. *)
(*****************************************************************************)
EXTENDS HifClasses, TLC

CopyObject == {"properties", "comments", "codeInfo"}
CopyAction == CopyObject
CopyAlt == CopyObject
CopyNamedObject == {"name"}
CopyDeclaration == {"keywords"} \cup CopyNamedObject \cup CopyObject
CopyScope == CopyDeclaration
CopyBaseContents == {"declarations", "stateTables", "generates", "instances", "globalAction"} \cup CopyScope
CopyType == {"typeVariant"} \cup CopyObject
CopyCompositeType == {"baseType", "baseOpaqueType", "type"} \cup CopyType
CopyTypedObject == {"semanticType"} \cup CopyObject
CopyValue == CopyTypedObject
CopyConstValue == {"type"} \cup CopyValue
CopyDataDeclaration == {"type", "value", "range"} \cup CopyDeclaration
CopyGenerate == CopyBaseContents
CopyReferencedAssign == CopyNamedObject \cup CopyTypedObject
CopyPPAssign == {"value", "direction"} \cup CopyReferencedAssign
CopyPrefixedReference == {"prefix"} \cup CopyValue
CopyReferencedType == {"instance"} \cup CopyNamedObject \cup CopyType
CopyScopedType == {"constexpr"} \cup CopyType
CopySimpleType == {"constexpr"} \cup CopyType
CopySubProgram == {"parameters", "templateParameters", "stateTable", "standard", "kind"} \cup CopyScope
CopyTPAssign == CopyReferencedAssign
CopyTypeDeclaration == {"type"} \cup CopyScope
CopySymbol == {"declaration"}
CopyTypeSpan == {"span"}

\* Mutant: a new flag of a class is not added to its copy.
CopyVariableWithoutInstance == {"standard"} \cup CopyDataDeclaration

CopyVariable == {"instance", "standard"} \cup CopyDataDeclaration

CopyAggregateToIf ==
    [Aggregate |-> {"alts", "others"} \cup CopyValue,
     AggregateAlt |-> {"indices", "value"} \cup CopyAlt,
     Alias |-> {"standard"} \cup CopyDataDeclaration,
     Array |-> {"signed"} \cup CopyTypeSpan \cup CopyCompositeType,
     Assign |-> {"rightHandSide", "leftHandSide", "delay"} \cup CopyAction,
     System |-> {"libraryDefs", "designUnits", "declarations", "libraries", "actions", "languageID",
     "version"} \cup CopyScope,
     Bit |-> {"logic", "resolved"} \cup CopySimpleType,
     BitValue |-> {"value"} \cup CopyConstValue,
     Bitvector |-> {"signed", "logic", "resolved"} \cup CopyTypeSpan \cup CopySimpleType,
     BitvectorValue |-> {"value"} \cup CopyConstValue,
     Bool |-> CopySimpleType,
     BoolValue |-> {"value"} \cup CopyConstValue,
     If |-> {"alts", "defaults"} \cup CopyAction]

CopyIfAltToFile ==
    [IfAlt |-> {"actions", "condition"} \cup CopyAlt,
     Cast |-> {"type", "value"} \cup CopyValue,
     Char |-> CopySimpleType,
     CharValue |-> {"value"} \cup CopyConstValue,
     Const |-> {"instance", "define", "standard"} \cup CopyDataDeclaration,
     Contents |-> {"libraries"} \cup CopyBaseContents,
     DesignUnit |-> {"views"} \cup CopyScope,
     Enum |-> {"values"} \cup CopyScopedType,
     EnumValue |-> CopyDataDeclaration,
     Event |-> CopySimpleType,
     Expression |-> {"value1", "value2", "operator"} \cup CopyValue,
     Break |-> CopyNamedObject \cup CopyAction,
     Field |-> {"direction"} \cup CopyDataDeclaration,
     FieldReference |-> CopyNamedObject \cup CopySymbol \cup CopyPrefixedReference,
     File |-> CopyCompositeType]

CopyFunctionCallToLibraryDef ==
    [FunctionCall |-> {"templateParameterAssigns", "parameterAssigns", "instance"} \cup CopyNamedObject
     \cup CopySymbol \cup CopyValue,
     For |-> {"initDeclarations", "initValues", "stepActions", "forActions", "condition"} \cup
     CopyNamedObject \cup CopyAction,
     ForGenerate |-> {"initDeclarations", "initValues", "stepActions", "condition"} \cup CopyGenerate,
     Function |-> {"type"} \cup CopySubProgram,
     GlobalAction |-> {"actions"} \cup CopyObject,
     IfGenerate |-> {"condition"} \cup CopyGenerate,
     Entity |-> {"ports", "parameters"} \cup CopyScope,
     Instance |-> {"portAssigns", "referencedType", "value"} \cup CopySymbol \cup CopyNamedObject \cup
     CopyValue,
     Int |-> {"signed"} \cup CopyTypeSpan \cup CopySimpleType,
     IntValue |-> {"value"} \cup CopyConstValue,
     Library |-> {"filename", "standard", "system"} \cup CopySymbol \cup CopyReferencedType,
     LibraryDef |-> {"libraries", "declarations", "languageID", "standard", "cLinkage"} \cup CopyScope]

CopyMemberToReal ==
    [Member |-> {"index"} \cup CopyPrefixedReference,
     Identifier |-> CopyNamedObject \cup CopySymbol \cup CopyValue,
     Continue |-> CopyNamedObject \cup CopyAction,
     Null |-> CopyAction,
     Transition |-> {"enablingLabelList", "enablingList", "updateLabelList", "updateList", "name",
     "prevName", "priority", "enablingOr"} \cup CopyAction,
     Parameter |-> {"direction"} \cup CopyDataDeclaration,
     ParameterAssign |-> CopySymbol \cup CopyPPAssign,
     ProcedureCall |-> {"templateParameterAssigns", "parameterAssigns", "instance"} \cup CopySymbol \cup
     CopyNamedObject \cup CopyAction,
     Pointer |-> CopyCompositeType,
     Port |-> {"direction", "wrapper"} \cup CopyDataDeclaration,
     PortAssign |-> {"type", "partialBind"} \cup CopySymbol \cup CopyPPAssign,
     Procedure |-> CopySubProgram,
     Range |-> {"leftBound", "rightBound", "type", "direction"} \cup CopyValue,
     Real |-> CopyTypeSpan \cup CopySimpleType]

CopyRealValueToSwitch ==
    [RealValue |-> {"value"} \cup CopyConstValue,
     Record |-> {"baseType", "baseOpaqueType", "fields", "packed", "union"} \cup CopyScopedType,
     RecordValue |-> {"alts"} \cup CopyValue,
     RecordValueAlt |-> {"value"} \cup CopyNamedObject \cup CopyAlt,
     Reference |-> CopyCompositeType,
     Return |-> {"value"} \cup CopyAction,
     Signal |-> {"standard", "wrapper"} \cup CopyDataDeclaration,
     Signed |-> CopyTypeSpan \cup CopySimpleType,
     Slice |-> {"span"} \cup CopyPrefixedReference,
     StateTable |-> {"declarations", "sensitivity", "sensitivityPos", "sensitivityNeg", "states",
     "edges", "flavour", "dontInitialize", "standard", "entryState"} \cup CopyScope,
     State |-> {"actions", "invariants", "priority", "atomic"} \cup CopyDeclaration,
     String |-> {"spanInformation"} \cup CopySimpleType,
     Switch |-> {"alts", "defaults", "condition", "caseSemantics"} \cup CopyAction]

CopySwitchAltToValueTP ==
    [SwitchAlt |-> {"conditions", "actions"} \cup CopyAlt,
     StringValue |-> {"value"} \cup CopyConstValue,
     Time |-> CopySimpleType,
     TimeValue |-> {"value", "unit"} \cup CopyConstValue,
     TypeDef |-> {"templateParameters", "range", "opaque", "standard", "external"} \cup
     CopyTypeDeclaration,
     TypeReference |-> {"templateParameterAssigns", "ranges"} \cup CopySymbol \cup CopyReferencedType,
     TypeTPAssign |-> {"type"} \cup CopySymbol \cup CopyTPAssign,
     TypeTP |-> CopyTypeDeclaration,
     Unsigned |-> CopyTypeSpan \cup CopySimpleType,
     ValueStatement |-> {"value"} \cup CopyAction,
     ValueTPAssign |-> {"value"} \cup CopySymbol \cup CopyTPAssign,
     ValueTP |-> {"compileTimeConstant"} \cup CopyDataDeclaration]

CopyViewToWithAlt ==
    [View |-> {"libraries", "templateParameters", "declarations", "inheritances", "contents", "entity",
     "languageID", "standard", "filename"} \cup CopyScope,
     ViewReference |-> {"templateParameterAssigns", "designUnit"} \cup CopySymbol \cup CopyReferencedType,
     Wait |-> {"sensitivity", "sensitivityPos", "sensitivityNeg", "actions", "condition", "repetitions",
     "time"} \cup CopyAction,
     When |-> {"alts", "default", "logicTernary"} \cup CopyValue,
     WhenAlt |-> {"condition", "value"} \cup CopyAlt,
     While |-> {"actions", "condition", "doWhile"} \cup CopyNamedObject \cup CopyAction,
     With |-> {"alts", "condition", "default", "caseSemantics"} \cup CopyValue,
     WithAlt |-> {"conditions", "value"} \cup CopyAlt]

CopyRow ==
    CopyAggregateToIf @@ CopyIfAltToFile @@ CopyFunctionCallToLibraryDef @@ CopyMemberToReal @@
    CopyRealValueToSwitch @@ CopySwitchAltToValueTP @@ CopyViewToWithAlt @@ [Variable |->
    CopyVariable]

-----------------------------------------------------------------------------
\* The CopyOptions that are on by default.
DefaultCopy == {"copyDeclarations", "copyChildObjects", "copyProperties", "copyCodeInfos", "copyComments"}

\* The option that a member is copied under, when there is one.
CopyOption == [properties |-> "copyProperties", comments |-> "copyComments", codeInfo |-> "copyCodeInfos",
               declaration |-> "copyDeclarations", semanticType |-> "copySemanticsTypes",
               baseType |-> "copySemanticsTypes", baseOpaqueType |-> "copySemanticsTypes"]

CopiesAttr(c, a, on) == a \in CopyRow[c] /\ (a \in DOMAIN CopyOption => CopyOption[a] \in on)

\* Mutant: the children are copied whatever copyChildObjects says.
CopiesEverySlot(c, s, on) == s \in CopyRow[c]

CopiesSlot(c, s, on) == s \in CopyRow[c] /\ "copyChildObjects" \in on

\* copy(o, opt): a new object whose members are the copied ones; the others keep
\* what the constructor gave them.
RECURSIVE CopyOf(_, _)
CopyOf(o, on) ==
    [class |-> o.class,
     attrs |-> [a \in DOMAIN o.attrs |-> IF CopiesAttr(o.class, a, on) THEN o.attrs[a] ELSE 0],
     kids  |-> [s \in DOMAIN o.kids |->
                   IF CopiesSlot(o.class, s, on)
                   THEN [i \in DOMAIN o.kids[s] |-> CopyOf(o.kids[s][i], on)] ELSE <<>>]]
==============================================================================
