------------------------------ MODULE GuideVisitor ---------------------------
(*****************************************************************************)
(* GuideVisitor (src/src/GuideVisitor.cpp): the walk every pass over a tree  *)
(* is built on. Each visit method calls BeforeVisit, visits the children it  *)
(* names, and calls AfterVisit; a row lists the slots of a class in that     *)
(* order.                                                                    *)
(*****************************************************************************)
EXTENDS HifClasses, SequencesExt

\* Mutant: the libraries of a view are not visited.
GuideViewWithoutLibraries == <<"templateParameters", "entity", "declarations", "inheritances", "contents">>

GuideView == <<"templateParameters", "libraries", "entity", "declarations", "inheritances", "contents">>

GuideAggregateToIfAlt ==
    [Aggregate |-> <<"alts", "others">>,
     AggregateAlt |-> <<"indices", "value">>,
     Alias |-> <<"range", "type", "value">>,
     Array |-> <<"span", "type">>,
     Assign |-> <<"leftHandSide", "rightHandSide", "delay">>,
     System |-> <<"libraryDefs", "designUnits", "declarations", "libraries", "actions">>,
     Bit |-> <<>>,
     BitValue |-> <<"type">>,
     Bitvector |-> <<"span">>,
     BitvectorValue |-> <<"type">>,
     Bool |-> <<>>,
     BoolValue |-> <<"type">>,
     IfAlt |-> <<"condition", "actions">>]

GuideIfToExpression ==
    [If |-> <<"alts", "defaults">>,
     Cast |-> <<"value", "type">>,
     Char |-> <<>>,
     CharValue |-> <<"type">>,
     Const |-> <<"range", "type", "value">>,
     Contents |-> <<"libraries", "declarations", "stateTables", "generates", "instances",
     "globalAction">>,
     DesignUnit |-> <<"views">>,
     Enum |-> <<"values">>,
     EnumValue |-> <<"range", "type", "value">>,
     Break |-> <<>>,
     Event |-> <<>>,
     Expression |-> <<"value1", "value2">>]

GuideFunctionCallToInt ==
    [FunctionCall |-> <<"instance", "templateParameterAssigns", "parameterAssigns">>,
     Field |-> <<"range", "type", "value">>,
     FieldReference |-> <<"prefix">>,
     File |-> <<"type">>,
     For |-> <<"initDeclarations", "initValues", "stepActions", "condition", "forActions">>,
     ForGenerate |-> <<"declarations", "stateTables", "generates", "instances", "globalAction",
     "initDeclarations", "initValues", "stepActions", "condition">>,
     Function |-> <<"templateParameters", "parameters", "type", "stateTable">>,
     GlobalAction |-> <<"actions">>,
     Entity |-> <<"parameters", "ports">>,
     IfGenerate |-> <<"condition", "declarations", "stateTables", "generates", "instances",
     "globalAction">>,
     Int |-> <<"span">>]

GuideIntValueToPointer ==
    [IntValue |-> <<"type">>,
     Instance |-> <<"referencedType", "portAssigns", "value">>,
     LibraryDef |-> <<"libraries", "declarations">>,
     Library |-> <<"instance">>,
     Member |-> <<"prefix", "index">>,
     Identifier |-> <<>>,
     Continue |-> <<>>,
     Null |-> <<>>,
     Transition |-> <<"enablingLabelList", "enablingList", "updateLabelList", "updateList">>,
     ParameterAssign |-> <<"value">>,
     Parameter |-> <<"range", "type", "value">>,
     ProcedureCall |-> <<"instance", "templateParameterAssigns", "parameterAssigns">>,
     Pointer |-> <<"type">>]

GuideReferenceToSignal ==
    [Reference |-> <<"type">>,
     PortAssign |-> <<"type", "value", "partialBind">>,
     Port |-> <<"range", "type", "value">>,
     Procedure |-> <<"templateParameters", "parameters", "stateTable">>,
     Range |-> <<"leftBound", "rightBound", "type">>,
     Real |-> <<"span">>,
     RealValue |-> <<"type">>,
     Record |-> <<"fields">>,
     RecordValue |-> <<"alts">>,
     RecordValueAlt |-> <<"value">>,
     Return |-> <<"value">>,
     Signal |-> <<"range", "type", "value">>]

GuideSignedToTypeReference ==
    [Signed |-> <<"span">>,
     Slice |-> <<"prefix", "span">>,
     State |-> <<"actions", "invariants">>,
     String |-> <<"spanInformation">>,
     StateTable |-> <<"declarations", "sensitivity", "sensitivityPos", "sensitivityNeg", "states",
     "edges">>,
     SwitchAlt |-> <<"conditions", "actions">>,
     Switch |-> <<"condition", "alts", "defaults">>,
     StringValue |-> <<"type">>,
     Time |-> <<>>,
     TimeValue |-> <<"type">>,
     TypeDef |-> <<"templateParameters", "range", "type">>,
     TypeReference |-> <<"templateParameterAssigns", "ranges", "instance">>]

GuideTypeTPAssignToWhen ==
    [TypeTPAssign |-> <<"type">>,
     TypeTP |-> <<"type">>,
     Unsigned |-> <<"span">>,
     ValueStatement |-> <<"value">>,
     ValueTPAssign |-> <<"value">>,
     ValueTP |-> <<"range", "type", "value">>,
     Variable |-> <<"range", "type", "value">>,
     ViewReference |-> <<"templateParameterAssigns", "instance">>,
     Wait |-> <<"sensitivity", "sensitivityPos", "sensitivityNeg", "actions", "time", "condition",
     "repetitions">>,
     When |-> <<"alts", "default">>]

GuideWhenAltToWithAlt ==
    [WhenAlt |-> <<"condition", "value">>,
     While |-> <<"condition", "actions">>,
     With |-> <<"condition", "alts", "default">>,
     WithAlt |-> <<"conditions", "value">>]

GuideRow ==
    GuideAggregateToIfAlt @@ GuideIfToExpression @@ GuideFunctionCallToInt @@
    GuideIntValueToPointer @@ GuideReferenceToSignal @@ GuideSignedToTypeReference @@
    GuideTypeTPAssignToWhen @@ GuideWhenAltToWithAlt @@ [View |-> GuideView]

-----------------------------------------------------------------------------
\* The children of o in the order the visitor takes them.
Children(o) == FlattenSeq([i \in DOMAIN GuideRow[o.class] |-> o.kids[GuideRow[o.class][i]]])

\* The objects of the tree of o in the order BeforeVisit gets them.
RECURSIVE Walk(_)
Walk(o) ==
    LET kids == Children(o) IN <<o>> \o FlattenSeq([i \in DOMAIN kids |-> Walk(kids[i])])

\* How many objects the tree of o has when the children are in these slots.
RECURSIVE TreeSize(_, _)
TreeSize(o, slots) ==
    LET InSlot(s) == FoldLeft(LAMBDA n, k : n + TreeSize(k, slots), 0, o.kids[s])
    IN  1 + FoldSet(LAMBDA s, n : n + InSlot(s), 0, slots[o.class])

-----------------------------------------------------------------------------
(*****************************************************************************)
(* hif::objectGetKey (src/src/hif_utils/objectGetKey.cpp): the text by which *)
(* the simplification caches and the instance maps tell subtrees apart. A    *)
(* row is what the visit method of a class writes, in order.                 *)
(*****************************************************************************)
\* What a method writes: the characters of a string attribute, a delimited value,
\* a child with a placeholder when there is none, a delimited list, or what
\* GuideVisitor's method of the class visits.
Text(a)  == [kind |-> "text", of |-> a]
Flag(a)  == [kind |-> "flag", of |-> a]
Child(s) == [kind |-> "child", of |-> s]
List(s)  == [kind |-> "list", of |-> s]
Guided   == [kind |-> "guided", of |-> ""]

\* Mutant: a new flag of a class is not added to its key.
KeyPortWithoutWrapper == <<Text("name"), Flag("direction"), Guided>>

KeyPort == <<Text("name"), Flag("direction"), Flag("wrapper"), Guided>>

KeyAggregateToCast ==
    [Aggregate |-> <<Guided>>,
     AggregateAlt |-> <<Guided>>,
     Alias |-> <<Text("name"), Flag("standard"), Guided>>,
     Array |-> <<Flag("signed"), Flag("typeVariant"), Guided>>,
     Assign |-> <<Child("leftHandSide"), Child("rightHandSide"), Child("delay")>>,
     System |-> <<Flag("languageID"), Flag("version"), Guided>>,
     Bit |-> <<Flag("constexpr"), Flag("logic"), Flag("resolved"), Flag("typeVariant"), Guided>>,
     BitValue |-> <<Flag("value"), Guided>>,
     Bitvector |-> <<Flag("constexpr"), Flag("logic"), Flag("resolved"), Flag("typeVariant"), Guided>>,
     BitvectorValue |-> <<Flag("value"), Guided>>,
     Bool |-> <<Flag("constexpr"), Flag("typeVariant"), Guided>>,
     BoolValue |-> <<Flag("value"), Guided>>,
     IfAlt |-> <<Guided>>,
     If |-> <<Guided>>,
     Cast |-> <<Guided>>]

KeyCharToFor ==
    [Char |-> <<Flag("constexpr"), Flag("typeVariant"), Guided>>,
     CharValue |-> <<Flag("value"), Guided>>,
     Const |-> <<Text("name"), Flag("standard"), Flag("instance"), Flag("define"), Guided>>,
     Contents |-> <<Text("name"), Guided>>,
     DesignUnit |-> <<Text("name"), Guided>>,
     Enum |-> <<Flag("constexpr"), Flag("typeVariant"), Guided>>,
     EnumValue |-> <<Text("name"), Guided>>,
     Event |-> <<Flag("constexpr"), Flag("typeVariant"), Guided>>,
     Break |-> <<Text("name"), Guided>>,
     Expression |-> <<Flag("operator"), Child("value1"), Child("value2")>>,
     FunctionCall |-> <<Text("name"), Guided>>,
     Field |-> <<Text("name"), Flag("direction"), Guided>>,
     FieldReference |-> <<Text("name"), Guided>>,
     File |-> <<Flag("typeVariant"), Guided>>,
     For |-> <<Text("name"), Guided>>]

KeyForGenerateToTransition ==
    [ForGenerate |-> <<Text("name"), Guided>>,
     Function |-> <<Text("name"), Flag("standard"), Flag("kind"), Guided>>,
     GlobalAction |-> <<Guided>>,
     Entity |-> <<Text("name"), Guided>>,
     IfGenerate |-> <<Text("name"), Guided>>,
     Int |-> <<Flag("constexpr"), Flag("signed"), Flag("typeVariant"), Guided>>,
     IntValue |-> <<Flag("value"), Guided>>,
     Instance |-> <<Text("name"), Guided>>,
     LibraryDef |-> <<Text("name"), Flag("standard"), Flag("cLinkage"), Flag("languageID"), Guided>>,
     Library |-> <<Text("name"), Text("filename"), Flag("standard"), Flag("system"), Flag("typeVariant"),
     Guided>>,
     Member |-> <<Guided>>,
     Identifier |-> <<Text("name"), Guided>>,
     Continue |-> <<Text("name"), Guided>>,
     Null |-> <<Guided>>,
     Transition |-> <<Text("name"), Text("prevName"), Flag("priority"), Guided>>]

KeyParameterAssignToReturn ==
    [ParameterAssign |-> <<Text("name"), Flag("direction"), Guided>>,
     Parameter |-> <<Text("name"), Flag("direction"), Guided>>,
     ProcedureCall |-> <<Text("name"), Guided>>,
     Pointer |-> <<Flag("typeVariant"), Guided>>,
     PortAssign |-> <<Text("name"), Flag("direction"), Guided>>,
     Procedure |-> <<Text("name"), Flag("standard"), Flag("kind"), Guided>>,
     Range |-> <<Flag("direction"), Child("leftBound"), Child("rightBound"), Child("type")>>,
     Real |-> <<Flag("constexpr"), Flag("typeVariant"), Guided>>,
     RealValue |-> <<Flag("value"), Guided>>,
     Record |-> <<Flag("constexpr"), Flag("packed"), Flag("union"), Flag("typeVariant"), Guided>>,
     RecordValue |-> <<Guided>>,
     RecordValueAlt |-> <<Text("name"), Guided>>,
     Reference |-> <<Flag("typeVariant"), Guided>>,
     Return |-> <<Guided>>]

KeySignalToTypeTP ==
    [Signal |-> <<Text("name"), Flag("standard"), Flag("wrapper"), Guided>>,
     Signed |-> <<Flag("constexpr"), Flag("typeVariant"), Guided>>,
     Slice |-> <<Guided>>,
     State |-> <<Text("name"), Flag("atomic"), Flag("priority"), Guided>>,
     String |-> <<Flag("constexpr"), Flag("typeVariant"), Guided>>,
     StateTable |-> <<Text("name"), Flag("standard"), Flag("dontInitialize"), Flag("flavour"), Guided>>,
     SwitchAlt |-> <<Guided>>,
     Switch |-> <<Flag("caseSemantics"), Guided>>,
     StringValue |-> <<Flag("value"), Flag("plain"), Guided>>,
     Time |-> <<Flag("constexpr"), Flag("typeVariant"), Guided>>,
     TimeValue |-> <<Flag("value"), Flag("unit"), Guided>>,
     TypeDef |-> <<Text("name"), Flag("standard"), Flag("opaque"), Flag("external"), Guided>>,
     TypeReference |-> <<Text("name"), Flag("typeVariant"), Guided>>,
     TypeTPAssign |-> <<Text("name"), Guided>>,
     TypeTP |-> <<Text("name"), Guided>>]

KeyUnsignedToWithAlt ==
    [Unsigned |-> <<Flag("constexpr"), Flag("typeVariant"), Guided>>,
     ValueStatement |-> <<Guided>>,
     ValueTPAssign |-> <<Text("name"), Guided>>,
     ValueTP |-> <<Text("name"), Flag("compileTimeConstant"), Guided>>,
     Variable |-> <<Text("name"), Flag("standard"), Flag("instance"), Guided>>,
     View |-> <<Text("name"), Flag("standard"), Flag("languageID"), Guided>>,
     ViewReference |-> <<Text("name"), Text("designUnit"), Flag("typeVariant"), Guided>>,
     Wait |-> <<Guided>>,
     When |-> <<Flag("logicTernary"), Guided>>,
     WhenAlt |-> <<Child("condition"), Child("value")>>,
     While |-> <<Text("name"), Flag("doWhile"), Guided>>,
     With |-> <<Flag("caseSemantics"), Child("condition"), List("alts"), Child("default")>>,
     WithAlt |-> <<Guided>>]

KeyRow ==
    KeyAggregateToCast @@ KeyCharToFor @@ KeyForGenerateToTransition @@
    KeyParameterAssignToReturn @@ KeySignalToTypeTP @@ KeyUnsignedToWithAlt @@ [Port |->
    KeyPort]

-----------------------------------------------------------------------------
\* The characters of a string attribute: nothing, one or two of the same.
Characters(v) == [i \in 1 .. v |-> "a"]

RECURSIVE KeyOf(_)
KeyOfList(q) == <<"{">> \o FlattenSeq([i \in DOMAIN q |-> KeyOf(q[i]) \o <<";">>]) \o <<"}">>
KeyOfField(q) == IF q = <<>> THEN <<"()">> ELSE KeyOf(q[1])

\* AfterVisit: the properties, and after them the keywords of a declaration.
KeyOfProperties(o) ==
    IF o.attrs["properties"] = 0 THEN <<>>
    ELSE <<"[PROPERTIES:", o.attrs["properties"], "]">>
         \o (IF "keywords" \in AttrsOf[o.class] /\ o.attrs["keywords"] # 0
             THEN <<"[ADDITIONAL_KEYWORDS:", o.attrs["keywords"], "]">> ELSE <<>>)

KeyOfGuided(o) ==
    LET Slot(s) == IF s \in ListsOf[o.class] THEN KeyOfList(o.kids[s])
                   ELSE IF o.kids[s] = <<>> THEN <<>> ELSE KeyOf(o.kids[s][1])
    IN  FlattenSeq([i \in DOMAIN GuideRow[o.class] |-> Slot(GuideRow[o.class][i])]) \o KeyOfProperties(o)

KeyPart(o, part) ==
    CASE part.kind = "text"   -> Characters(o.attrs[part.of])
      [] part.kind = "flag"   -> <<"[", o.attrs[part.of], "]">>
      [] part.kind = "child"  -> KeyOfField(o.kids[part.of])
      [] part.kind = "list"   -> KeyOfList(o.kids[part.of])
      [] part.kind = "guided" -> KeyOfGuided(o)

\* objectGetKey(o)
KeyOf(o) ==
    LET row == KeyRow[o.class]
    IN  <<"(", o.class>> \o FlattenSeq([i \in DOMAIN row |-> KeyPart(o, row[i])]) \o <<")">>
=============================================================================
