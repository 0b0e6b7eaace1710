------------------------------ MODULE MatchingVisitor ------------------------
(*****************************************************************************)
(* hif::manipulation::matchObject (src/src/manipulation/matchObject.cpp):    *)
(* the object that has in one tree the place a given object has in another.  *)
(* It takes the path from the object up to the root and goes down the other  *)
(* tree along it, one visit method per step; a row is the children the       *)
(* method of a class can go down to.                                         *)
(*****************************************************************************)
EXTENDS HifClasses, SequencesExt

MatchDataDeclaration == {"type", "value", "range"}
MatchPPAssign == {"value", "semanticType"}
MatchSubProgram == {"stateTable", "templateParameters", "parameters"}

\* Mutant: no branch for the libraries of a view.
MatchViewWithoutLibraries == {"contents", "entity", "templateParameters", "declarations", "inheritances"}

MatchView == {"contents", "entity", "templateParameters", "declarations", "libraries", "inheritances"}

MatchAggregateToBit ==
    [Aggregate |-> {"others", "semanticType", "alts"},
     AggregateAlt |-> {"value", "indices"},
     Alias |-> MatchDataDeclaration,
     Array |-> {"type", "span", "baseType", "baseOpaqueType"},
     Assign |-> {"rightHandSide", "leftHandSide", "delay"},
     System |-> {"designUnits", "libraryDefs", "declarations", "libraries"},
     Bit |-> {}]

MatchBitValueToIf ==
    [BitValue |-> {"type", "semanticType"},
     Bitvector |-> {"span"},
     BitvectorValue |-> {"type", "semanticType"},
     Bool |-> {},
     BoolValue |-> {"type", "semanticType"},
     IfAlt |-> {"condition", "actions"},
     If |-> {"alts", "defaults"}]

MatchCastToEnum ==
    [Cast |-> {"value", "value", "type", "semanticType"},
     Char |-> {},
     CharValue |-> {"type", "semanticType"},
     Const |-> MatchDataDeclaration,
     Contents |-> {"globalAction", "declarations", "libraries", "generates", "instances", "stateTables"},
     DesignUnit |-> {"views"},
     Enum |-> {"values"}]

MatchEnumValueToFile ==
    [EnumValue |-> MatchDataDeclaration,
     Expression |-> {"value1", "value2", "semanticType"},
     Break |-> {},
     Event |-> {},
     FunctionCall |-> {"semanticType", "instance", "templateParameterAssigns", "parameterAssigns"},
     Field |-> MatchDataDeclaration,
     FieldReference |-> {"prefix", "semanticType"},
     File |-> {"type", "baseType", "baseOpaqueType"}]

MatchForToEntity ==
    [For |-> {"condition", "initDeclarations", "initValues", "stepActions", "forActions"},
     ForGenerate |-> {"globalAction", "condition", "declarations", "generates", "instances",
     "stateTables", "initDeclarations", "initValues", "stepActions"},
     Function |-> {"type"} \cup MatchSubProgram,
     GlobalAction |-> {"actions"},
     Entity |-> {"parameters", "ports"}]

MatchIfGenerateToLibrary ==
    [IfGenerate |-> {"condition", "globalAction", "declarations", "generates", "instances",
     "stateTables"},
     Instance |-> {"referencedType", "value", "portAssigns"},
     Int |-> {"span"},
     IntValue |-> {"type", "semanticType"},
     LibraryDef |-> {"declarations", "libraries"},
     Library |-> {"instance"}]

MatchMemberToProcedureCall ==
    [Member |-> {"prefix", "index", "semanticType"},
     Identifier |-> {"semanticType"},
     Continue |-> {},
     Null |-> {},
     Transition |-> {"enablingLabelList", "enablingList", "updateLabelList", "updateList"},
     ParameterAssign |-> {"semanticType"} \cup MatchPPAssign,
     Parameter |-> MatchDataDeclaration,
     ProcedureCall |-> {"instance", "templateParameterAssigns", "parameterAssigns"}]

MatchPortAssignToRecord ==
    [PortAssign |-> {"semanticType", "type", "partialBind"} \cup MatchPPAssign,
     Port |-> MatchDataDeclaration,
     Procedure |-> MatchSubProgram,
     Range |-> {"type", "semanticType", "leftBound", "rightBound"},
     Real |-> {"span"},
     RealValue |-> {"type", "semanticType"},
     Record |-> {"baseType", "baseOpaqueType", "fields"}]

MatchRecordValueToState ==
    [RecordValue |-> {"alts"},
     RecordValueAlt |-> {"value"},
     Return |-> {"value"},
     Signal |-> MatchDataDeclaration,
     Signed |-> {"span"},
     Slice |-> {"prefix", "span", "semanticType"},
     State |-> {"actions", "invariants"}]

MatchStringToStringValue ==
    [String |-> {"spanInformation"},
     StateTable |-> {"edges", "states", "declarations", "sensitivity", "sensitivityPos",
     "sensitivityNeg"},
     SwitchAlt |-> {"actions", "conditions"},
     Switch |-> {"condition", "alts", "defaults"},
     StringValue |-> {"type", "semanticType"}]

MatchTimeToTypeTP ==
    [Time |-> {},
     TimeValue |-> {"type", "semanticType"},
     TypeDef |-> {"type", "range", "templateParameters"},
     Unsigned |-> {"span"},
     TypeReference |-> {"instance", "templateParameterAssigns", "ranges"},
     TypeTP |-> {"type"}]

MatchTypeTPAssignToViewReference ==
    [TypeTPAssign |-> {"type"},
     Variable |-> MatchDataDeclaration,
     ValueStatement |-> {"value"},
     ValueTP |-> MatchDataDeclaration,
     ValueTPAssign |-> {"value", "semanticType"},
     ViewReference |-> {"instance", "templateParameterAssigns"}]

MatchWaitToWith ==
    [Wait |-> {"condition", "repetitions", "time", "sensitivity", "sensitivityPos", "sensitivityNeg",
     "actions"},
     When |-> {"default", "semanticType", "alts"},
     WhenAlt |-> {"condition", "value"},
     While |-> {"condition", "actions"},
     With |-> {"condition", "default", "semanticType", "alts"}]

MatchWithAltToPointer ==
    [WithAlt |-> {"value", "conditions"},
     Reference |-> {"type", "baseType", "baseOpaqueType"},
     Pointer |-> {"type", "baseType", "baseOpaqueType"}]

MatchRow ==
    MatchAggregateToBit @@ MatchBitValueToIf @@ MatchCastToEnum @@ MatchEnumValueToFile @@
    MatchForToEntity @@ MatchIfGenerateToLibrary @@ MatchMemberToProcedureCall @@
    MatchPortAssignToRecord @@ MatchRecordValueToState @@ MatchStringToStringValue @@
    MatchTimeToTypeTP @@ MatchTypeTPAssignToViewReference @@ MatchWaitToWith @@
    MatchWithAltToPointer @@ [View |-> MatchView]

\* The children whose branch returns without _update(): the path stays as long
\* as it was, and getMatched() takes that for a failure.
Unfinished(c, s) == c \in {"ParameterAssign", "PortAssign"} /\ s \in {"semanticType", "type", "partialBind"}

-----------------------------------------------------------------------------
\* _getBound: the bounds trade places when the directions differ.
Counterpart(o, m, s) ==
    IF o.class = "Range" /\ s \in {"leftBound", "rightBound"} /\ o.attrs["direction"] # m.attrs["direction"]
    THEN IF s = "leftBound" THEN "rightBound" ELSE "leftBound"
    ELSE s

\* What comes of a match: an object, a null pointer, or no return at all.
Found(m) == [stops |-> FALSE, object |-> <<m>>]
Missing == [stops |-> FALSE, object |-> <<>>]
Stop == [stops |-> TRUE, object |-> <<>>]

\* _matchBList(nullptr): the object is in a list that the method of its class has no
\* branch for, and the assertion ends the program.
NoBranch(o, m, s) == m.class = o.class /\ s \in ListsOf[o.class] \ MatchRow[o.class]

\* What the visit method of o's class goes down to in m from child i of slot s.
GoDown(o, m, s, i) ==
    LET q == m.kids[Counterpart(o, m, s)] IN
    CASE NoBranch(o, m, s) -> Stop
      [] m.class = o.class /\ s \in MatchRow[o.class] /\ ~Unfinished(o.class, s) /\ i \in DOMAIN q -> Found(q[i])
      [] OTHER -> Missing

\* matchObject(pattern, o, m) for the pattern at the end of a path of <<slot, index>>.
RECURSIVE Match(_, _, _)
Match(o, m, path) ==
    IF path = <<>> THEN Found(m)
    ELSE LET s == path[1][1]
             i == path[1][2]
             down == GoDown(o, m, s, i)
         IN  IF down.object = <<>> THEN down ELSE Match(o.kids[s][i], down.object[1], Tail(path))

\* The paths of the objects below o.
RECURSIVE Paths(_)
Paths(o) ==
    UNION {UNION {{<<<<s, i>>>> \o p : p \in {<<>>} \cup Paths(o.kids[s][i])} : i \in DOMAIN o.kids[s]}
              : s \in SlotsOf[o.class]}
==============================================================================
