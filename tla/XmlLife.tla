------------------------------ MODULE XmlLife ------------------------------
(***************************************************************************)
(* The life of a tree across files: made by the setters of its classes,    *)
(* written by writeFile (src/src/hifIOUtils.cpp, which always writes the   *)
(* newest format), read back by readFile, and written again.  Only a       *)
(* System is a file; an object of another class is an element of one, and  *)
(* file holds the element of the object.  XmlPrinter and XmlReader have a  *)
(* row for the two visit methods of each class; the properties say what of *)
(* an object survives.                                                     *)
(***************************************************************************)
EXTENDS XmlPrinter, XmlReader

CONSTANTS Subjects,      \* the classes of the objects that are written
          Pool,          \* the objects that are put below them
          MaxSettings    \* bound on the changes to the object

ASSUME SubjectsAssumption == Subjects \subseteq Concrete

VARIABLES object,        \* the object that is made and written
          file,          \* <<>>, or <<the element written for it>>
          loaded,        \* <<>>, or <<the object read from the file>>
          outcome,       \* where the exchange has got to
          settings       \* history: the changes to the object

vars == <<object, file, loaded, outcome, settings>>

Init ==
    /\ object \in {New(c) : c \in Subjects}
    /\ file = <<>> /\ loaded = <<>>
    /\ outcome = "made"
    /\ settings = 0

\* Counts of significant digits: none, one, those of the streams and all of them.
Digits == {0, 1, 7, 17}
Values(c, a) ==
    IF a \in Cached \cup {"comments", "codeInfo", "properties", "keywords"} THEN {0, 1}
    ELSE IF <<c, a>> \in Numeric THEN Digits
    ELSE 0 .. Count(c, a) - 1

\* Range::setSemanticType refuses every type.
Settable(c) == AttrsOf[c] \ (IF c = "Range" THEN {"semanticType"} ELSE {})

WithAttr(o) == UNION {{SetAttr(o, a, v) : v \in Values(o.class, a) \ {o.attrs[a]}} : a \in Settable(o.class)}
WithChild(o) ==
    {SetKids(o, s, Append(o.kids[s], child)) :
        <<s, child>> \in {sc \in SlotsOf[o.class] \X Pool :
                             Fits(o, sc[1], sc[2]) /\ (sc[1] \in FieldsOf[o.class] => o.kids[sc[1]] = <<>>)}}

Set ==
    /\ outcome = "made" /\ settings < MaxSettings
    /\ object' \in WithAttr(object) \cup WithChild(object)
    /\ settings' = settings + 1
    /\ UNCHANGED <<file, loaded, outcome>>

\* The file is written; a null pointer that is visited ends the program.
Save ==
    /\ outcome = "made"
    /\ IF PrintFails(object) THEN outcome' = "crashed" /\ file' = file
       ELSE outcome' = "saved" /\ file' = <<TextOf(object)>>
    /\ UNCHANGED <<object, loaded, settings>>

\* The element is read by the method of its class; an unexpected element ends the
\* program with an error.
Load ==
    /\ outcome = "saved"
    /\ loaded' = Read(object.class, file[1])
    /\ outcome' = IF loaded' = Failed THEN "refused" ELSE "loaded"
    /\ UNCHANGED <<object, file, settings>>

Next == Set \/ Save \/ Load

Spec == Init /\ [][Next]_vars

-----------------------------------------------------------------------------
\* A field for values of any class that holds a range: the range has no element.
RangeAsValue(o, s) ==
    /\ s \in FieldsOf[o.class] /\ SlotClass(o.class, s) # "Range"
    /\ o.kids[s] # <<>> /\ o.kids[s][1].class = "Range"

\* The declarations that have no tag in a list of declarations.
NotDeclarable == {"Entity", "Field", "StateTable", "System", "View"}
Misplaced(o, s) ==
    /\ SlotClass(o.class, s) \in {"Declaration", "DataDeclaration"}
    /\ \E i \in DOMAIN o.kids[s] : o.kids[s][i].class \in NotDeclarable

\* What is written and cannot be read: the reader wants a member that the class
\* does without, has no tag for a child, or finds the parts of a range; and the type of
\* a port assignment, in whose place its value is written (PrintXmlVisitor.cpp:1658).
RECURSIVE Unreadable(_)
Unreadable(o) ==
    \/ o.class = "BitvectorValue" /\ ToText(o.class, "value", o.attrs["value"]) = ""
    \/ o.class \in DOMAIN NeedsRange /\ o.kids["span"] = <<>>
    \/ o.class = "PortAssign" /\ o.kids["type"] # <<>>
    \/ IsA(o.class, "ReferencedType") /\ \E i \in DOMAIN o.kids["instance"] :
          ~(o.kids["instance"][i].class \in {"Library"} \cup IF o.class = "Library" THEN {} ELSE {"ViewReference"})
    \/ ~IsStandard(o) /\ \E s \in SlotsOf[o.class] :
          RangeAsValue(o, s) \/ Misplaced(o, s) \/ \E i \in DOMAIN o.kids[s] : Unreadable(o.kids[s][i])

\* Members that files do not have, besides those that are computed.
NotSaved == [Range |-> {"comments", "codeInfo", "properties"}, Enum |-> {"constexpr"}, StringValue |-> {"plain"}]

\* What is promised of o after a file: no name may become the empty name, a number
\* may lose digits and a standard library is the one the semantics has.
RECURSIVE Promised(_)
Promised(o) ==
    IF IsStandard(o) THEN StandardLibrary(o.attrs["name"])
    ELSE [Without(o, [c \in Concrete |-> IF c = o.class THEN Of(NotSaved, c) \cup Cached ELSE {}])
            EXCEPT !.attrs = [a \in DOMAIN @ |->
                       IF <<o.class, a>> \in PrintedEmpty /\ ToText(o.class, a, @[a]) = NameNone THEN 2
                       ELSE IF <<o.class, a>> \in Numeric /\ o.class \in DOMAIN Precision
                            THEN IF @[a] > Precision[o.class] THEN Precision[o.class] ELSE @[a]
                       ELSE @[a]],
                   !.kids = [s \in DOMAIN @ |-> [i \in DOMAIN @[s] |-> Promised(@[s][i])]]]

RECURSIVE Has(_, _)
Has(o, c) == o.class = c \/ \E s \in SlotsOf[o.class] : \E i \in DOMAIN o.kids[s] : Has(o.kids[s][i], c)

\* A port assignment that is written has a partial bind.
RECURSIVE PartlyBound(_)
PartlyBound(o) ==
    \/ o.class = "PortAssign" /\ o.kids["partialBind"] # <<>>
    \/ ~IsStandard(o) /\ \E s \in SlotsOf[o.class] : \E i \in DOMAIN o.kids[s] : PartlyBound(o.kids[s][i])

\* The reader takes what the writer writes, but for the objects above: a tag, an
\* attribute or a child that the two methods of a class do not agree on ends every
\* run that reads the file.  Nothing is claimed of partial binds, on which the two
\* sides contradict each other: the reader's comment says that they "should never be
\* printed" (XmlParser.cpp:1725) and it stops at their element, and the writer prints
\* every one of them (PrintXmlVisitor.cpp:1661-1662).
ReadsWhatIsWritten ==
    outcome \in {"loaded", "refused"} /\ ~PartlyBound(object) => (outcome = "refused" <=> Unreadable(object))

\* What is read is what was written: no member of any class is forgotten or read
\* into another one, and every value of an enumeration comes back.
LoadRestores == outcome = "loaded" => loaded[1] = Promised(object)

\* Writing what was read gives the same file, so that tools that pass a tree on
\* through files do not wear it down; standard libraries take the semantics' flags.
SecondSaveIsSame ==
    outcome = "loaded" /\ ~Has(object, "LibraryDef") => ~PrintFails(loaded[1]) /\ TextOf(loaded[1]) = file[1]

\* The reader's comment at the conditions of loops: it checks whether they have the
\* VHDL range notation.
RangeConditionLoads ==
    object.class \in {"For", "ForGenerate"} /\ outcome = "refused" => ~RangeAsValue(object, "condition")
=============================================================================
