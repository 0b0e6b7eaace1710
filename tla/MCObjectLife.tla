---------------------------- MODULE MCObjectLife ----------------------------
(* Objects of every class, and children for every slot. *)
EXTENDS ObjectLife

MCSubjects == Concrete
MCPortAssign == {"PortAssign"}

MCPool == {New(c) : c \in {"AggregateAlt", "Assign", "Contents", "DesignUnit", "Entity", "EnumValue", "Field",
                           "GlobalAction", "Identifier", "IfAlt", "IfGenerate", "Instance", "Int", "Library",
                           "LibraryDef", "Parameter", "ParameterAssign", "Port", "PortAssign", "Range",
                           "RecordValueAlt", "State", "StateTable", "SwitchAlt", "Transition", "TypeReference",
                           "ValueTP", "ValueTPAssign", "View", "ViewReference", "WhenAlt", "WithAlt"}}
          \cup {SetAttr(New("Identifier"), "name", 1),
                SetKids(New("Return"), "value", <<New("Identifier")>>),
                SetKids(New("Member"), "prefix", <<New("Identifier")>>)}

MCOptionSets == {DefaultCopy, DefaultCopy \ {"copyChildObjects"},
                 (DefaultCopy \ {"copyProperties", "copyComments"}) \cup {"copySemanticsTypes"},
                 DefaultCopy \ {"copyDeclarations", "copyCodeInfos"}}
=============================================================================
