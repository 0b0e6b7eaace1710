----------------------------- MODULE MCXmlLife -----------------------------
(* Objects of every class, and children for every slot. *)
EXTENDS XmlLife

MCSubjects == Concrete
MCFor == {"For"}

Bound == New("Identifier")
MCRange == SetKids(SetKids(New("Range"), "leftBound", <<Bound>>), "rightBound", <<Bound>>)
MCPool == {New(c) : c \in Concrete \ {"Range"}}
          \cup {MCRange, SetKids(New("Real"), "span", <<MCRange>>), SetAttr(New("BitvectorValue"), "value", 1),
                SetKids(New("Return"), "value", <<MCRange>>), SetAttr(SetAttr(New("LibraryDef"), "name", 1), "standard", 1)}
=============================================================================
