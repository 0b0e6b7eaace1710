----------------------------- MODULE NameTable -----------------------------
(***************************************************************************)
(* hif::NameTable (src/src/NameTable.cpp) and the declarations whose names *)
(* come from it.  A name is a sequence: a root and the numbers appended to *)
(* it with underscores, so that "a_0" is <<a, 0>> however it was made:     *)
(* written in a source file, or made by getFreshName("a"),                 *)
(* getFreshName("a", 0) or registerName("a", 0).                           *)
(*                                                                         *)
(* Declarations get their first names when a description is read; nothing  *)
(* in the library registers those.  Transformations rename declarations    *)
(* with getFreshName.                                                      *)
(***************************************************************************)
EXTENDS Naturals, Sequences, TLAPS

CONSTANTS Root,        \* names without a numeric suffix
          Decl,        \* declarations
          Nameless,    \* the name of a declaration that does not exist
          MaxIndex,    \* bound on the numbers of the names (std::uint64_t in the code)
          MaxLen       \* bound on how many numbers a name has

ASSUME NameAssumption == MaxIndex \in Nat /\ MaxLen \in Nat

Index == 0 .. MaxIndex
Name  == {<<r>> \o s : r \in Root, s \in UNION {[1 .. n -> Index] : n \in 0 .. MaxLen}}

ASSUME NamelessAssumption == Nameless \notin Name

VARIABLES table,     \* NameTable::m_name_map
          nameOf,    \* the names of the declarations
          renamed    \* history: the declarations whose name is from getFreshName

vars == <<table, nameOf, renamed>>

Init ==
    /\ table = {}
    /\ nameOf = [d \in Decl |-> Nameless]
    /\ renamed = {}

\* do { name = prefix + "_" + id++; } while (nameExists(name));
IsFresh(prefix, name) ==
    \E id \in Index :
        /\ name = Append(prefix, id) /\ name \notin table
        /\ \A k \in 0 .. id - 1 : Append(prefix, k) \in table

-----------------------------------------------------------------------------
\* A description is read: d is declared with the name the file gives it.
Read(d, name) ==
    /\ nameOf[d] = Nameless
    /\ nameOf' = [nameOf EXCEPT ![d] = name]
    /\ UNCHANGED <<table, renamed>>

\* Mutant: the fresh name is not registered.
RenameUnregistered(d, prefix) ==
    /\ \E name \in Name :
          /\ IsFresh(prefix, name)
          /\ nameOf' = [nameOf EXCEPT ![d] = name]
    /\ renamed' = renamed \cup {d}
    /\ UNCHANGED table

\* d->setName(getFreshName(prefix)); a transformation makes a new declaration,
\* or renames one it finds.
Rename(d, prefix) ==
    /\ \E name \in Name :
          /\ IsFresh(prefix, name)
          /\ nameOf' = [nameOf EXCEPT ![d] = name]
          /\ table' = table \cup {name}
    /\ renamed' = renamed \cup {d}

\* getFreshName(name, suffix): the suffix is part of the prefix.
RenameWithSuffix(d, prefix, suffix) == Rename(d, Append(prefix, suffix))

\* d is removed from the description; its name stays in the table.
Drop(d) ==
    /\ nameOf[d] # Nameless
    /\ nameOf' = [nameOf EXCEPT ![d] = Nameless]
    /\ renamed' = renamed \ {d}
    /\ UNCHANGED table

\* registerName(name) and registerName(name, index).
Register(name) == table' = table \cup {name} /\ UNCHANGED <<nameOf, renamed>>

RegisterIndexed(name, index) == Register(Append(name, index))

Next ==
    \/ \E d \in Decl, n \in Name : Read(d, n) \/ Rename(d, n)
    \/ \E d \in Decl, n \in Name, k \in Index : RenameWithSuffix(d, n, k)
    \/ \E d \in Decl : Drop(d)
    \/ \E n \in Name : Register(n) \/ \E k \in Index : Append(n, k) \in Name /\ RegisterIndexed(n, k)

Spec == Init /\ [][Next]_vars
-----------------------------------------------------------------------------
TypeOK ==
    /\ table \in SUBSET Name
    /\ nameOf \in [Decl -> Name \cup {Nameless}]
    /\ renamed \in SUBSET Decl

\* Two declarations that got their names from getFreshName never have the same
\* name, whatever the prefixes: a prefix that ends in a number ("a_0" and fresh)
\* cannot meet a shorter one with a suffix.
FreshNamesDiffer == \A d, e \in renamed : nameOf[d] = nameOf[e] => d = e

\* Why: those names are all in the table.
RenamedRegistered == \A d \in renamed : nameOf[d] \in table

-----------------------------------------------------------------------------
\* The two together are what a step keeps: a name is in the table when the next one is
\* chosen outside it.
NameInv == TypeOK /\ RenamedRegistered /\ FreshNamesDiffer

\* Renaming one declaration, with any prefix.
LEMMA RenameStep ==
    ASSUME NameInv, NEW d \in Decl, NEW prefix, Rename(d, prefix)
    PROVE  NameInv'
<1> USE DEF NameInv
<1>1. PICK name \in Name : /\ name \notin table
                           /\ nameOf' = [nameOf EXCEPT ![d] = name]
                           /\ table' = table \cup {name}
  BY DEF Rename, IsFresh
<1>2. renamed' = renamed \cup {d}
  BY DEF Rename
<1>3. TypeOK'
  BY <1>1, <1>2 DEF TypeOK
<1>4. nameOf'[d] = name /\ \A e \in renamed \ {d} : nameOf'[e] = nameOf[e] /\ nameOf[e] \in table
  BY <1>1 DEF TypeOK, RenamedRegistered
<1>5. RenamedRegistered' /\ FreshNamesDiffer'
  BY <1>1, <1>2, <1>4 DEF RenamedRegistered, FreshNamesDiffer
<1> QED BY <1>3, <1>5

\* Nothing has a fresh name yet.
LEMMA InitNames == Init => NameInv
BY DEF Init, NameInv, TypeOK, RenamedRegistered, FreshNamesDiffer

\* Every step keeps the two, a rename of either form by RenameStep.
LEMMA NextNames == NameInv /\ [Next]_vars => NameInv'
<1> SUFFICES ASSUME NameInv, [Next]_vars PROVE NameInv'
  OBVIOUS
<1> USE DEF NameInv
<1>1. ASSUME NEW d \in Decl, NEW n \in Name, Read(d, n) PROVE NameInv'
  BY <1>1, NamelessAssumption DEF Read, TypeOK, RenamedRegistered, FreshNamesDiffer
<1>2. ASSUME NEW d \in Decl, NEW n \in Name, Rename(d, n) PROVE NameInv'
  BY <1>2, RenameStep
<1>3. ASSUME NEW d \in Decl, NEW n \in Name, NEW k \in Index, RenameWithSuffix(d, n, k)
      PROVE  NameInv'
  BY <1>3, RenameStep DEF RenameWithSuffix
<1>4. ASSUME NEW d \in Decl, Drop(d) PROVE NameInv'
  BY <1>4 DEF Drop, TypeOK, RenamedRegistered, FreshNamesDiffer
<1>5. ASSUME NEW n \in Name, Register(n) PROVE NameInv'
  BY <1>5 DEF Register, TypeOK, RenamedRegistered, FreshNamesDiffer
<1>6. CASE UNCHANGED vars
  BY <1>6 DEF vars, TypeOK, RenamedRegistered, FreshNamesDiffer
<1> QED BY <1>1, <1>2, <1>3, <1>4, <1>5, <1>6 DEF Next, RegisterIndexed

\* Two declarations named by getFreshName never have the same name.
THEOREM FreshNamesAreUnique == Spec => []FreshNamesDiffer
<1>1. NameInv => FreshNamesDiffer
  BY DEF NameInv
<1> QED BY <1>1, InitNames, NextNames, PTL DEF Spec
=============================================================================
