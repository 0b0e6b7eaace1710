---------------------------- MODULE MCGenerates ----------------------------
(***************************************************************************)
(* Small designs: a view with a port, contents with a variable and either  *)
(* a loop or a generate, which has a variable, an instance, a state table  *)
(* with a variable and a nested generate with a variable; one reference,   *)
(* wherever it has something to refer to.                                  *)
(***************************************************************************)
EXTENDS GenerateExpansion

MCKind == [v |-> "View", c |-> "Contents", fg |-> "ForGenerate", ig |-> "IfGenerate",
           fh |-> "ForGenerate", ih |-> "IfGenerate", f |-> "For", t |-> "StateTable",
           p |-> "Port", x |-> "Variable", y |-> "Variable", z |-> "Variable", w |-> "Variable",
           i |-> "Variable", j |-> "Variable", k |-> "Variable", u |-> "Instance", r |-> "Reference",
           none |-> "None"]

MCLevel == [v |-> 0, c |-> 1, p |-> 1, fg |-> 2, ig |-> 2, f |-> 2, x |-> 2, fh |-> 3, ih |-> 3, t |-> 3, u |-> 3,
            y |-> 3, i |-> 3, k |-> 3, z |-> 4, w |-> 4, j |-> 4, r |-> 5, none |-> 0]

MCUnitName == <<"a">>

New(n) == [of |-> n, at |-> <<>>]

ExpressionHeader(init, condition, bound, stepOp, step) ==
    [init |-> init, condition |-> condition, bound |-> bound, stepOp |-> stepOp, step |-> step,
     known |-> TRUE, outer |-> FALSE]

Two == ExpressionHeader(0, "lt", 2, "plus", 1)
Once == ExpressionHeader(1, "downto", 1, "none", 0)
UpToOuter == [ExpressionHeader(0, "le", 0, "plus", 1) EXCEPT !.outer = TRUE, !.known = FALSE]
Unknown == [ExpressionHeader(0, "lt", 0, "plus", 1) EXCEPT !.known = FALSE]
True == ExpressionHeader(0, "true", 0, "none", 0)
Never == ExpressionHeader(0, "never", 0, "none", 0)

\* Every header of small numbers; a range has no step.
Headers ==
    {ExpressionHeader(init, condition, bound, stepOp, step) :
        init \in {0, 3}, condition \in {"lt", "le", "gt", "ge", "neq"}, bound \in 0 .. 4,
        stepOp \in {"plus", "minus", "mult"}, step \in {-1, 0, 1, 2}} \cup
    {ExpressionHeader(init, condition, bound, "none", 0) :
        init \in {0, 3}, condition \in {"lt", "le", "gt", "ge", "neq", "upto", "downto", "never"}, bound \in 0 .. 4}

\* The parts of a design: the outer loop or generate, the inner one, the others.
Parents(outer, inner) ==
    [c |-> "v", p |-> "v", x |-> "c", fg |-> "c", ig |-> "c", f |-> "c", i |-> "fg", k |-> "f",
     y |-> outer, u |-> outer, t |-> outer, w |-> "t", fh |-> outer, ih |-> outer, j |-> "fh", z |-> inner]

Listing == [declarations |-> <<"x", "y", "w", "z">>, ports |-> <<"p">>, initDeclarations |-> <<"i", "j", "k">>,
          instances |-> <<"u">>, stateTables |-> <<"t">>, generates |-> <<"fg", "ig", "fh", "ih">>,
          actions |-> <<"f", "r">>]

\* The design made of a set of parts, a name for each declaration, the place of the
\* reference and the headers.
Design(parts, outer, inner, names, place, name, headers) ==
    LET above == [n \in parts \ {"v"} |-> IF n = "r" THEN place ELSE Parents(outer, inner)[n]]
        children(s, l) == SelectSeq(Listing[l], LAMBDA n : n \in DOMAIN above /\ above[n] = s)
    IN  [top |-> New("v"), contents |-> New("c"),
         up |-> [o \in {New(n) : n \in DOMAIN above} |-> New(above[o.of])],
         lists |-> [o \in {New(n) : n \in parts \ {"r"}} |->
                       [l \in DOMAIN ContentOf[MCKind[o.of]] |->
                           LET nodes == children(o.of, l) IN [m \in DOMAIN nodes |-> New(nodes[m])]]],
         names |-> [o \in {New(n) : n \in parts \ {"r"}} |-> IF o.of \in DOMAIN names THEN names[o.of] ELSE Nameless],
         says |-> [o \in {New("r")} |-> name],
         header |-> headers]

\* One loop or generate with any header, its index used inside it; a generate with another
\* one that is never expanded.
HeaderDesigns ==
    {{Design({"v", "c", "fg", "i", "r"}, "fg", "fg", [i |-> <<"i">>], "fg", <<"i">>, [fg |-> h]) : h \in Headers},
     {Design({"v", "c", "f", "k", "r"}, "f", "f", [k |-> <<"i">>], "f", <<"i">>, [f |-> h]) : h \in Headers},
     {Design({"v", "c", "ig", "fh", "j", "z", "r"}, "ig", "fh", [j |-> <<"i">>, z |-> <<"a">>],
             "fh", <<"a">>, [ig |-> True, fh |-> Never])},
     {Design({"v", "c", "fg", "i", "fh", "j", "z", "r"}, "fg", "fh", [i |-> <<"i">>, j |-> <<"i">>, z |-> <<"a">>],
             "fh", <<"a">>, [fg |-> Two, fh |-> Never])}}

MCNames == {<<"a">>, <<"a", 0>>}
\* In one shape also the name that the indexes have.
NamesIn(shape) == IF shape = <<"fg", "ih">> THEN MCNames \cup {<<"i">>} ELSE MCNames
Shapes == {<<"fg", "fh">>, <<"fg", "ih">>, <<"ig", "fh">>, <<"ig", "ih">>, <<"fg", "none">>, <<"ig", "none">>, <<"f", "none">>}
OuterHeaders(outer) == IF outer = "ig" THEN {True} ELSE {Two}
InnerHeaders(shape) == IF shape[2] = "fh" THEN {Once, UpToOuter}
                       ELSE IF shape[1] = "fg" THEN {True, Unknown} ELSE {True}

\* The parts that have names.
NamedParts(shape) == (IF shape[1] = "f" THEN {"p", "x"} ELSE {"p", "x", "y", "u", "t", "w"})
                       \cup (IF shape[2] = "none" THEN {} ELSE {"z"})

Places(parts) == {"c", "fg", "ig", "f", "t", "fh", "ih", "y", "z"} \cap parts

\* The designs of a shape that have the chosen named parts.
NameDesigns(shape, chosen) ==
    LET named == chosen \cup (IF "w" \in chosen THEN {"t"} ELSE {})
        parts == {"v", "c", "r", shape[1]} \cup named \cup ({shape[2]} \ {"none"})
                   \cup (IF shape[1] = "fg" THEN {"i"} ELSE IF shape[1] = "f" THEN {"k"} ELSE {})
                   \cup (IF shape[2] = "fh" THEN {"j"} ELSE {})
        indexes == [i |-> <<"i">>, j |-> <<"i">>, k |-> <<"i">>]
    IN  {Design(parts, shape[1], shape[2], names @@ indexes, place, name,
                [n \in {shape[1]} |-> outer] @@ [n \in {shape[2]} |-> inner]) :
           names \in [named -> NamesIn(shape)], place \in Places(parts), name \in MCNames \cup {<<"i">>},
           outer \in OuterHeaders(shape[1]), inner \in InnerHeaders(shape)}

\* Up to two named parts, or the variable in a nested generate and one it may conflict with.
PartChoices(shape) ==
    {chosen \in SUBSET NamedParts(shape) :
        /\ Cardinality(chosen) <= 2
        /\ shape[2] # "none" => chosen \in {{}, {"z"}, {"x", "z"}, {"y", "z"}}}

MCDesigns ==
    HeaderDesigns \cup UNION {{NameDesigns(shape, chosen) : chosen \in PartChoices(shape)} : shape \in Shapes}
=============================================================================
