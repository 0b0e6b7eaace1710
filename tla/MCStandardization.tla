------------------------- MODULE MCStandardization -------------------------
(* Types that the three languages treat differently, and all pairs of languages. *)
EXTENDS Standardization

MCLanguages == {"HIF", "VHDL", "Verilog"} \X {"HIF", "VHDL", "Verilog"}
MCEnum == [Named("Enum", "state") EXCEPT !.constexpr = FALSE]
MCWord == [Named("TypeReference", "word") EXCEPT !.of = <<BitvectorType(4, FALSE, TRUE, TRUE)>>]
MCLeaves == {BoolType, RealType(64), BitType(TRUE, TRUE), BitType(FALSE, FALSE), IntType(8, TRUE), IntType(32, FALSE),
             BitvectorType(2, FALSE, TRUE, TRUE), VectorType("Signed", 2), VectorType("Unsigned", 3),
             ArrayOf(2, BitType(TRUE, TRUE)), ArrayOf(2, RealType(64)), AType("Time"), AType("String"), MCEnum, MCWord}
MCOps == {"plus", "minus", "mult", "mod", "band", "bnot", "concat", "sll", "eq", "lt", "and", "orrd"}
=============================================================================
