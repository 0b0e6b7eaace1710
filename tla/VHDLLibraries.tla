------------------------------ MODULE VHDLLibraries --------------------------
(*****************************************************************************)
(* The standard packages of VHDL as VHDLSemantics_methods.cpp builds them:   *)
(* one definition per section of a package, and the packages themselves.     *)
(*                                                                           *)
(* Every get...Package(hifFormat) function is one definition: the two forms  *)
(* it builds have the same declarations and differ in their names (see       *)
(* StandardLibraries).                                                       *)
(*****************************************************************************)
EXTENDS StandardLibraries

(* VHDLSemantics::getStandardPackage *)

StandardTypes ==
         Enumeration("severity_level", {"error", "failure", "note", "warning"})
    \cup Enumeration("time_units", {"fs", "hr", "min", "ms", "ns", "ps", "sec", "us"})
    \cup Types({"delay_length"}, "Time")
    \cup Enumeration("file_open_kind", {"append_mode", "read_mode", "write_mode"})
    \cup Enumeration("file_open_status", {"mode_error", "name_error", "open_ok", "status_error"})
    \cup Functions({"now"}, {<<>>}, "delay_length")
    \cup Functions({"castRealToInt"}, {<<"Real", "Int", "Bool">>}, "Int")
    \cup Procedures({"deallocate"}, {<<"Pointer">>})
    \cup Functions({"new"}, {<<>>, <<"Any">>}, "Pointer")
    \cup Using({"error"}, WithDefaults(2, Procedures({"assert"}, {<<"Bool", "String", "severity_level">>})))

StandardPackage == [name |-> "standard", libraries |-> {}, declarations |->
         Functions({"base", "high", "last_value", "left", "low", "right"}, {<<>>}, "Any")
    \cup Functions({"event"}, {<<>>}, "Bool")
    \cup WithDefaults(1,
                  Functions({"high", "left", "length", "low", "right"}, {<<"Int">>}, "Int")
    \cup Functions({"ascending"}, {<<"Int">>}, "Bool")
    \cup Functions({"stable"}, {<<"Time">>}, "Bool"))
    \cup Unsupported(
                  Functions({"image"}, {<<"Any">>}, "String")
    \cup Functions({"foreign", "instance_name", "path_name", "simple_name"}, {<<>>}, "String")
    \cup Functions({"value"}, {<<"String">>}, "Any")
    \cup Functions({"val"}, {<<"Int">>}, "Any")
    \cup Functions({"leftof", "pred", "rightof", "succ"}, {<<"Any">>}, "Any")
    \cup Functions({"driving_value"}, {<<>>}, "Any")
    \cup Functions({"pos"}, {<<"Any">>}, "Int")
    \cup Functions({"transaction"}, {<<>>}, "Bit")
    \cup Functions({"active", "driving"}, {<<>>}, "Bool")
    \cup Functions({"last_active", "last_event"}, {<<>>}, "Time"))
    \cup Unsupported(
             WithDefaults(1,
                      Functions({"range", "reverse_range"}, {<<"Int">>}, "Any")
    \cup Functions({"delayed"}, {<<"Time">>}, "Any")
    \cup Functions({"quiet"}, {<<"Time">>}, "Bool")))
    \cup StandardTypes]

(* VHDLSemantics::getIeeeStdLogic1164Package *)

StdLogic1164Conversions ==
         Types({"ux01", "ux01z", "x01", "x01z"}, "Logic")
    \cup Functions({"resolved"}, {<<"ULogicVector">>}, "ULogic")
    \cup Functions({"to_stdulogic"}, {<<"Bit">>}, "ULogic")
    \cup Functions({"to_stdlogicvector"}, {<<"BitVector">>, <<"ULogicVector">>}, "LogicVector")
    \cup Functions({"to_ux01", "to_x01", "to_x01z"}, {<<"BitVector">>, <<"LogicVector">>}, "LogicVector")
    \cup Functions({"to_stdulogicvector"}, {<<"BitVector">>, <<"LogicVector">>}, "ULogicVector")
    \cup Functions({"to_ux01", "to_x01", "to_x01z"}, {<<"BitVector">>, <<"ULogicVector">>}, "ULogicVector")
    \cup Functions({"to_x01"}, {<<"Bit">>, <<"ULogic">>}, "x01")
    \cup Functions({"to_x01z"}, {<<"Bit">>, <<"ULogic">>}, "x01z")
    \cup Functions({"to_ux01"}, {<<"Bit">>, <<"ULogic">>}, "ux01")
    \cup WithDefaults(1,
                  Functions({"to_bit"}, {<<"ULogic", "Bit">>}, "Bit")
             \cup Functions({"to_bitvector"}, {<<"LogicVector", "Bit">>, <<"ULogicVector", "Bit">>},
                      "BitVector"))

StdLogic1164Edges ==
         Functions({"falling_edge", "rising_edge"}, {<<"ULogic">>}, "Bool")
    \cup Functions({"is_x"}, {<<"LogicVector">>, <<"ULogic">>, <<"ULogicVector">>}, "Bool")

IeeeStdLogic1164Package == [name |-> "ieee_std_logic_1164", libraries |-> {}, declarations |->
    StdLogic1164Conversions \cup StdLogic1164Edges]

(* VHDLSemantics::getIeeeStdLogicArithPackage *)

StdLogicArithConversions ==
         Functions({"conv_integer"}, {<<"Int">>, <<"Signed">>, <<"Unsigned">>}, "Int")
    \cup Functions({"conv_integer_unsigned"}, {<<"Unsigned">>}, "Int")
    \cup Functions({"conv_integer_signed"}, {<<"Signed">>}, "Int")
    \cup Functions({"conv_integer"}, {<<"ULogic">>}, "small_int")
    \cup Functions({"conv_unsigned"}, {<<"Int", "Int">>, <<"Signed", "Int">>, <<"ULogic", "Int">>,
             <<"Unsigned", "Int">>}, "Unsigned")
    \cup Functions({"conv_unsigned_unsigned"}, {<<"Unsigned", "Int">>}, "Unsigned")
    \cup Functions({"conv_unsigned_signed"}, {<<"Signed", "Int">>}, "Unsigned")
    \cup Functions({"conv_signed"}, {<<"Int", "Int">>, <<"Signed", "Int">>, <<"ULogic", "Int">>,
             <<"Unsigned", "Int">>}, "Signed")
    \cup Functions({"conv_signed_unsigned"}, {<<"Unsigned", "Int">>}, "Signed")
    \cup Functions({"conv_signed_signed"}, {<<"Signed", "Int">>}, "Signed")

StdLogicArithOperators ==
         Functions({"conv_std_logic_vector"}, {<<"Int", "Int">>, <<"Signed", "Int">>, <<"ULogic", "Int">>,
             <<"Unsigned", "Int">>}, "LogicVector")
    \cup Functions({"conv_std_logic_vector_unsigned"}, {<<"Unsigned", "Int">>}, "LogicVector")
    \cup Functions({"conv_std_logic_vector_signed"}, {<<"Signed", "Int">>}, "LogicVector")
    \cup Functions({"ext", "sxt"}, {<<"LogicVector", "Int">>}, "LogicVector")
    \cup Functions({"_op_eq_signed", "_op_eq_unsigned", "_op_neq_signed", "_op_neq_unsigned"},
             {<<"Unsigned", "Unsigned">>}, "Bool")
    \cup Functions({"_op_minus_signed", "_op_mult_signed", "_op_plus_signed"}, {<<"Signed", "Signed">>},
             "Signed")
    \cup Functions({"_op_abs"}, {<<"Signed">>}, "Signed")
    \cup Functions({"_op_minus_unsigned", "_op_mult_unsigned", "_op_plus_unsigned"},
             {<<"Unsigned", "Unsigned">>}, "Unsigned")

IeeeStdLogicArithPackage == [name |-> "ieee_std_logic_arith", libraries |-> {}, declarations |->
         Types({"small_int"}, "Int")
    \cup Functions({"shl", "shr", "shr_unsigned"}, {<<"Unsigned", "Unsigned">>}, "Unsigned")
    \cup Functions({"shl", "shr", "shr_signed"}, {<<"Signed", "Unsigned">>}, "Signed")
    \cup StdLogicArithConversions
    \cup StdLogicArithOperators]

(* VHDLSemantics::getIeeeStdLogicArithExPackage *)

StdLogicArithExSizes ==
         Functions({"align_size"}, {<<"LogicVector", "Int">>, <<"ULogic", "Int">>}, "LogicVector")
    \cup Functions({"to_stdlogicvector"}, {<<"Int", "Int">>}, "LogicVector")
    \cup Functions({"drive"}, {<<"ULogicVector">>}, "LogicVector")
    \cup Functions({"align_size"}, {<<"ULogic", "Int">>, <<"ULogicVector", "Int">>}, "ULogicVector")
    \cup Functions({"to_stdulogicvector"}, {<<"Int", "Int">>}, "ULogicVector")
    \cup Functions({"drive"}, {<<"LogicVector">>}, "ULogicVector")
    \cup Functions({"sense"}, {<<"LogicVector", "ULogic", "ULogic", "ULogic">>,
             <<"ULogicVector", "ULogic", "ULogic", "ULogic">>}, "ULogicVector")
    \cup Functions({"to_integer"}, {<<"LogicVector">>, <<"ULogic">>, <<"ULogicVector">>}, "Int")
    \cup Functions({"sense"}, {<<"ULogic", "ULogic", "ULogic", "ULogic">>}, "ULogic")

IeeeStdLogicArithExPackage == [name |-> "ieee_std_logic_arith_ex", libraries |-> {}, declarations |->
         Types({"tbl_type"}, "ULogicVector")
    \cup Constants({"tbl_binary"}, "tbl_type")
    \cup Functions({"cond_op"}, {<<"Bool", "LogicVector", "LogicVector">>}, "LogicVector")
    \cup Functions({"sh_left", "sh_right"}, {<<"LogicVector", "Int">>}, "LogicVector")
    \cup Functions({"cond_op"}, {<<"Bool", "ULogic", "ULogic">>}, "ULogic")
    \cup Functions({"cond_op"}, {<<"Bool", "ULogicVector", "ULogicVector">>}, "ULogicVector")
    \cup Functions({"sh_left", "sh_right"}, {<<"ULogicVector", "Int">>}, "ULogicVector")
    \cup StdLogicArithExSizes]

(* VHDLSemantics::getIeeeNumericStdPackage *)

NumericStdConversions ==
         Functions({"resize"}, {<<"Signed", "Int">>}, "Signed")
    \cup Functions({"to_signed"}, {<<"Int", "Int">>, <<"LogicVector">>}, "Signed")
    \cup Functions({"_op_minus_signed", "_op_mult_signed", "_op_plus_signed"}, {<<"Signed", "Signed">>},
             "Signed")
    \cup Functions({"resize"}, {<<"Unsigned", "Int">>}, "Unsigned")
    \cup Functions({"to_unsigned"}, {<<"Int", "Int">>, <<"LogicVector">>}, "Unsigned")
    \cup Functions({"_op_minus_unsigned", "_op_mult_unsigned", "_op_plus_unsigned"},
             {<<"Unsigned", "Unsigned">>}, "Unsigned")
    \cup Functions({"to_integer"}, {<<"Signed">>, <<"Unsigned">>}, "Int")
    \cup Functions({"to_integer_unsigned"}, {<<"Unsigned">>}, "Int")
    \cup Functions({"to_integer_signed"}, {<<"Signed">>}, "Int")
    \cup Functions({"to_signed"}, {<<"Signed">>, <<"Unsigned">>}, "LogicVector")
    \cup Functions({"std_match"}, {<<"LogicVector", "LogicVector">>, <<"ULogic", "ULogic">>}, "Bool")
    \cup Functions({"_op_eq_signed", "_op_eq_unsigned", "_op_neq_signed", "_op_neq_unsigned"},
             {<<"Unsigned", "Unsigned">>}, "Bool")

IeeeNumericStdPackage == [name |-> "ieee_numeric_std", libraries |-> {}, declarations |->
         Functions({"_op_abs"}, {<<"Signed">>}, "Signed")
    \cup Functions({"rotate_left", "rotate_right", "shift_left", "shift_right"}, {<<"Signed", "Int">>},
             "Signed")
    \cup Functions({"rotate_left", "rotate_right", "shift_left", "shift_right"}, {<<"Unsigned", "Int">>},
             "Unsigned")
    \cup NumericStdConversions]

(* VHDLSemantics::getIeeeNumericBitPackage *)

IeeeNumericBitPackage == [name |-> "ieee_numeric_bit", libraries |-> {}, declarations |->
         Functions({"resize"}, {<<"Signed", "Int">>}, "Signed")
    \cup Functions({"to_signed"}, {<<"Int", "Int">>}, "Signed")
    \cup Functions({"resize"}, {<<"Signed", "Int">>}, "Unsigned")
    \cup Functions({"to_unsigned"}, {<<"Int", "Int">>}, "Unsigned")
    \cup Functions({"to_integer"}, {<<"Signed">>, <<"Unsigned">>}, "Int")
    \cup Unsupported(Functions({"falling_edge", "rising_edge"}, {<<"Bit">>}, "Bool"))]

(* VHDLSemantics::getIeeeStdLogicMiscPackage *)

StdLogicMiscReductions ==
         From("ieee_std_logic_1164", {"ux01"},
             Unsupported(
                 Functions({"and_reduce", "nand_reduce", "nor_reduce", "or_reduce", "xnor_reduce",
                     "xor_reduce"}, {<<"LogicVector">>, <<"ULogicVector">>}, "ux01")))
    \cup From("ieee_std_logic_1164", {"ux01"},
                  Functions({"fun_buf3s", "fun_buf3sl"}, {<<"ux01", "ux01", "strength">>}, "Logic")
             \cup Functions({"fun_maj23", "fun_mux2x1"}, {<<"ux01", "ux01", "ux01">>}, "ux01"))
    \cup Functions({"fun_wiredx"}, {<<"ULogic", "ULogic">>}, "Logic")

IeeeStdLogicMiscPackage == [name |-> "ieee_std_logic_misc", libraries |-> {}, declarations |->
         Enumeration("strength", {"strn_W0H", "strn_WL1", "strn_WLH", "strn_WLZ", "strn_WZH", "strn_X01",
             "strn_X0H", "strn_X0Z", "strn_XL1", "strn_XZ1"})
    \cup Functions({"strength_map", "strength_map_z"}, {<<"ULogic", "strength">>}, "Logic")
    \cup Functions({"sense"}, {<<"ULogic", "ULogic", "ULogic", "ULogic">>}, "Logic")
    \cup Functions({"sense"}, {<<"LogicVector", "ULogic", "ULogic", "ULogic">>,
             <<"ULogicVector", "ULogic", "ULogic", "ULogic">>}, "LogicVector")
    \cup Functions({"sense"}, {<<"LogicVector", "ULogic", "ULogic", "ULogic">>,
             <<"ULogicVector", "ULogic", "ULogic", "ULogic">>}, "ULogicVector")
    \cup Unprefixed(Types({"minomax"}, "Array"))
    \cup Unsupported(
                  Functions({"drive"}, {<<"ULogicVector">>}, "LogicVector")
    \cup Functions({"drive"}, {<<"LogicVector">>}, "ULogicVector"))
    \cup WithDefaults(8,
                  Functions({"std_logic_vectortobit_vector"},
                      {<<"LogicVector", "Bit", "Bit", "Bit", "Bit", "Bool", "Bool", "Bool", "Bool">>},
                      "BitVector")
    \cup Functions({"std_ulogic_vectortobit_vector"},
                      {<<"ULogicVector", "Bit", "Bit", "Bit", "Bit", "Bool", "Bool", "Bool", "Bool">>},
                      "BitVector")
    \cup Functions({"std_ulogictobit"},
                      {<<"ULogic", "Bit", "Bit", "Bit", "Bit", "Bool", "Bool", "Bool", "Bool">>}, "Bit"))
    \cup StdLogicMiscReductions]

(* VHDLSemantics::getIeeeStdLogicSignedPackage *)

IeeeStdLogicSignedPackage == [name |-> "ieee_std_logic_signed", libraries |-> {}, declarations |->
         Functions({"_op_minus", "_op_mult", "_op_plus", "shl", "shr"}, {<<"LogicVector", "LogicVector">>},
             "LogicVector")
    \cup Functions({"_op_abs"}, {<<"LogicVector">>}, "LogicVector")
    \cup Functions({"conv_integer"}, {<<"LogicVector">>}, "Int")]

(* VHDLSemantics::getIeeeStdLogicTextIOPackage *)

StdLogicTextIOHexadecimal ==
         From("std_textio", {"line"},
             Procedures({"hread"}, {<<"line", "Int">>, <<"line", "Int", "Bool">>, <<"line", "LogicVector">>,
                 <<"line", "LogicVector", "Bool">>, <<"line", "UInt">>, <<"line", "UInt", "Bool">>,
                 <<"line", "ULogicVector">>, <<"line", "ULogicVector", "Bool">>}))
    \cup From("std_textio", {"line", "right", "side", "width"},
             WithDefaults(2,
                 Procedures({"hwrite"}, {<<"line", "LogicVector", "side", "width">>,
                     <<"line", "ULogicVector", "side", "width">>})))

StdLogicTextIOOctal ==
         From("std_textio", {"line"},
             Procedures({"oread"}, {<<"line", "LogicVector">>, <<"line", "LogicVector", "Bool">>,
                 <<"line", "UInt">>, <<"line", "UInt", "Bool">>, <<"line", "ULogicVector">>,
                 <<"line", "ULogicVector", "Bool">>}))
    \cup From("std_textio", {"line", "right", "side", "width"},
             WithDefaults(2,
                 Procedures({"owrite"}, {<<"line", "LogicVector", "side", "width">>,
                     <<"line", "ULogicVector", "side", "width">>})))

IeeeStdLogicTextIOPackage == [name |-> "ieee_std_logic_textio", libraries |-> {"std_textio"}, declarations |->
         From("std_textio", {"line"},
             Procedures({"read"}, {<<"line", "LogicVector">>, <<"line", "LogicVector", "Bool">>,
                 <<"line", "UInt">>, <<"line", "UInt", "Bool">>, <<"line", "ULogic">>,
                 <<"line", "ULogic", "Bool">>, <<"line", "ULogicVector">>, <<"line", "ULogicVector", "Bool">>}))
    \cup From("std_textio", {"line", "right", "side", "width"},
             WithDefaults(2,
                 Procedures({"write"}, {<<"line", "LogicVector", "side", "width">>,
                     <<"line", "ULogic", "side", "width">>, <<"line", "ULogicVector", "side", "width">>})))
    \cup StdLogicTextIOHexadecimal
    \cup StdLogicTextIOOctal]

(* VHDLSemantics::getIeeeStdLogicUnsignedPackage *)

IeeeStdLogicUnsignedPackage == [name |-> "ieee_std_logic_unsigned", libraries |-> {}, declarations |->
         Functions({"_op_minus", "_op_mult", "_op_plus", "shl", "shr"}, {<<"LogicVector", "LogicVector">>},
             "LogicVector")
    \cup Functions({"conv_integer"}, {<<"LogicVector">>}, "Int")]

(* VHDLSemantics::getIeeeMathComplexPackage *)

IeeeMathComplexPackage == [name |-> "ieee_math_complex", libraries |-> {}, declarations |->
         Types({"complex", "complex_polar"}, "Record")
    \cup Constants({"cbase_1", "cbase_j", "czero"}, "complex")
    \cup Functions({"cabs", "carg"}, {<<"complex">>}, "Real")
    \cup Functions({"cexp", "conj"}, {<<"complex">>}, "complex")
    \cup Functions({"polar_to_complex"}, {<<"complex_polar">>}, "complex")
    \cup Functions({"conj"}, {<<"complex_polar">>}, "complex_polar")
    \cup Functions({"complex_to_polar"}, {<<"complex">>}, "complex_polar")
    \cup Functions({"csqrt"}, {<<"complex">>}, "complex_vector")
    \cup Using({"complex"}, Types({"complex_vector"}, "Array"))
    \cup WithDefaults(1, Functions({"cmplx"}, {<<"Real", "Real">>}, "complex"))]

(* VHDLSemantics::getTextIOPackage *)

TextIOReads ==
    Procedures({"read"}, {<<"line", "Bit">>, <<"line", "Bit", "Bool">>, <<"line", "BitVector">>,
        <<"line", "BitVector", "Bool">>, <<"line", "Bool">>, <<"line", "Bool", "Bool">>, <<"line", "Char">>,
        <<"line", "Char", "Bool">>, <<"line", "Int">>, <<"line", "Int", "Bool">>, <<"line", "Real">>,
        <<"line", "Real", "Bool">>, <<"line", "String">>, <<"line", "String", "Bool">>, <<"line", "Time">>,
        <<"line", "Time", "Bool">>})

TextIOWrites ==
         Procedures({"writeline"}, {<<"File", "line">>})
    \cup Functions({"endfile"}, {<<"File">>}, "Bool")
    \cup Using({"right"},
             WithDefaults(2,
                 Procedures({"write"}, {<<"line", "Bit", "side", "width">>,
                     <<"line", "BitVector", "side", "width">>, <<"line", "Bool", "side", "width">>,
                     <<"line", "Char", "side", "width">>, <<"line", "Int", "side", "width">>,
                     <<"line", "String", "side", "width">>})))
    \cup Using({"right"}, WithDefaults(3, Procedures({"write"}, {<<"line", "Real", "side", "width", "Int">>})))
    \cup From("standard", {"ns", "time_units"},
             Using({"right"},
                 WithDefaults(3, Procedures({"write"}, {<<"line", "Time", "side", "width", "time_units">>}))))

TextIOPackage == [name |-> "std_textio", libraries |-> {}, declarations |->
         Types({"line"}, "Pointer")
    \cup Types({"text"}, "File")
    \cup Enumeration("side", {"left", "right"})
    \cup Types({"width"}, "Int")
    \cup Constants({"input", "output"}, "text")
    \cup Procedures({"file_close"}, {<<"File">>})
    \cup Procedures({"read", "write"}, {<<"File", "Any">>})
    \cup Procedures({"readline"}, {<<"File", "line">>})
    \cup From("standard", {"file_open_kind", "read_mode"},
             WithDefaults(1,
                      Functions({"file_open"}, {<<"String", "file_open_kind">>}, "text")
    \cup Procedures({"file_open"}, {<<"File", "String", "file_open_kind">>})))
    \cup From("standard", {"file_open_kind", "file_open_status", "read_mode"},
             WithDefaults(1,
                 Procedures({"file_open"}, {<<"file_open_status", "File", "String", "file_open_kind">>})))
    \cup TextIOReads
    \cup TextIOWrites]

(* VHDLSemantics::getIeeeMathRealPackage *)

MathRealFunctions ==
         Functions({"arccos", "arccosh", "arcsin", "arcsinh", "arctanh", "cbrt", "ceil", "cos", "cosh", "exp",
             "floor", "log10", "log2", "round", "sign", "sin", "sinh", "sqrt", "tan", "tanh", "trunc"},
             {<<"Real">>}, "Real")
    \cup Functions({"realmax", "realmin"}, {<<"Real", "Real">>}, "Real")
    \cup Functions({"arctan", "log"}, {<<"Real">>, <<"Real", "Real">>}, "Real")
    \cup Procedures({"uniform"}, {<<"Any", "Any", "Real">>})
    \cup Functions({"srand"}, {<<"Int">>}, "Int")
    \cup Functions({"get_rand_max", "rand"}, {<<>>}, "Int")

IeeeMathRealPackage == [name |-> "ieee_math_real", libraries |-> {}, declarations |->
         Unprefixed(
        Constants({"math_1_over_e", "math_1_over_pi", "math_1_over_sqrt_2", "math_2_pi", "math_3_pi_over_2",
            "math_deg_to_rad", "math_e", "math_log10_of_e", "math_log2_of_e", "math_log_of_10",
            "math_log_of_2", "math_pi", "math_pi_over_2", "math_pi_over_3", "math_pi_over_4",
            "math_rad_to_deg", "math_sqrt_2", "math_sqrt_pi"}, "Real"))
    \cup MathRealFunctions]

(* VHDLSemantics::getPSLStandardPackage *)

PSLStandardPackage == [name |-> "psl_standard", libraries |-> {}, declarations |->
         Enumeration("psl_operators", {"psl_F", "psl_G", "psl_U", "psl_W", "psl_X", "psl_X!", "psl_abort",
             "psl_always", "psl_async_abort", "psl_at_clause", "psl_before", "psl_before!", "psl_before!_",
             "psl_before_", "psl_double_imply", "psl_eventually!", "psl_imply", "psl_never", "psl_next",
             "psl_next!", "psl_next_a", "psl_next_a!", "psl_next_e", "psl_next_e!", "psl_next_event",
             "psl_next_event!", "psl_next_event_a", "psl_next_event_a!", "psl_next_event_e",
             "psl_next_event_e!", "psl_sequence_double_imply", "psl_sequence_imply", "psl_sync_abort",
             "psl_until", "psl_until!", "psl_until!_", "psl_until_"})
    \cup Functions({"psl_fl_property"}, {<<"psl_operators", "Bool">>,
             <<"psl_operators", "Bool", "Bool", "Int">>, <<"psl_operators", "Bool", "Bool", "Int", "Int">>,
             <<"psl_operators", "Bool", "Int">>, <<"psl_operators", "Bool", "Int", "Int">>}, "Bool")
    \cup WithDefaults(1, Functions({"psl_assert"}, {<<"Bool", "String">>}, "Bool"))
    \cup Twice(Functions({"psl_fl_property"}, {<<"psl_operators", "Bool", "Bool">>}, "Bool"))]

(* The libraries getStandardLibrary knows, and those isNativeLibrary knows. *)

KnownLibraries == {StandardPackage, IeeeStdLogic1164Package, IeeeStdLogicArithPackage,
                    IeeeStdLogicArithExPackage, IeeeNumericStdPackage, IeeeNumericBitPackage,
                    IeeeStdLogicMiscPackage, IeeeStdLogicSignedPackage, IeeeStdLogicTextIOPackage,
                    IeeeStdLogicUnsignedPackage, IeeeMathComplexPackage, TextIOPackage, IeeeMathRealPackage,
                    PSLStandardPackage}
==============================================================================
