------------------------------ MODULE SystemCLibraries -----------------------
(*****************************************************************************)
(* The libraries of C, C++ and SystemC as SystemCSemantics_methods.cpp       *)
(* builds them.                                                              *)
(*                                                                           *)
(* Every get...Package(hifFormat) function is one definition: the two forms  *)
(* it builds have the same declarations and differ in their names (see       *)
(* StandardLibraries).                                                       *)
(*****************************************************************************)
EXTENDS StandardLibraries

(* SystemCSemantics::getScAmsELNPackage *)

ScAmsPassive ==
         Units({"scams_electrical"})
    \cup Types({"sca_node", "sca_node_ref", "sca_terminal"}, "scams_electrical")
    \cup Using({"sca_terminal"}, Units({"sca_c", "sca_l", "sca_r"}))

ScAmsControlledSources ==
    Using({"sca_terminal"}, Units({"sca_cccs", "sca_ccvs", "sca_vccs", "sca_vcvs"}))

ScAmsSources ==
    Using({"sca_terminal"}, Units({"sca_de_isource", "sca_de_vsource", "sca_isource", "sca_vsource"}))

ScAmsELNPackage == [name |-> "sca_eln", libraries |-> {"sc_core"}, declarations |->
    ScAmsPassive \cup ScAmsControlledSources \cup ScAmsSources]

(* SystemCSemantics::getTlmUtils *)

TlmUtilsPackage == [name |-> "tlm_utils", libraries |-> {}, declarations |->
         Units({"tlm_quantumkeeper"})]

(* SystemCSemantics::getScDtPackage *)

ScDtPackage == [name |-> "sc_dt", libraries |-> {}, declarations |->
         Functions({"is_01"}, {<<>>}, "Bool")]

(* SystemCSemantics::getScCorePackage *)

ScCoreMethods ==
         Using({"SC_ZERO_TIME", "sc_time_unit"}, Units({"sc_clock"}))
    \cup Functions({"event", "to_bool"}, {<<>>}, "Bool")
    \cup Functions({"negedge_event", "posedge_event", "value_changed_event"}, {<<>>}, "Event")
    \cup Functions({"to_string"}, {<<>>}, "String")
    \cup Functions({"to_int", "to_int64"}, {<<>>}, "Int")
    \cup Functions({"to_uint", "to_uint64"}, {<<>>}, "UInt")
    \cup Functions({"to_char"}, {<<>>}, "Char")
    \cup Functions({"and_reduce", "nand_reduce", "nor_reduce", "or_reduce", "xnor_reduce", "xor_reduce"},
             {<<>>}, "sc_logic_value_t")

ScCoreSimulation ==
         Procedures({"sc_start"}, {<<>>, <<"Real">>, <<"Real", "sc_time_unit">>, <<"Time">>,
             <<"sc_clock", "Real", "sc_time_unit">>, <<"sc_clock", "Time">>})
    \cup Procedures({"sc_stop"}, {<<>>})
    \cup Procedures({"sc_close_vcd_trace_file"}, {<<"sc_trace_file">>})
    \cup Procedures({"sc_trace"}, {<<"sc_trace_file", "Any", "String">>})
    \cup Units({"sc_trace_file"})
    \cup Functions({"sc_create_vcd_trace_file"}, {<<"String">>}, "sc_trace_file")
    \cup WithDefaults(1, Procedures({"sc_start"}, {<<"sc_clock", "Real">>}))
    \cup Using({"SC_DO_NOTHING", "sc_actions", "sc_severity"}, Units({"sc_report_handler"}))

ScCorePackage == [name |-> "sc_core", libraries |-> {}, declarations |->
         Enumeration("sc_time_unit", {"SC_FS", "SC_MS", "SC_NS", "SC_PS", "SC_SEC", "SC_US"})
    \cup Enumeration("sc_logic_value_t", {"Log_0", "Log_1", "Log_X", "Log_Z"})
    \cup Enumeration("sc_severity", {"SC_ERROR", "SC_FATAL", "SC_INFO", "SC_MAX_SEVERITY", "SC_WARNING"})
    \cup Enumeration("sc_actions", {"SC_ABORT", "SC_CACHE_REPORT", "SC_DISPLAY", "SC_DO_NOTHING",
             "SC_INTERRUPT", "SC_LOG", "SC_STOP", "SC_THROW", "SC_UNSPECIFIED"})
    \cup Constants({"SC_ZERO_TIME"}, "Time")
    \cup Functions({"sc_get_time_resolution", "sc_time_stamp"}, {<<>>}, "Time")
    \cup Procedures({"sc_set_time_resolution"}, {<<"Real", "sc_time_unit">>})
    \cup Functions({"to_default_time_units", "to_double", "to_seconds"}, {<<>>}, "Real")
    \cup Functions({"read"}, {<<>>}, "Any")
    \cup Functions({"range"}, {<<"Int", "Int">>}, "ULogicVector")
    \cup Functions({"range"}, {<<"Int", "Int">>}, "BitVector")
    \cup WithDefaults(1, Procedures({"notify"}, {<<"Time">>}))
    \cup ScCoreMethods
    \cup ScCoreSimulation]

(* SystemCSemantics::getTlmPackage *)

TlmPayload ==
         Using({"tlm_command", "tlm_response_status"}, Units({"tlm_generic_payload"}))
    \cup Using({"tlm_generic_payload", "tlm_phase", "tlm_sync_enum"},
        Units({"tlm_initiator_socket", "tlm_target_socket"}))

TlmPackage == [name |-> "tlm", libraries |-> {"sc_core"}, declarations |->
         Enumeration("tlm_command", {"TLM_IGNORE_COMMAND", "TLM_READ_COMMAND", "TLM_WRITE_COMMAND"})
    \cup Enumeration("tlm_response_status", {"TLM_ADDRESS_ERROR_RESPONSE", "TLM_BURST_ERROR_RESPONSE",
             "TLM_BYTE_ENABLE_ERROR_RESPONSE", "TLM_COMMAND_ERROR_RESPONSE", "TLM_GENERIC_ERROR_RESPONSE",
             "TLM_INCOMPLETE_RESPONSE", "TLM_OK_RESPONSE"})
    \cup Enumeration("tlm_sync_enum", {"TLM_ACCEPTED", "TLM_COMPLETED", "TLM_UPDATED"})
    \cup Enumeration("tlm_phase", {"BEGIN_REQ", "BEGIN_RESP", "END_REQ", "END_RESP", "UNINITIALIZED_PHASE"})
    \cup Types({"tlm_dmi"}, "Int")
    \cup Units({"tlm_bw_transport_if", "tlm_fw_transport_if"})
    \cup TlmPayload]

(* SystemCSemantics::getCMathPackage *)

CMathPackage == [name |-> "cmath", libraries |-> {}, declarations |->
         Functions({"abs", "acos", "acosh", "asin", "asinh", "atan", "atanh", "cbrt", "ceil", "cos", "cosh",
             "exp", "floor", "log", "log10", "log2", "round", "sin", "sinh", "sqrt", "tan", "tanh", "trunc"},
             {<<"Real">>}, "Real")
    \cup Functions({"atan2", "fmax", "fmin", "pow"}, {<<"Real", "Real">>}, "Real")]

(* SystemCSemantics::getCTimePackage *)

CTimePackage == [name |-> "ctime", libraries |-> {}, declarations |->
         Types({"clock_t", "time_t", "tm"}, "Record")
    \cup Types({"size_t"}, "UInt")
    \cup Constants({"CLOCKS_PER_SEC"}, "clock_t")
    \cup Functions({"clock"}, {<<>>}, "clock_t")
    \cup Functions({"difftime"}, {<<"time_t", "time_t">>}, "Real")
    \cup Functions({"time"}, {<<"Pointer">>}, "time_t")
    \cup Using({"tm"},
                  Functions({"mktime"}, {<<"Pointer">>}, "time_t")
    \cup Functions({"asctime", "ctime", "gmtime", "localtime"}, {<<"Pointer">>}, "Pointer")
    \cup Functions({"strftime"}, {<<"Pointer", "size_t", "Pointer", "Pointer">>}, "size_t"))]

(* SystemCSemantics::getCStdLibPackage *)

CStdLibPackage == [name |-> "cstdlib", libraries |-> {}, declarations |->
         Constants({"EXIT_FAILURE", "EXIT_SUCCESS"}, "Int")
    \cup Functions({"abs", "srand"}, {<<"Int">>}, "Int")
    \cup Functions({"rand"}, {<<>>}, "Int")
    \cup Procedures({"abort"}, {<<>>})
    \cup Procedures({"free"}, {<<"Any">>})
    \cup WithDefaults(1, Procedures({"exit"}, {<<"Int">>}))
    \cup From("standard", {"void"}, Functions({"malloc"}, {<<"Int">>}, "Pointer"))]

(* SystemCSemantics::getVectorPackage *)

VectorPackage == [name |-> "vector", libraries |-> {}, declarations |->
         Units({"vector"})]

(* SystemCSemantics::getStringPackage *)

StringPackage == [name |-> "string", libraries |-> {}, declarations |->
         Functions({"c_str"}, {<<>>}, "Pointer")
    \cup Functions({"size"}, {<<>>}, "UInt")
    \cup Functions({"replace"}, {<<"Int", "Int", "String">>}, "String")
    \cup Functions({"hifConstructor"}, {<<"Pointer">>}, "String")
    \cup WithDefaults(1, Functions({"substr"}, {<<"Int", "Int">>}, "String"))]

(* SystemCSemantics::getCStringPackage *)

CStringPackage == [name |-> "cstring", libraries |-> {}, declarations |->
         Types({"size_t"}, "UInt")
    \cup Functions({"strlen"}, {<<"Pointer">>}, "size_t")
    \cup Functions({"strcmp"}, {<<"Pointer", "Pointer">>}, "Int")
    \cup Functions({"strcpy"}, {<<"Pointer", "Pointer">>}, "Pointer")]

(* SystemCSemantics::getCStdDefPackage *)

CStdDefPackage == [name |-> "cstddef", libraries |-> {}, declarations |-> {}]

(* SystemCSemantics::getCStdIOPackage *)

CStdIOPackage == [name |-> "cstdio", libraries |-> {}, declarations |->
         Constants({"stderr", "stdin", "stdout"}, "Pointer")
    \cup AnyArguments({"fprintf", "fscanf", "printf", "scanf"}, "Int")
    \cup Functions({"fclose", "feof", "fflush", "fileno"}, {<<"Pointer">>}, "Int")
    \cup Functions({"fdopen"}, {<<"Int", "String">>}, "Pointer")
    \cup Functions({"fopen"}, {<<"String", "String">>}, "Pointer")]

(* SystemCSemantics::getSystemcExtensionsPackage *)

ExtensionAssignments ==
         WithDefaults(5, Procedures({"hif_assign"}, {<<"Any", "Any", "UInt", "UInt", "UInt", "UInt", "UInt">>}))
    \cup Functions({"hif_lastValue", "hif_lastValue_var"}, {<<"Any", "Any", "Any">>}, "Any")
    \cup Functions({"hif_sxt"}, {<<"Any">>}, "ULogicVector")
    \cup Functions({"hif__op_ge", "hif__op_gt", "hif__op_le", "hif__op_lt"}, {<<"ULogic", "ULogic">>}, "ULogic")
    \cup Functions({"hif__op_ge_signed", "hif__op_gt_signed", "hif__op_le_signed", "hif__op_lt_signed"},
             {<<"SignedULogicVector", "SignedULogicVector">>}, "ULogic")
    \cup Functions({"hif__op_ge_unsigned", "hif__op_gt_unsigned", "hif__op_le_unsigned",
             "hif__op_lt_unsigned"}, {<<"ULogicVector", "ULogicVector">>}, "ULogic")

ExtensionComparisons ==
         Functions({"hif_arrayEquals"}, {<<"Any", "Any">>}, "Bool")
    \cup Functions({"hif_op_shift_left", "hif_op_shift_right_arith", "hif_op_shift_right_logic"},
             {<<"Any", "Any">>}, "Any")
    \cup Functions({"hif_reverse"}, {<<"Any">>}, "Any")
    \cup Procedures({"hif_after"}, {<<"Any", "Any", "Time">>})
    \cup Procedures({"hif_setResourcePath"}, {<<"String">>})
    \cup Functions({"hif_vector_slice"}, {<<"Array", "Int", "Int">>}, "Array")
    \cup Functions({"hif_getResourcePath"}, {<<>>}, "String")
    \cup Functions({"hif_getResourceFileName"}, {<<"String">>}, "String")
    \cup WithDefaults(1,
                  Functions({"hif_logicEquals", "hif_logicEquals_hdtlib"}, {<<"Any", "Any", "Bool">>}, "Logic")
             \cup Functions({"hif_caseXZ"}, {<<"Any", "Any", "Bool", "Bool">>}, "Bool"))

SystemcExtensionsPackage == [name |-> "hif_systemc_extensions", libraries |-> {}, declarations |->
         Functions({"hif_equals"}, {<<"Any", "Any">>}, "Bool")
    \cup Functions({"hif_xorrd"}, {<<"Any">>}, "Bool")
    \cup Functions({"hif_mod"}, {<<"Int", "Int">>}, "Int")
    \cup Units({"ArrayConcat", "HifAggregateArray", "HifAggregateBitVector", "HifAggregateHlBv",
             "HifAggregateHlLv", "HifAggregateLogicVector"})
    \cup ExtensionAssignments
    \cup ExtensionComparisons]

(* SystemCSemantics::getHdtlibPackage *)

HdtlibPackage == [name |-> "hdtlib", libraries |-> {"sc_core"}, declarations |->
         Functions({"range"}, {<<"Int", "Int">>}, "ULogicVector")
    \cup Functions({"range"}, {<<"Int", "Int">>}, "BitVector")
    \cup Procedures({"set_bit"}, {<<"Int", "Bit">>, <<"Int", "Logic">>})
    \cup Procedures({"set_range"}, {<<"Int", "Int", "BitVector">>, <<"Int", "Int", "ULogicVector">>})]

(* SystemCSemantics::getIOStreamPackage *)

IOStreamPackage == [name |-> "iostream", libraries |-> {}, declarations |->
         Using({"ostream"}, Units({"ostream"}))
    \cup Constants({"cerr", "clog", "cout"}, "ostream")
    \cup Constants({"endl"}, "Char")]

(* SystemCSemantics::getDdtClibPackage *)

DdtClibPackage == [name |-> "ddtclib", libraries |-> {}, declarations |->
         Functions({"getMask", "getMask0", "signExtend"}, {<<"UInt", "UInt">>}, "UInt")
    \cup Functions({"getSignedMask"}, {<<"Int", "UInt">>}, "UInt")
    \cup Functions({"memberAssign"}, {<<"UInt", "UInt", "Bool">>}, "UInt")
    \cup Functions({"memberAssign2"}, {<<"UInt", "UInt", "UInt", "UInt">>}, "UInt")
    \cup Functions({"arrayToUintAssign"}, {<<"Pointer", "UInt">>}, "UInt")
    \cup Functions({"aggregateToUint"}, {<<"Bool", "UInt">>}, "UInt")
    \cup Procedures({"uintToArrayAssign"}, {<<"Pointer", "UInt", "UInt", "UInt", "UInt">>})
    \cup Procedures({"arrayArrayBoolToArrayIntAssign", "arrayArrayBoolToArrayUintAssign",
             "arrayUintToArrayArrayBoolAssign"}, {<<"Any", "Any", "UInt", "UInt">>})
    \cup Functions({"arrayToIntAssign"}, {<<"Pointer", "UInt">>}, "Int")
    \cup Functions({"andReduce", "orReduce", "xorReduce"}, {<<"UInt", "UInt">>}, "Bool")]

(* SystemCSemantics::getStandardPackage *)

StandardPackage == [name |-> "standard", libraries |-> {}, declarations |->
         Functions({"new"}, {<<>>, <<"Any">>}, "Pointer")
    \cup Procedures({"delete"}, {<<"Pointer">>})
    \cup Procedures({"hifDestructor"}, {<<>>})
    \cup Units({"void"})
    \cup Types({"size_t"}, "UInt")
    \cup Functions({"sizeof"}, {<<"Any">>}, "size_t")
    \cup Functions({"hifConstructor"}, {<<>>}, "Any")]

(* SystemCSemantics::getNewPackage *)

NewPackage == [name |-> "new", libraries |-> {}, declarations |->
         Functions({"placement_new"}, {<<"Any">>, <<"Any", "Any">>}, "Pointer")]

(* SystemCSemantics::getSystemVueModelBuilder *)

SystemVueModelBuilderPackage == [name |-> "SystemVueModelBuilder", libraries |-> {}, declarations |->
         Procedures({"ADD_MODEL_INPUT", "ADD_MODEL_OUTPUT", "DECLARE_MODEL_INTERFACE"}, {<<"Any">>})
    \cup Units({"DFModel"})]

(* The libraries getStandardLibrary knows, and those isNativeLibrary knows. *)

KnownLibraries == {ScAmsELNPackage, TlmUtilsPackage, ScDtPackage, ScCorePackage, TlmPackage, CMathPackage,
                    CTimePackage, CStdLibPackage, VectorPackage, StringPackage, CStringPackage, CStdDefPackage,
                    CStdIOPackage, SystemcExtensionsPackage, HdtlibPackage, IOStreamPackage, DdtClibPackage,
                    StandardPackage, NewPackage, SystemVueModelBuilderPackage}
==============================================================================
