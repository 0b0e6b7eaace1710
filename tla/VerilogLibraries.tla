------------------------------ MODULE VerilogLibraries -----------------------
(*****************************************************************************)
(* The standard libraries of Verilog and Verilog-AMS as                      *)
(* VerilogSemantics_methods.cpp builds them. The type Integer is the 32-bit  *)
(* signed logic vector of the source form and the integer of the HIF form.   *)
(*                                                                           *)
(* Every get...Package(hifFormat) function is one definition: the two forms  *)
(* it builds have the same declarations and differ in their names (see       *)
(* StandardLibraries).                                                       *)
(*****************************************************************************)
EXTENDS StandardLibraries

(* VerilogSemantics::getStandardPackage *)

StandardFiles ==
         AnyArguments({"_system_fdisplay", "_system_fmonitor", "_system_fmonitorb", "_system_fmonitorh",
             "_system_fmonitoro", "_system_fread", "_system_fscanf", "_system_fstrobe", "_system_fwrite"}, "-")
    \cup Procedures({"_system_fclose"}, {<<"Integer">>})
    \cup Functions({"_system_feof"}, {<<"Integer">>}, "Integer")
    \cup WithDefaults(1,
                  Procedures({"_system_fflush"}, {<<"Integer">>})
             \cup Functions({"_system_fopen"}, {<<"String", "String">>}, "Integer"))

StandardMemories ==
         WithDefaults(4,
             Procedures({"_system_readmemb", "_system_readmemh"},
                 {<<"String", "Array", "Integer", "Integer", "Integer", "Integer">>}))
    \cup WithDefaults(1,
             Procedures({"_system_finish", "_system_finish_hdtlib", "_system_stop", "_system_stop_hdtlib"},
                 {<<"LogicVector">>}))

StandardTime ==
         Functions({"_system_realtime"}, {<<>>}, "Real")
    \cup Functions({"_system_time", "_system_time_hdtlib"}, {<<>>}, "LogicVector")
    \cup Functions({"_system_stime", "_system_stime_hdtlib"}, {<<>>}, "SignedLogicVector")
    \cup Functions({"_system_clog2"}, {<<"Integer">>}, "Integer")
    \cup WithDefaults(1, Functions({"_system_random"}, {<<"Integer">>}, "Integer"))

StandardPackage == [name |-> "standard", libraries |-> {}, declarations |->
         Functions({"iterated_concat"}, {<<"LogicVector">>}, "LogicVector")
    \cup AnyArguments({"_system_display", "_system_monitor", "_system_monitorb", "_system_monitorh",
             "_system_monitoro", "_system_strobe", "_system_write"}, "-")
    \cup Procedures({"_system_monitoroff", "_system_monitoron"}, {<<>>})
    \cup StandardFiles
    \cup StandardMemories
    \cup StandardTime]

(* VerilogSemantics::getVAMSStandardPackage *)

VAMSMath ==
         WithDefaults(1,
             Functions({"abs", "acos", "acosh", "asin", "asinh", "atan", "atanh", "ceil", "cos", "cosh", "exp",
                 "floor", "ln", "log", "sin", "sinh", "sqrt", "tan", "tanh"}, {<<"Real">>}, "Real"))
    \cup WithDefaults(2, Functions({"atan2", "hypot", "max", "min"}, {<<"Real", "Real">>}, "Real"))

VAMSOperators ==
         WithDefaults(2, Functions({"ddt", "last_crossing"}, {<<"Real", "Real">>}, "Real"))
    \cup Functions({"ddx"}, {<<"Real", "Any">>}, "Real")
    \cup WithDefaults(4, Functions({"idt"}, {<<"Real", "Real", "Real", "Real">>}, "Real"))
    \cup WithDefaults(5,
             Functions({"idtmod", "transition"}, {<<"Real", "Real", "Real", "Real", "Real">>}, "Real"))
    \cup WithDefaults(3, Functions({"absdelay", "slew"}, {<<"Real", "Real", "Real">>}, "Real"))
    \cup WithDefaults(1, Functions({"limexp"}, {<<"Real">>}, "Real"))

VAMSFilters ==
    WithDefaults(4,
        Functions({"laplace_nd", "laplace_np", "laplace_zd", "laplace_zp", "zi_nd", "zi_np", "zi_zd", "zi_zp"},
            {<<"Real", "Array", "Array", "Real">>}, "Real"))

VAMSEvents ==
         WithDefaults(1,
                  Functions({"analysis"}, {<<"String">>}, "SignedLogicVector")
             \cup Functions({"noise_table"}, {<<"String">>}, "Real"))
    \cup WithDefaults(3,
                  Functions({"ac_stim"}, {<<"String", "Real", "Real">>}, "Real")
             \cup Functions({"flicker_noise"}, {<<"Real", "Real", "String">>}, "Real")
             \cup Functions({"above", "timer"}, {<<"Real", "Real", "Real", "Real">>}, "Event")
             \cup Functions({"absdelta"}, {<<"Real", "Real", "Real", "Real", "Real">>}, "Event"))
    \cup WithDefaults(2, Functions({"white_noise"}, {<<"Real", "String">>}, "Real"))
    \cup WithDefaults(4, Functions({"cross"}, {<<"Real", "Integer", "Real", "Real", "Real">>}, "Event"))

VAMSRandom ==
         AnyArguments({"_system_debug", "_system_error", "_system_fatal", "_system_fdebug", "_system_info",
             "_system_warning"}, "-")
    \cup Functions({"_system_abstime"}, {<<>>}, "Real")
    \cup WithDefaults(1,
                  Functions({"_system_arandom"}, {<<"Real", "String">>}, "Real")
             \cup Functions({"_system_rdist_chi_square", "_system_rdist_exponential", "_system_rdist_t"},
                      {<<"Real", "Real", "String">>}, "Real")
             \cup Functions({"_system_rdist_poisson"}, {<<"Real", "Real", "Real", "String">>,
                      <<"Real", "Real", "String">>}, "Real")
             \cup Functions({"_system_rdist_erlang", "_system_rdist_normal"},
                      {<<"Real", "Real", "Real", "String">>}, "Real"))

VAMSParameters ==
         AnyArguments({"_system_limit"}, "Real")
    \cup Functions({"_system_angle", "_system_hflip", "_system_mfactor", "_system_temperature",
             "_system_vflip", "_system_xposition", "_system_yposition"}, {<<>>}, "Real")
    \cup Functions({"_system_bound_step"}, {<<"Real">>}, "Real")
    \cup Functions({"_system_simparam_str"}, {<<"String">>}, "String")
    \cup WithDefaults(1,
                  Functions({"_system_discontinuity", "_system_vt"}, {<<"Real">>}, "Real")
             \cup Functions({"_system_simparam"}, {<<"String", "Real">>}, "Real")
             \cup Functions({"_system_simprobe"}, {<<"String", "String", "Real">>}, "Real"))

VAMSDrivers ==
         Functions({"_system_param_given", "_system_port_connected"}, {<<"String">>}, "Logic")
    \cup Functions({"_system_analog_node_alias", "_system_analog_port_alias"}, {<<"Real", "String">>}, "Logic")
    \cup Functions({"_system_driver_next_state", "_system_driver_state"}, {<<"Any", "Integer">>}, "Logic")
    \cup AnyArguments({"_system_table_model"}, "Real")
    \cup Functions({"_system_driver_delay"}, {<<"Any", "Real">>}, "Real")
    \cup Functions({"_system_driver_count"}, {<<"Any">>}, "Integer")
    \cup Functions({"_system_driver_next_strength", "_system_driver_type"}, {<<"Any", "Integer">>}, "Integer")
    \cup Functions({"_system_driver_strength"}, {<<"Any", "Integer">>}, "LogicVector")
    \cup Functions({"driver_update"}, {<<"Any">>}, "Event")

VAMSStandardPackage == [name |-> "vams_standard", libraries |-> {}, declarations |->
         Types({"ground"}, "Any")
    \cup Procedures({"vams_contribution_statement", "vams_indirect_contribution_statement"}, {<<"Any", "Any">>})
    \cup Functions({"vams_branch_port", "vams_flow_of_port"}, {<<"Any">>}, "Any")
    \cup Functions({"vams_branch"}, {<<"Any">>, <<"Any", "Any">>}, "Any")
    \cup Functions({"vams_branch"}, {<<"Any", "Array">>, <<"Array", "Any">>, <<"Array", "Array">>}, "Array")
    \cup AnyArguments({"final_step", "initial_step"}, "Logic")
    \cup VAMSMath
    \cup VAMSOperators
    \cup VAMSFilters
    \cup VAMSEvents
    \cup VAMSRandom
    \cup VAMSParameters
    \cup VAMSDrivers]

(* VerilogSemantics::getVAMSConstantsPackage *)

VAMSConstantsPackage == [name |-> "vams_constants", libraries |-> {}, declarations |->
         Constants({"M_1_PI", "M_2_PI", "M_2_SQRTPI", "M_E", "M_LN10", "M_LN2", "M_LOG10E", "M_LOG2E", "M_PI",
        "M_PI_2", "M_PI_4", "M_SQRT1_2", "M_SQRT2", "M_TWO_PI", "P_C", "P_CELSIUS0", "P_EPS0", "P_H", "P_K",
        "P_Q", "P_U0"}, "Real")]

(* VerilogSemantics::getVAMSDisciplinesPackage *)

Natures ==
         Using({"Charge"}, Units({"Current"}))
    \cup Using({"Current"}, Units({"Charge"}))
    \cup Using({"Flux"}, Units({"Voltage"}))
    \cup Using({"Voltage"}, Units({"Flux"}))
    \cup Units({"Force", "Magneto_Motive_Force", "Power", "Temperature"})
    \cup Using({"Velocity"}, Units({"Position"}))
    \cup Using({"Acceleration", "Position"}, Units({"Velocity"}))
    \cup Using({"Impulse", "Velocity"}, Units({"Acceleration"}))
    \cup Using({"Acceleration"}, Units({"Impulse"}))
    \cup Using({"Angular_Velocity"}, Units({"Angle"}))
    \cup Using({"Angle", "Angular_Acceleration"}, Units({"Angular_Velocity"}))

Disciplines ==
         Using({"Angular_Velocity"}, Units({"Angular_Acceleration"}))
    \cup Units({"Angular_Force"})
    \cup Types({"ams_ddiscrete", "ams_logic"}, "Logic")
    \cup Using({"Current", "Voltage"}, Units({"electrical"}))
    \cup Using({"Voltage"}, Units({"voltage"}))
    \cup Using({"Current"}, Units({"current"}))
    \cup Using({"Flux", "Magneto_Motive_Force"}, Units({"magnetic"}))
    \cup Using({"Power", "Temperature"}, Units({"thermal"}))
    \cup Using({"Force", "Position"}, Units({"kinematic"}))
    \cup Using({"Force", "Velocity"}, Units({"kinematic_v"}))
    \cup Using({"Angle", "Angular_Force"}, Units({"rotational"}))
    \cup Using({"Angular_Force", "Angular_Velocity"}, Units({"rotational_omega"}))

AccessFunctions ==
         Functions({"I"}, {<<"Current">>, <<"Current", "Current">>}, "Real")
    \cup Functions({"Q"}, {<<"Charge">>, <<"Charge", "Charge">>}, "Real")
    \cup Functions({"V"}, {<<"Voltage">>, <<"Voltage", "Voltage">>}, "Real")
    \cup Functions({"Phi"}, {<<"Flux">>, <<"Flux", "Flux">>}, "Real")
    \cup Functions({"MMF"}, {<<"Magneto_Motive_Force">>, <<"Magneto_Motive_Force", "Magneto_Motive_Force">>},
             "Real")
    \cup Functions({"Temp"}, {<<"Temperature">>, <<"Temperature", "Temperature">>}, "Real")
    \cup Functions({"Pwr"}, {<<"Power">>, <<"Power", "Power">>}, "Real")
    \cup Functions({"Pos"}, {<<"Position">>, <<"Position", "Position">>}, "Real")
    \cup Functions({"Vel"}, {<<"Velocity">>, <<"Velocity", "Velocity">>}, "Real")

MechanicalAccessFunctions ==
         Functions({"Acc"}, {<<"Acceleration">>, <<"Acceleration", "Acceleration">>}, "Real")
    \cup Functions({"Imp"}, {<<"Impulse">>, <<"Impulse", "Impulse">>}, "Real")
    \cup Functions({"F"}, {<<"Force">>, <<"Force", "Force">>}, "Real")
    \cup Functions({"Theta"}, {<<"Angle">>, <<"Angle", "Angle">>}, "Real")
    \cup Functions({"Omega"}, {<<"Angular_Velocity">>, <<"Angular_Velocity", "Angular_Velocity">>}, "Real")
    \cup Functions({"Alpha"}, {<<"Angular_Acceleration">>, <<"Angular_Acceleration", "Angular_Acceleration">>},
             "Real")
    \cup Functions({"Tau"}, {<<"Angular_Force">>, <<"Angular_Force", "Angular_Force">>}, "Real")

VAMSDisciplinesPackage == [name |-> "vams_disciplines", libraries |-> {}, declarations |->
    Natures \cup Disciplines \cup AccessFunctions \cup MechanicalAccessFunctions]

(* VerilogSemantics::getVAMSDriverAccessPackage *)

VAMSDriverAccessPackage == [name |-> "vams_driver_access", libraries |-> {}, declarations |->
         Unprefixed(
             Constants({"DRIVER_ACCESS_VAMS"}, "Integer")
    \cup Constants({"DRIVER_ASSIGN", "DRIVER_BEHAVIORAL", "DRIVER_DELAYED", "DRIVER_GATE", "DRIVER_KERNEL",
                 "DRIVER_NODELETE", "DRIVER_NOPREEMPT", "DRIVER_SDF", "DRIVER_UDP", "DRIVER_UNKNOWN",
                 "DRIVER_WAND", "DRIVER_WOR"}, "BitVector"))]

(* The libraries getStandardLibrary knows, and those isNativeLibrary knows. *)

KnownLibraries == {StandardPackage, VAMSStandardPackage, VAMSConstantsPackage, VAMSDisciplinesPackage,
                    VAMSDriverAccessPackage}
==============================================================================
