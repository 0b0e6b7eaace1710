-------------------------- MODULE MCStandardSymbols --------------------------
(***************************************************************************)
(* Every symbol of every standard package of the three languages, used     *)
(* with every list of arguments it takes, brought into HIF and taken out   *)
(* to every language.                                                      *)
(***************************************************************************)
EXTENDS StandardSymbols

MCSourceLanguages == {"vhdl", "verilog", "systemc"}
MCDestinations == {"vhdl", "verilog", "systemc"}
==============================================================================
