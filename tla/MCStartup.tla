----------------------------- MODULE MCStartup ------------------------------
(***************************************************************************)
(* Instances of the start-up for TLC.                                      *)
(***************************************************************************)
EXTENDS StartupProperties

EveryFault == FaultNames
=============================================================================
