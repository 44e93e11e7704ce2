------------------------------- MODULE MCRPC --------------------------------
(***************************************************************************)
(* Instances of the RPC server for TLC.                                    *)
(***************************************************************************)
EXTENDS RPCProperties
=============================================================================
