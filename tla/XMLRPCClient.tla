---------------------------- MODULE XMLRPCClient ----------------------------
(***************************************************************************)
(* src/client/XMLRPCClient.cc: what one call to OpenNebula can come to,    *)
(* seen by the FaSS function that makes it.                                *)
(*   "ok"      oned answers [true, ...]                                    *)
(*   "refused" oned answers [false, message, code]                         *)
(*   "fault"   oned answers with an XML-RPC fault: call_async builds a     *)
(*             girerr::error and does not throw it, so the call returns    *)
(*             normally and its result was never assigned                  *)
(*   "error"   no answer (connection refused, timeout): the call throws    *)
(***************************************************************************)

Replies == {"ok", "refused", "fault", "error"}

\* The call throws an exception into its caller.
call_throws(reply) == reply = "error"

\* The call assigns its result; reading a result that it left unset throws.
result_set(reply) == reply \in {"ok", "refused"}

(* What a state-changing call did to the cloud.  After a timeout the       *)
(* request may have been executed or lost.                                 *)
effects(reply, before, after) ==
    IF reply = "ok" THEN {after}
    ELSE IF reply = "error" THEN {before, after}
    ELSE {before}
=============================================================================
