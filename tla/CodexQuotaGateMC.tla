---------------------------- MODULE CodexQuotaGateMC ----------------------------
(***************************************************************************)
(* Three calls, so that a fetch has a leader, a follower and a call that   *)
(* looked before it and leads after it; a limit that is brought down to    *)
(* 100, and readings on both sides of it and outside 0..100.               *)
(***************************************************************************)
EXTENDS CodexQuotaGate

MCReadings == {-5, 120}
================================================================================
