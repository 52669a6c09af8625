------------------------------- MODULE AsyncLogMC -------------------------------
(***************************************************************************)
(* Five logs against a channel of two and batches of up to three, so that  *)
(* the channel fills, batches of every size are written, and logs arrive   *)
(* after the shutdown began, on both stores.                               *)
(***************************************************************************)
EXTENDS AsyncLog
================================================================================
