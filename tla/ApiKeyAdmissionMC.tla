--------------------------- MODULE ApiKeyAdmissionMC ---------------------------
(***************************************************************************)
(* One key, two handlers that serve request after request, and a dashboard *)
(* session, over two windows of the limiter.                               *)
(***************************************************************************)
EXTENDS ApiKeyAdmission, TLC

MCSymmetry == Permutations(Handlers)
================================================================================
