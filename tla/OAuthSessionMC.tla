----------------------------- MODULE OAuthSessionMC -----------------------------
(***************************************************************************)
(* Instance of OAuthSession: one provider with one account.                *)
(***************************************************************************)
EXTENDS OAuthSession, TLC

MCProviders == <<"p1">>
MCHome == [a \in Accounts |-> "p1"]
MCRepetitions == 429 :> 2 @@ 503 :> 1
================================================================================
