---------------------------- MODULE GatewayRequestsMC ----------------------------
(***************************************************************************)
(* The three parts of a request that share no state with one another: the  *)
(* keys of a provider, the stages of an orchestrated request, the events   *)
(* of a streamed answer.  A behaviour moves one of them.                   *)
(***************************************************************************)
EXTENDS KeyPool, Orchestration, Streams, TLC

VARIABLE part   \* the part that moves

parts == <<part, keyVars, orchestrationVars, streamVars>>

MCKeys == <<"k1", "k2", "k3">>
MCPriority == "k1" :> 2 @@ "k2" :> 1 @@ "k3" :> 1
MCKeyCooldowns == 401 :> {1} @@ 429 :> {1}

MCRows == <<[id |-> "p1", type |-> "openai", enabled |-> TRUE, models |-> <<"m1", "m2">>],
            [id |-> "p2", type |-> "openai", enabled |-> TRUE, models |-> <<"m2">>],
            [id |-> "cx", type |-> "codex", enabled |-> TRUE, models |-> <<"m3">>]>>

MCNames == {"m1", "m2", "m3", "p2/m1", "cx/", "cx", "combo", "guard", "guard2", "fused", "fused2", "routed", "routed2"}
MCSplit == [n \in MCNames |-> CASE n = "p2/m1" -> <<"p2", "m1">> [] n = "cx/" -> <<"cx", "">> [] OTHER -> <<"", n>>]
MCSmallContexts == {<<"p1", "m1">>}

MCCombos == "combo" :> [models |-> <<"m1", "m3">>, robin |-> TRUE, sticky |-> 2]

MCGuardrails ==
    "guard" :> [optimizer |-> "m3", optimizerOpen |-> TRUE, main |-> "combo",
                validator |-> "m1", validatorOpen |-> FALSE]
    @@ "guard2" :> [optimizer |-> "fused", optimizerOpen |-> FALSE, main |-> "m2",
                    validator |-> "", validatorOpen |-> TRUE]

MCFusions ==
    "fused" :> [experts |-> <<"combo", "combo", "m1">>, parallel |-> TRUE, min |-> 2,
                synthesizer |-> "combo", reviewer |-> "m2"]
    @@ "fused2" :> [experts |-> <<"routed", "combo">>, parallel |-> FALSE, min |-> 0,
                    synthesizer |-> "m3", reviewer |-> ""]

PromptRoute(role, complexity, risk, target) ==
    [role |-> role, complexity |-> complexity, risk |-> risk, target |-> target]

MCRouters ==
    "routed" :> [classifier |-> "m1", fallbackTarget |-> "", fallbackRole |-> "",
                 routes |-> <<PromptRoute("code", "high", "", "combo"), PromptRoute("code", "", "", "p2/m1")>>]
    @@ "routed2" :> [classifier |-> "combo", fallbackTarget |-> "m1", fallbackRole |-> "other",
                     routes |-> <<PromptRoute("text", "", "high", "m2")>>]

Symmetric == Permutations(Calls) \cup Permutations(Tasks)

Init ==
    /\ part \in {"keys", "orchestration", "stream"}
    /\ KeyInit /\ OrchestrationInit /\ StreamInit
    /\ part # "keys" => provider.strategy = "fill-first"
    /\ part # "stream" => route = "passthrough"

Next ==
    /\ \/ part = "keys" /\ KeyNext /\ UNCHANGED <<orchestrationVars, streamVars>>
       \/ part = "orchestration" /\ OrchestrationNext /\ UNCHANGED <<keyVars, streamVars>>
       \/ part = "stream" /\ StreamNext /\ UNCHANGED <<keyVars, orchestrationVars>>
    /\ UNCHANGED part

Spec == Init /\ [][Next]_parts
================================================================================
