---------------------------- MODULE StoreBackendsMC ----------------------------
(***************************************************************************)
(* Two seeded providers and a third, two accounts, one proxy, one API      *)
(* key; rows and settings as a form or a JSON body may send them, before   *)
(* normalisation.                                                          *)
(***************************************************************************)
EXTENDS StoreBackends, TLC

Seed(k) == [proxyId |-> "", proxyUrl |-> "", models |-> <<"m", "m">>, hidden |-> <<>>,
            apiKey |-> k, keys |-> <<>>, strategy |-> "", sticky |-> 0]
MCIdOrder == <<"a", "b", "codex", "openai", "other", "px">>
MCSeedProviders == ("openai" :> Seed("k")) @@ ("codex" :> Seed(""))

Key(id, key) == [id |-> id, key |-> key, enabled |-> TRUE, priority |-> 0]
MCProviderInputs ==
    {<<"openai", [Seed("") EXCEPT !.proxyId = "px", !.proxyUrl = "own", !.models = <<"m", "", "n", "m">>,
                                  !.hidden = <<"n">>]>>,
     <<"other", [Seed("k") EXCEPT !.keys = <<Key("", "k1"), Key("key", "k2"), Key("x", "")>>,
                                  !.strategy = "round-robin"]>>}

Account(p, x) == [provider |-> p, auth |-> "?", proxyId |-> x, proxyUrl |-> "own", priority |-> -1,
                  quota |-> 120, streak |-> 0, cooldown |-> 0]
MCAccountInputs ==
    {<<"a", [Account("openai", "px") EXCEPT !.priority = 2]>>, <<"b", Account("openai", "")>>}
MCProxyInputs == {<<"px", [url |-> "u", enabled |-> e]>> : e \in BOOLEAN}
MCInvoiceInputs == {<<"i", [status |-> "?", amount |-> 2, tax |-> -1, total |-> 0]>>}

Policy(id) == [id |-> id, key |-> "k", maxRequests |-> -1, used |-> 5]
Default == DefaultSettings
Route(c) == [role |-> "r", complexity |-> c, risk |-> "low", target |-> "t"]
Combo == [name |-> "c", models |-> <<"m", "m", "">>, strategy |-> "?", sticky |-> 0, context |-> -1]
Router(n, routes) == [name |-> n, classifier |-> "m", routes |-> routes, fallback |-> "", fallbackRole |-> ""]
Expert(t) == [target |-> t, name |-> "", weight |-> -1]
FusionOf(es) == [name |-> "f", mode |-> "?", timeout |-> 0, maxOutput |-> 0, experts |-> es, minimum |-> 5]
Rule(n, on, open) == [name |-> n, main |-> "m", schema |-> 1, mode |-> "?",
    policies |-> <<"safety", "?", "safety">>,
    stages |-> [validatorOn |-> on, validator |-> "v", optimizerOn |-> TRUE, optimizer |-> "",
                optimizerOpen |-> FALSE, validatorOpen |-> open],
    limits |-> [optimizerMs |-> 0, mainMs |-> 999999, validatorMs |-> 5, patches |-> 0]]

MCSettingsInputs ==
    {[Default EXCEPT !.keep = 2, !.keys = <<Policy("id")>>],
     [Default EXCEPT !.keep = 0, !.keys = <<Policy("")>>],
     [Default EXCEPT !.keep = 1, !.combos = <<Combo, Combo, [Combo EXCEPT !.models = <<>>]>>,
                     !.routers = <<Router("x", <<Route("?"), Route("")>>), Router("y", <<>>)>>,
                     !.budget = [alert |-> 150, daily |-> -1],
                     !.debug = [maxBytes |-> 0, mask |-> FALSE]],
     [Default EXCEPT !.fusions = <<FusionOf(<<Expert("t"), Expert("f")>>)>>,
                     !.guardrails = <<Rule("g", TRUE, FALSE), Rule("h", FALSE, TRUE), Rule("m", TRUE, FALSE)>>,
                     !.prices = <<[provider |-> "", model |-> "m", context |-> -1]>>,
                     !.tokens = [minChars |-> 10, maxChars |-> 10, mode |-> "", compress |-> FALSE]]}

MCMaxCalls == [row |-> 3, settings |-> 2, log |-> 4, debug |-> 1, reset |-> 1, invoice |-> 2, restart |-> 1]

================================================================================
