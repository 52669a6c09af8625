------------------------------- MODULE StoreRows -------------------------------
(***************************************************************************)
(* The rows both stores keep, and the normalisation a row goes through on  *)
(* its way in and again when it is read back (internal/store/store.go).    *)
(* Trimming, letter case, dates and the fields no branch looks at are left *)
(* out; the empty string stands for a missing value.                       *)
(***************************************************************************)
EXTENDS Integers, Sequences, FiniteSets

CONSTANTS
    SeedProviders,      \* provider id -> row of a first start
    IdOrder             \* every id a row can have, in the order of their bytes

\* A table is a function from the ids of its rows.
Empty == [x \in {} |-> x]
Put(table, id, row) == [x \in DOMAIN table \cup {id} |-> IF x = id THEN row ELSE table[x]]
Drop(table, ids) == [x \in DOMAIN table \ ids |-> table[x]]

(***************************************************************************)
(* Lists that a loop builds, and lists that are sorted.                    *)
(***************************************************************************)
\* A set in the order of a relation: the i-th member has i - 1 before it.
Sorted(ids, before) ==
    [i \in 1..Cardinality(ids) |->
        CHOOSE x \in ids : Cardinality({y \in ids : <<y, x>> \in before}) = i - 1]

\* The items at the indices in "at", in their order.
ItemsAt(items, at) ==
    LET order == Sorted(at, {p \in at \X at : p[1] < p[2]})
    IN  [k \in 1..Len(order) |-> items[order[k]]]

Only(items, Valid(_)) == ItemsAt(items, {i \in 1..Len(items) : Valid(items[i])})

\* The items that are valid, the first of each name only.
FirstOfEach(items, Name(_), Valid(_)) ==
    ItemsAt(items, {i \in 1..Len(items) :
        /\ Valid(items[i])
        /\ \A j \in 1..(i - 1) : Valid(items[j]) => Name(items[j]) # Name(items[i])})

Each(F(_), items) == [i \in 1..Len(items) |-> F(items[i])]

Ids == {IdOrder[i] : i \in 1..Len(IdOrder)}
Place == [x \in Ids |-> CHOOSE i \in 1..Len(IdOrder) : IdOrder[i] = x]
ById(ids) == Sorted(ids, {p \in ids \X ids : Place[p[1]] < Place[p[2]]})

\* Rows with their ids, as a list of ids says.
Listed(ids, Get(_)) == Each(LAMBDA x : [id |-> x, row |-> Get(x)], ids)

(***************************************************************************)
(* Values as their Go types have them.                                     *)
(***************************************************************************)
APIKeyPolicies == [id : STRING, key : STRING, maxRequests : Int, used : Int]
ModelPriceRules == [provider : STRING, model : STRING, context : Int]
Combos == [name : STRING, models : Seq(STRING), strategy : STRING, sticky : Int, context : Int]
PromptRoutes == [role : STRING, complexity : STRING, risk : STRING, target : STRING]
PromptRouters == [name : STRING, classifier : STRING, routes : Seq(PromptRoutes),
                  fallback : STRING, fallbackRole : STRING]
FusionExperts == [target : STRING, name : STRING, weight : Int]
Fusions == [name : STRING, mode : STRING, timeout : Int, maxOutput : Int,
            experts : Seq(FusionExperts), minimum : Int]
GuardrailStages == [validatorOn : BOOLEAN, validator : STRING, optimizerOn : BOOLEAN,
                    optimizer : STRING, optimizerOpen : BOOLEAN, validatorOpen : BOOLEAN]
GuardrailLimits == [optimizerMs : Int, mainMs : Int, validatorMs : Int, patches : Int]
Guardrails == [name : STRING, main : STRING, schema : Int, mode : STRING, policies : Seq(STRING),
               stages : GuardrailStages, limits : GuardrailLimits]
Budgets == [alert : Int, daily : Int]
DebugSettings == [maxBytes : Int, mask : BOOLEAN]
TokenSettings == [minChars : Int, maxChars : Int, mode : STRING, compress : BOOLEAN]
Settings == [keep : Int, keys : Seq(APIKeyPolicies), prices : Seq(ModelPriceRules),
             combos : Seq(Combos), routers : Seq(PromptRouters), fusions : Seq(Fusions),
             guardrails : Seq(Guardrails), budget : Budgets, debug : DebugSettings,
             tokens : TokenSettings]

\* Keys of a provider, with ids of a set.
ProviderKeys(ids) == [id : ids, key : STRING, enabled : BOOLEAN, priority : Int]
Providers(ids) == [proxyId : STRING, proxyUrl : STRING, models : Seq(STRING), hidden : Seq(STRING),
                   apiKey : STRING, keys : Seq(ProviderKeys(ids)), strategy : STRING, sticky : Int]
ProviderAccounts == [provider : STRING, auth : STRING, proxyId : STRING, proxyUrl : STRING,
                     priority : Int, quota : Int, streak : Int, cooldown : Int]
Invoices == [status : STRING, amount : Int, tax : Int, total : Int]

ASSUME IdsAssumption ==
    /\ IdOrder \in Seq(STRING)
    /\ \A i, j \in 1..Len(IdOrder) : IdOrder[i] = IdOrder[j] => i = j

\* The seeds come from the environment, which names one key at most.
ASSUME SeedsAssumption ==
    /\ DOMAIN SeedProviders \subseteq Ids
    /\ \A p \in DOMAIN SeedProviders :
          SeedProviders[p] \in Providers(STRING) /\ SeedProviders[p].keys = <<>>

\* Range checks shared by the normalisers.
AtLeast(low, n) == IF n < low THEN low ELSE n
AtMost(high, n) == IF n > high THEN high ELSE n
OrElse(fallback, n) == IF n <= 0 THEN fallback ELSE n
Among(allowed, fallback, v) == IF v \in allowed THEN v ELSE fallback

NormalizeModels(models) ==
    FirstOfEach(models, LAMBDA m : m, LAMBDA m : m # "")

(***************************************************************************)
(* Virtual models in the settings.                                         *)
(***************************************************************************)
NormalizeCombo(c) ==
    [c EXCEPT !.models = NormalizeModels(@),
              !.strategy = Among({"round-robin"}, "fallback", @),
              !.sticky = OrElse(1, @),
              !.context = AtLeast(0, @)]

NormalizeCombos(items) ==
    FirstOfEach(Each(NormalizeCombo, items), LAMBDA c : c.name,
                LAMBDA c : c.name # "" /\ c.models # <<>>)

Level(v) == Among({"low", "medium", "high"}, "", v)

NormalizeRoute(r) == [r EXCEPT !.complexity = Level(@), !.risk = Level(@)]

NormalizeRoutes(routes) ==
    FirstOfEach(Each(NormalizeRoute, routes), LAMBDA r : <<r.role, r.complexity, r.risk>>,
                LAMBDA r : r.role # "" /\ r.target # "")

\* The first route is the default.
NormalizePromptRouter(r) ==
    LET routes == NormalizeRoutes(r.routes)
    IN  [r EXCEPT !.routes = routes,
                  !.fallback = IF @ = "" /\ routes # <<>> THEN routes[1].target ELSE @,
                  !.fallbackRole = IF @ = "" /\ routes # <<>> THEN routes[1].role ELSE @]

\* A router without a usable route is dropped.
NormalizePromptRouters(items) ==
    FirstOfEach(Each(NormalizePromptRouter, items), LAMBDA r : r.name,
                LAMBDA r : r.name # "" /\ r.classifier # "" /\ r.routes # <<>>)

\* An expert is named after its target.
NormalizeExpert(e) == [e EXCEPT !.name = IF @ = "" THEN e.target ELSE @, !.weight = AtLeast(0, @)]

NormalizeFusion(f) ==
    LET experts == Each(NormalizeExpert, Only(f.experts, LAMBDA e : e.target \notin {"", f.name}))
    IN  [f EXCEPT !.mode = Among({"sequential"}, "parallel", @),
                  !.timeout = OrElse(120000, @),
                  !.maxOutput = AtLeast(0, @),
                  !.experts = experts,
                  !.minimum = AtMost(Len(experts), AtLeast(0, @))]

NormalizeFusions(items) ==
    FirstOfEach(Each(NormalizeFusion, items), LAMBDA f : f.name, LAMBDA f : f.name # "")

Policies == {"safety", "quality", "format", "privacy"}

NormalizePolicies(items) ==
    LET known == FirstOfEach(items, LAMBDA p : p, LAMBDA p : p \in Policies)
    IN  IF known = <<>> THEN <<"safety", "quality", "format", "privacy">> ELSE known

NormalizeTimeout(fallback, ms) == AtMost(180000, OrElse(fallback, ms))

\* A rule of before the stage toggles always validated.
WithValidator(g) == [g EXCEPT !.stages.validatorOn = @ \/ g.schema <= 0]

GuardrailValid(g) ==
    /\ g.name # "" /\ g.main # "" /\ g.name # g.main
    /\ g.stages.validatorOn => g.stages.validator \notin {"", g.name}
    /\ g.stages.optimizerOn => g.stages.optimizer # g.name

\* Neither stage failing open is read as "not set": both then do.
NormalizeStages(t) ==
    [t EXCEPT !.optimizerOn = @ /\ t.optimizer # "",
              !.optimizerOpen = @ \/ ~t.validatorOpen,
              !.validatorOpen = @ \/ ~t.optimizerOpen]

NormalizeLimits(l) ==
    [l EXCEPT !.optimizerMs = NormalizeTimeout(30000, @),
              !.mainMs = NormalizeTimeout(120000, @),
              !.validatorMs = NormalizeTimeout(30000, @),
              !.patches = AtMost(1024, OrElse(128, @))]

NormalizeGuardrail(g) ==
    [g EXCEPT !.schema = 1, !.mode = Among({"buffered"}, "stream", @),
              !.policies = NormalizePolicies(@),
              !.stages = NormalizeStages(@), !.limits = NormalizeLimits(@)]

NormalizeGuardrails(items) ==
    Each(NormalizeGuardrail,
         FirstOfEach(Each(WithValidator, items), LAMBDA g : g.name, GuardrailValid))

(***************************************************************************)
(* API keys, prices, budget, debug capture and the token optimiser.        *)
(***************************************************************************)
NormalizeAPIKeyPolicy(k) == [k EXCEPT !.id = IF @ = "" THEN k.key ELSE @, !.maxRequests = AtLeast(0, @)]

NormalizeAPIKeyPolicies(items) ==
    Each(NormalizeAPIKeyPolicy, Only(items, LAMBDA k : k.id # "" \/ k.key # ""))

\* The usage of a key is the stored one whatever the writer sends (the last
\* stored entry of an id counts).
WithUsage(k, current) ==
    LET same == {i \in 1..Len(current) : current[i].id = k.id}
    IN  IF same = {} THEN k
        ELSE [k EXCEPT !.used = current[CHOOSE i \in same : \A j \in same : j <= i].used]

PreserveAPIKeyUsage(items, current) == Each(LAMBDA k : WithUsage(k, current), items)

NormalizePriceRule(p) == [p EXCEPT !.context = AtLeast(0, @)]

NormalizeModelPriceRules(items) ==
    Each(NormalizePriceRule, Only(items, LAMBDA p : p.provider # "" \/ p.model # ""))

NormalizeBudgetSettings(b) ==
    [b EXCEPT !.alert = AtMost(100, OrElse(80, @)), !.daily = AtLeast(0, @)]

\* Without a size limit the secrets are masked as well.
NormalizeDebugSettings(d) ==
    [d EXCEPT !.maxBytes = AtMost(524288, OrElse(131072, @)),
              !.mask = @ \/ d.maxBytes <= 0]

\* With no mode chosen and nothing switched on, everything is compressed.
NormalizeTokenOptimizationSettings(t) ==
    [t EXCEPT !.minChars = AtLeast(1000, OrElse(12000, @)),
              !.maxChars = AtMost(131072, AtLeast(2000, OrElse(12000, @))),
              !.mode = Among({"full", "per-type"}, "preview", @),
              !.compress = @ \/ t.mode = ""]

KeepLogs(keep) == OrElse(200, keep)

NormalizeLists(s) ==
    [s EXCEPT !.keep = KeepLogs(@),
              !.prices = NormalizeModelPriceRules(@),
              !.combos = NormalizeCombos(@),
              !.routers = NormalizePromptRouters(@),
              !.fusions = NormalizeFusions(@),
              !.guardrails = NormalizeGuardrails(@),
              !.budget = NormalizeBudgetSettings(@),
              !.debug = NormalizeDebugSettings(@),
              !.tokens = NormalizeTokenOptimizationSettings(@)]

NormalizeSettings(s) == [NormalizeLists(s) EXCEPT !.keys = NormalizeAPIKeyPolicies(@)]

DefaultSettings ==
    [keep |-> 1000, keys |-> <<>>, prices |-> <<>>, combos |-> <<>>, routers |-> <<>>,
     fusions |-> <<>>, guardrails |-> <<>>,
     budget |-> [alert |-> 80, daily |-> 0],
     debug |-> [maxBytes |-> 131072, mask |-> TRUE],
     tokens |-> [minChars |-> 12000, maxChars |-> 12000, mode |-> "preview", compress |-> TRUE]]

(***************************************************************************)
(* Providers, accounts, proxies and invoices.                              *)
(***************************************************************************)
\* A key without an id gets one; a repeated id gets a time suffix.
NameKey(kept, k, n) ==
    LET id == IF k.id = "" THEN "key" ELSE k.id
        fresh == IF \E i \in 1..Len(kept) : kept[i].id = id THEN id \o "-now" ELSE id
    IN  IF k.key = "" THEN kept
        ELSE Append(kept, [k EXCEPT !.id = fresh, !.priority = OrElse(n, @)])

NormalizeProviderKeys(keys) ==
    LET named[n \in 0..Len(keys)] == IF n = 0 THEN <<>> ELSE NameKey(named[n - 1], keys[n], n)
    IN  named[Len(keys)]

\* A provider bound to a proxy keeps no URL of its own; the key of before the
\* key list becomes its first key.
NormalizeProvider(p) ==
    LET keys == NormalizeProviderKeys(p.keys)
    IN  [p EXCEPT !.proxyUrl = IF p.proxyId # "" THEN "" ELSE @,
                  !.models = NormalizeModels(@),
                  !.hidden = NormalizeModels(@),
                  !.keys = IF keys = <<>> /\ p.apiKey # ""
                           THEN <<[id |-> "default", key |-> p.apiKey, enabled |-> TRUE, priority |-> 1]>>
                           ELSE keys,
                  !.strategy = Among({"round-robin"}, "fill-first", @),
                  !.sticky = OrElse(1, @)]

NormalizeProviderAccount(a) ==
    [a EXCEPT !.auth = Among({"api_key", "bearer", "oauth", "none"}, "api_key", @),
              !.proxyUrl = IF a.proxyId # "" THEN "" ELSE @,
              !.priority = OrElse(1, @),
              !.quota = AtMost(100, AtLeast(0, @)),
              !.streak = AtLeast(0, @)]

NormalizeInvoice(v) ==
    [v EXCEPT !.status = Among({"draft", "unpaid", "paid", "overdue", "void"}, "unpaid", @),
              !.amount = AtLeast(0, @), !.tax = AtLeast(0, @),
              !.total = IF @ <= 0 THEN AtLeast(0, v.amount) + AtLeast(0, v.tax) ELSE @]
================================================================================
