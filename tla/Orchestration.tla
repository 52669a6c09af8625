------------------------------ MODULE Orchestration ------------------------------
(***************************************************************************)
(* Requests for a name that is not a plain model: guardrails               *)
(* (internal/gateway/guardrail.go), fusions (fusion.go), prompt routers    *)
(* (prompt_router.go) and combos (combo.go), and how a model name becomes  *)
(* an ordered list of candidates (router.go, plan.go, handler.go).         *)
(*                                                                         *)
(* Such a request is a sequence of stages, each a call to a model of its   *)
(* own; the experts of a fusion may run in parallel.  A stage reports at   *)
(* most one token.  Prompts and answers are not modelled, only which stage *)
(* an answer comes from.  A request for a plain model, and a routed one,   *)
(* leaves this module for the fallback engine (GatewayFallback).           *)
(***************************************************************************)
EXTENDS Naturals, Sequences, FiniteSets, SequencesExt

CONSTANTS
    ProviderRows,   \* the stored providers, in order: [id, type, enabled, models]
    Split,          \* model name -> <<provider prefix or "", the rest>>
    DefaultProvider,
    DefaultCodex,
    SmallContexts,  \* <<provider, model>> whose known context is too small for a large request
    Combos,         \* name -> [models, robin, sticky]; enabled ones only, as below
    Guardrails,     \* name -> [optimizer, optimizerOpen, main, validator, validatorOpen], "" disabled
    Fusions,        \* name -> [experts (targets), parallel, min, synthesizer, reviewer]
    Routers,        \* name -> [classifier, routes, fallbackTarget, fallbackRole]
    Asked,          \* the names requests ask for
    Tasks           \* requests

ASSUME CombosAssumption ==
    \A c \in DOMAIN Combos : Combos[c].sticky \in Nat /\ Combos[c].models \in Seq(STRING)

\* NormalizeGuardrails: a guardrail that is closed twice is opened twice.
ASSUME GuardrailsAssumption ==
    \A g \in DOMAIN Guardrails : Guardrails[g].optimizerOpen \/ Guardrails[g].validatorOpen

VARIABLES
    task,           \* the requests
    comboTurn,      \* comboRotations: combo -> [index, count]
    comboLead,      \* combo -> how many turns each of its models is ahead of the last
    stagesCharged   \* request -> tokens recorded for its API key

orchestrationVars == <<task, comboTurn, comboLead, stagesCharged>>

NoTask == [pc |-> "idle", kind |-> "", name |-> "", protocol |-> "", large |-> FALSE, left |-> 0,
           waiting |-> {}, running |-> {}, good |-> 0, used |-> 0, usage |-> 0, target |-> "",
           role |-> "", structured |-> FALSE, verdict |-> "", content |-> "", outcome |-> ""]

OrchestrationInit ==
    /\ task = [t \in Tasks |-> NoTask]
    /\ comboTurn = [c \in DOMAIN Combos |-> [index |-> 0, count |-> 0]]
    /\ comboLead = [c \in DOMAIN Combos |-> [i \in DOMAIN Combos[c].models |-> 0]]
    /\ stagesCharged = [t \in Tasks |-> 0]

(***************************************************************************)
(* From a model name to candidates.                                        *)
(***************************************************************************)
Enabled == SelectSeq(ProviderRows, LAMBDA p : p.enabled)
Cand(p, model) == [id |-> p.id, type |-> p.type, model |-> model]
FirstModel(p, otherwise) == IF p.models = <<>> THEN otherwise ELSE p.models[1]

\* The first provider of a list, as a list of at most one candidate.
Primary(rows, Name(_)) == IF rows = <<>> THEN <<>> ELSE <<Cand(rows[1], Name(rows[1]))>>

PickFallbackModel(p, requested) ==
    IF requested # "" /\ (p.models = <<>> \/ requested \in Range(p.models))
    THEN requested ELSE FirstModel(p, "")

FallbackCandidates(primary, requested) ==
    LET rows == SelectSeq(Enabled, LAMBDA p : /\ p.id # primary.id /\ p.type = primary.type
                                              /\ PickFallbackModel(p, requested) # "")
    IN  [i \in DOMAIN rows |-> Cand(rows[i], PickFallbackModel(rows[i], requested))]

ResolveCandidates(model, default) ==
    LET exact  == Primary(SelectSeq(Enabled, LAMBDA p : model \in Range(p.models)), LAMBDA p : model)
        wanted == IF Split[model][1] = "" THEN default ELSE Split[model][1]
        rest   == Split[model][2]
        named  == Primary(SelectSeq(Enabled, LAMBDA p : wanted \in {p.id, p.type}),
                          LAMBDA p : IF rest = "" THEN FirstModel(p, model) ELSE rest)
        compat == IF Split[model][1] # "" THEN <<>>
                  ELSE Primary(SelectSeq(Enabled, LAMBDA p : p.type = "openai"), LAMBDA p : rest)
        by(primary, requested) == primary \o FallbackCandidates(primary[1], requested)
    IN  CASE exact # <<>>  -> by(exact, model)
          [] exact = <<>> /\ named # <<>> -> by(named, rest)
          [] exact = <<>> /\ named = <<>> /\ compat # <<>> -> by(compat, rest)
          [] OTHER -> <<>>

\* The Responses endpoint: Codex providers only, all of them if none was found.
CodexCandidates(model) ==
    LET found == SelectSeq(ResolveCandidates(model, DefaultCodex), LAMBDA c : c.type = "codex")
        codex == SelectSeq(Enabled, LAMBDA p : p.type = "codex")
        rest  == Split[model][2]
        \* A bare provider id is not a model.
        named(c) == IF c.model # c.id THEN c
                    ELSE Cand(CHOOSE p \in Range(codex) : p.id = c.id,
                              FirstModel(CHOOSE p \in Range(codex) : p.id = c.id, c.model))
    IN  IF found # <<>> THEN [i \in DOMAIN found |-> named(found[i])]
        ELSE [i \in DOMAIN codex |->
                 Cand(codex[i], IF rest \in {"", codex[i].id} THEN FirstModel(codex[i], rest) ELSE rest)]

\* Mutant: the turn passes on one use too late.
TurnedLate(c) ==
    LET idx == comboTurn[c].index % Len(Combos[c].models)
    IN  IF comboTurn[c].count > (IF Combos[c].sticky = 0 THEN 1 ELSE Combos[c].sticky)
        THEN [index |-> (idx + 1) % Len(Combos[c].models), count |-> 0]
        ELSE [index |-> idx, count |-> comboTurn[c].count + 1]

\* rotate, on the tracker's lock.
Turned(c) ==
    LET idx == comboTurn[c].index % Len(Combos[c].models)
    IN  IF comboTurn[c].count + 1 >= Combos[c].sticky
        THEN [index |-> (idx + 1) % Len(Combos[c].models), count |-> 0]
        ELSE [index |-> idx, count |-> comboTurn[c].count + 1]

Rotates(c) == c \in DOMAIN Combos /\ Combos[c].robin /\ Len(Combos[c].models) > 1

TakeTurn(target) ==
    IF Rotates(target)
    THEN LET first == (comboTurn[target].index % Len(Combos[target].models)) + 1
             lead  == [comboLead[target] EXCEPT ![first] = @ + 1]
         IN  /\ comboTurn' = [comboTurn EXCEPT ![target] = Turned(target)]
             /\ comboLead' = [comboLead EXCEPT ![target] = [i \in DOMAIN lead |-> lead[i] - Min(Range(lead))]]
    ELSE UNCHANGED <<comboTurn, comboLead>>

OrderedComboModels(c) ==
    LET models == Combos[c].models
        n      == Len(models)
    IN  IF Rotates(c) THEN [i \in 1..n |-> models[((comboTurn[c].index + i - 1) % n) + 1]] ELSE models

ComboCandidates(c) ==
    LET models == SelectSeq(OrderedComboModels(c), LAMBDA m : m # c)
        all == FlattenSeq([i \in DOMAIN models |-> ResolveCandidates(models[i], DefaultProvider)])
    IN  FoldLeft(LAMBDA kept, cand : IF cand \in Range(kept) THEN kept ELSE Append(kept, cand), <<>>, all)

ResolveRoutableTarget(target) ==
    IF target \in DOMAIN Combos THEN ComboCandidates(target) ELSE ResolveCandidates(target, DefaultProvider)

PlanCandidates(q, protocol, candidates) ==
    SelectSeq(candidates, LAMBDA c : /\ protocol = "responses" => c.type = "codex"
                                     /\ ~(q.large /\ <<c.id, c.model>> \in SmallContexts))

(***************************************************************************)
(* How a request goes on from stage to stage.                              *)
(***************************************************************************)
Answer(q, content) == [q EXCEPT !.pc = "ended", !.outcome = "answered", !.content = content]
Failed(q) == [q EXCEPT !.pc = "ended", !.outcome = "failed"]
GoTo(q, pc) == [q EXCEPT !.pc = pc, !.left = 0]

\* The answer of a fusion without the tokens of its experts.
Shortfall(q) == [Failed(q) EXCEPT !.usage = 0, !.verdict = "shortfall"]

RoutesFor(q, router) == SelectSeq(router.routes, LAMBDA x : x.role = q.role \/ x.target = q.target)

\* withPromptRoute: the first route of the role or target fills in what is missing.
WithPromptRoute(q, router) ==
    LET fits == RoutesFor(q, router)
    IN  IF fits = <<>> THEN q
        ELSE [q EXCEPT !.role = IF q.role = "" THEN fits[1].role ELSE q.role,
                       !.target = IF q.target = "" THEN fits[1].target ELSE q.target]

UseFallback(q) ==
    LET router == Routers[q.name]
        first  == router.routes[1]
        target == IF router.fallbackTarget = "" THEN first.target ELSE router.fallbackTarget
        role   == IF router.fallbackTarget = "" THEN first.role ELSE router.fallbackRole
    IN  WithPromptRoute([GoTo(q, "route") EXCEPT !.target = target, !.role = role], router)

\* The first route of the role that fits by complexity, by risk or by both
\* before the first that names neither.
SelectPromptRoute(routes, role, complexity, risk) ==
    LET fits(x)  == x.role = role /\ <<x.complexity, x.risk>> \in
                        {<<complexity, risk>>, <<complexity, "">>, <<"", risk>>}
        plain(x) == x.role = role /\ x.complexity = "" /\ x.risk = ""
    IN  SelectSeq(routes, fits) \o SelectSeq(routes, plain)

\* Mutant: the wrong switch decides what a failed validator means.
AfterErrorSwapped(q) ==
    LET g == Guardrails[q.name]
    IN  CASE q.pc = "optimizer" -> IF g.optimizerOpen THEN GoTo(q, "main") ELSE Failed(q)
          [] q.pc = "validator" -> IF g.optimizerOpen THEN Answer(q, "main") ELSE Failed(q)
          [] q.pc = "classifier" -> UseFallback(q)
          [] q.pc = "reviewer"   -> Answer(q, "synthesis")
          [] q.pc \in {"main", "synthesizer"} -> Failed(q)

AfterError(q) ==
    CASE q.pc = "optimizer"  -> IF Guardrails[q.name].optimizerOpen THEN GoTo(q, "main") ELSE Failed(q)
      [] q.pc = "validator"  -> IF Guardrails[q.name].validatorOpen THEN Answer(q, "main") ELSE Failed(q)
      [] q.pc = "classifier" -> UseFallback(q)
      [] q.pc = "reviewer"   -> Answer(q, "synthesis")
      [] q.pc \in {"main", "synthesizer"} -> Failed(q)

\* runGuardrail after each of its stages has answered.
AfterOptimizer(q) == {GoTo(q, "main"), AfterError(q)}

AfterMain(q) ==
    LET next(structured) == IF Guardrails[q.name].validator = ""
                            THEN Answer(q, "main")
                            ELSE [GoTo(q, "validator") EXCEPT !.structured = structured]
    IN  {Failed(q), next(TRUE), next(FALSE)}

\* An invalid decision and a rewrite without text count as a failed stage.
AfterValidator(q) ==
    {AfterError([q EXCEPT !.verdict = "invalid"]),
     Answer([q EXCEPT !.verdict = "pass"], "main"),
     AfterError([q EXCEPT !.verdict = "empty rewrite"]),
     Answer([q EXCEPT !.verdict = "rewrite"], IF q.structured THEN "main" ELSE "rewrite")}

\* What a sure classification may pick, by role, complexity and risk.
SureRoutes(router) ==
    {SelectPromptRoute(router.routes, x.role, complexity, risk) :
        x \in Range(router.routes), complexity \in {"", "low", "high"}, risk \in {"", "low", "high"}} \ {<<>>}

Routed(q, hits) == [GoTo(q, "route") EXCEPT !.target = hits[1].target, !.role = hits[1].role]

AfterClassifier(q) == {UseFallback(q)} \cup {Routed(q, hits) : hits \in SureRoutes(Routers[q.name])}

AfterSynthesizer(q) ==
    {IF Fusions[q.name].reviewer = "" THEN Answer(q, "synthesis") ELSE GoTo(q, "reviewer")}

AfterAnswer(q) ==
    CASE q.pc = "optimizer"   -> AfterOptimizer(q)
      [] q.pc = "main"        -> AfterMain(q)
      [] q.pc = "validator"   -> AfterValidator(q)
      [] q.pc = "classifier"  -> AfterClassifier(q)
      [] q.pc = "synthesizer" -> AfterSynthesizer(q)
      [] q.pc = "reviewer"    -> {Answer(q, "review")}

StageTarget(q) ==
    CASE q.pc = "optimizer"   -> Guardrails[q.name].optimizer
      [] q.pc = "main"        -> Guardrails[q.name].main
      [] q.pc = "validator"   -> Guardrails[q.name].validator
      [] q.pc = "classifier"  -> Routers[q.name].classifier
      [] q.pc = "synthesizer" -> Fusions[q.name].synthesizer
      [] q.pc = "reviewer"    -> Fusions[q.name].reviewer

Stages == {"optimizer", "main", "validator", "classifier", "synthesizer", "reviewer"}

\* A guardrail stage goes to a model or a combo; a fusion or a router stage
\* that names another orchestration looks it up as a model.
TargetAllowed(q, target) ==
    q.kind = "guardrail" => target \notin DOMAIN Routers \cup DOMAIN Fusions \cup DOMAIN Guardrails

\* Every candidate of a guardrail stage may be tried, else only the first;
\* the classifier's candidates are not planned.
CandidateCount(q, target) ==
    LET all  == ResolveRoutableTarget(target)
        able == IF q.kind = "router" THEN all ELSE PlanCandidates(q, "chat", all)
    IN  IF able = <<>> THEN 0 ELSE IF q.kind = "guardrail" THEN Len(able) ELSE 1

\* The record of what a request used: once, when the handler is through.
Charge(t, q) ==
    IF q.pc = "ended"
    THEN stagesCharged' = [stagesCharged EXCEPT ![t] = stagesCharged[t] + q.usage]
    ELSE UNCHANGED stagesCharged

(***************************************************************************)
(* Requests.                                                               *)
(***************************************************************************)
KindOf(protocol, name) ==
    CASE name \in DOMAIN Guardrails -> "guardrail"
      [] name \in DOMAIN Fusions /\ protocol = "chat" -> "fusion"
      [] name \in DOMAIN Routers /\ protocol # "responses" -> "router"
      [] OTHER -> "model"

FirstStage(kind, name) ==
    CASE kind = "guardrail" -> IF Guardrails[name].optimizer = "" THEN "main" ELSE "optimizer"
      [] kind = "fusion"    -> "experts"
      [] kind = "router"    -> "classifier"
      [] kind = "model"     -> "route"

Ask(t) ==
    /\ task[t].pc = "idle"
    /\ \E protocol \in {"chat", "messages", "responses"}, name \in Asked, large \in BOOLEAN :
           LET kind == KindOf(protocol, name)
           IN  task' = [task EXCEPT ![t] =
                   [NoTask EXCEPT !.pc = FirstStage(kind, name), !.kind = kind, !.name = name,
                                  !.protocol = protocol, !.large = large, !.target = name,
                                  !.waiting = IF kind = "fusion" THEN DOMAIN Fusions[name].experts ELSE {}]]
    /\ UNCHANGED <<comboTurn, comboLead, stagesCharged>>

\* A stage looks its target up, and fails when nothing can serve it; that may
\* also turn out when the candidates are replaced by their usable accounts.
StageStarts(t) ==
    LET q == task[t]
        n == CandidateCount(q, StageTarget(q))
    IN  /\ q.pc \in Stages /\ q.left = 0
        /\ IF TargetAllowed(q, StageTarget(q)) THEN TakeTurn(StageTarget(q)) ELSE UNCHANGED <<comboTurn, comboLead>>
        /\ \E after \in {[q EXCEPT !.left = n] : x \in IF n > 0 /\ TargetAllowed(q, StageTarget(q)) THEN {1} ELSE {}}
                            \cup {AfterError(q)} :
               task' = [task EXCEPT ![t] = after] /\ Charge(t, after)

\* runBufferedChatStage goes on to the next candidate, or gives up; no tokens.
StageFails(t) ==
    LET q == task[t]
    IN  /\ q.pc \in Stages /\ q.left > 0 /\ q.kind = "guardrail"
        /\ \E after \in {[q EXCEPT !.left = @ - 1] : x \in IF q.left > 1 THEN {1} ELSE {}} \cup {AfterError(q)} :
               task' = [task EXCEPT ![t] = after] /\ Charge(t, after)
        /\ UNCHANGED <<comboTurn, comboLead>>

\* A fusion or classifier stage that fails after its request was sent has
\* used tokens all the same; the classifier's are recorded at once.
StageFailsCharged(t) ==
    LET q == task[t]
        paid == [q EXCEPT !.used = @ + 1, !.usage = IF q.kind = "router" THEN @ ELSE @ + 1]
        after == AfterError(paid)
    IN  /\ q.pc \in Stages /\ q.left > 0 /\ q.kind # "guardrail"
        /\ task' = [task EXCEPT ![t] = after]
        /\ IF q.kind = "router" THEN stagesCharged' = [stagesCharged EXCEPT ![t] = stagesCharged[t] + 1] ELSE Charge(t, after)
        /\ UNCHANGED <<comboTurn, comboLead>>

\* Mutant: the tokens of the validator are not added.
PaidWithoutValidator(q) ==
    [q EXCEPT !.used = @ + 1, !.usage = IF q.kind = "router" \/ q.pc = "validator" THEN @ ELSE @ + 1]

Paid(q) == [q EXCEPT !.used = @ + 1, !.usage = IF q.kind = "router" THEN @ ELSE @ + 1]

StageAnswers(t) ==
    LET q == task[t]
    IN  /\ q.pc \in Stages /\ q.left > 0
        /\ \E after \in AfterAnswer(Paid(q)) :
               /\ task' = [task EXCEPT ![t] = after]
               /\ IF q.kind = "router" THEN stagesCharged' = [stagesCharged EXCEPT ![t] = stagesCharged[t] + 1] ELSE Charge(t, after)
        /\ UNCHANGED <<comboTurn, comboLead>>

(***************************************************************************)
(* The experts of a fusion, one after the other or all at once.            *)
(***************************************************************************)
ExpertStarts(t, i) ==
    LET q == task[t]
        target == Fusions[q.name].experts[i]
        started == [q EXCEPT !.waiting = @ \ {i}]
    IN  /\ q.pc = "experts" /\ i \in q.waiting
        /\ ~Fusions[q.name].parallel => q.running = {} /\ \A j \in q.waiting : i <= j
        /\ TakeTurn(target)
        /\ \E after \in {started} \cup {[started EXCEPT !.running = @ \cup {i}] :
                                            x \in IF CandidateCount(q, target) > 0 THEN {1} ELSE {}} :
               task' = [task EXCEPT ![t] = after]
        /\ UNCHANGED stagesCharged

ExpertEnds(t, i) ==
    LET q == task[t]
    IN  /\ q.pc = "experts" /\ i \in q.running
        /\ \E success \in {0, 1} :
               task' = [task EXCEPT ![t] = [q EXCEPT !.running = @ \ {i}, !.good = @ + success,
                                                     !.used = @ + 1, !.usage = @ + 1]]
        /\ UNCHANGED <<comboTurn, comboLead, stagesCharged>>

ExpertsDone(t) ==
    LET q == task[t]
        fusion == Fusions[q.name]
        needed == IF fusion.min = 0 THEN Len(fusion.experts) ELSE fusion.min
        after == IF Len(fusion.experts) = 0 \/ q.good < needed THEN Shortfall(q) ELSE GoTo(q, "synthesizer")
    IN  /\ q.pc = "experts" /\ q.waiting = {} /\ q.running = {}
        /\ task' = [task EXCEPT ![t] = after] /\ Charge(t, after)
        /\ UNCHANGED <<comboTurn, comboLead>>

\* The routed target, or the plain model, goes to the fallback engine.
Serve(t) ==
    LET q == task[t]
        all == IF q.protocol = "responses" THEN CodexCandidates(q.target) ELSE ResolveRoutableTarget(q.target)
        able == PlanCandidates(q, q.protocol, all)
    IN  /\ q.pc = "route"
        /\ IF q.protocol = "responses" THEN UNCHANGED <<comboTurn, comboLead>> ELSE TakeTurn(q.target)
        /\ task' = [task EXCEPT ![t] = IF able = <<>> THEN Failed(q) ELSE Answer(q, "fallback engine")]
        /\ UNCHANGED stagesCharged

OrchestrationNext ==
    \E t \in Tasks :
        \/ Ask(t) \/ StageStarts(t) \/ StageFails(t) \/ StageFailsCharged(t) \/ StageAnswers(t)
        \/ ExpertsDone(t) \/ Serve(t)
        \/ \E i \in task[t].waiting : ExpertStarts(t, i)
        \/ \E i \in task[t].running : ExpertEnds(t, i)

(***************************************************************************)
(* Properties.                                                             *)
(***************************************************************************)

\* Every token a stage reported is recorded for the API key, once, when the
\* request has ended, however it ended: with an answer, after a failed stage,
\* or after a stage that was passed over (runGuardrail, runFusion,
\* runPromptClassifier).  The exception is a fusion with too few successful
\* experts, whose tokens runFusion drops.
StagesAreCharged ==
    \A t \in Tasks :
        task[t].pc = "ended" =>
            stagesCharged[t] = IF task[t].verdict = "shortfall" THEN 0 ELSE task[t].used

\* A guardrail whose validator does not fail open answers with the main
\* model's text only when the validator passed it, and else with the
\* validator's own text; an answer with tool calls or media, which a rewrite
\* would lose, is kept (runGuardrail).
FailClosedIsValidated ==
    \A t \in Tasks :
        LET q == task[t]
        IN  (q.kind = "guardrail" /\ q.outcome = "answered"
                /\ Guardrails[q.name].validator # "" /\ ~Guardrails[q.name].validatorOpen)
            => \/ q.verdict = "pass" /\ q.content = "main"
               \/ q.verdict = "rewrite" /\ q.content = (IF q.structured THEN "main" ELSE "rewrite")

\* The models of a combo take turns as its sticky limit says, whoever asks:
\* requests, the experts of a fusion at the same time, classifiers and
\* guardrail stages share one rotation (combo.go, rotate).
ComboTurnsAreFair ==
    \A c \in DOMAIN Combos :
        \A i \in DOMAIN comboLead[c] :
            comboLead[c][i] <= IF Combos[c].sticky = 0 THEN 1 ELSE Combos[c].sticky
================================================================================
