-------------------------- MODULE OrchestrationProofs --------------------------
(***************************************************************************)
(* Theorems about Orchestration: what a request of several stages is       *)
(* charged, what a closed guardrail lets through, and how the models of a  *)
(* combo take turns, for any number of requests and whatever guardrails,   *)
(* fusions, routers and combos are configured.                             *)
(***************************************************************************)
EXTENDS Orchestration, TLAPS

Spec == OrchestrationInit /\ [][OrchestrationNext]_orchestrationVars

(***************************************************************************)
(* The invariant, request by request.                                      *)
(***************************************************************************)
Fields == {"pc", "kind", "name", "protocol", "large", "left", "waiting", "running", "good", "used",
           "usage", "target", "role", "structured", "verdict", "content", "outcome"}

Typed(q) == DOMAIN q = Fields /\ q.used \in Nat /\ q.usage \in Nat

\* The places a request of each kind can be at before it has ended.
Place(kind, pc) ==
    \/ kind = "" /\ pc = "idle"
    \/ kind = "guardrail" /\ pc \in {"optimizer", "main", "validator"}
    \/ kind = "fusion" /\ pc \in {"experts", "synthesizer", "reviewer"}
    \/ kind = "router" /\ pc \in {"classifier", "route"}
    \/ kind = "model" /\ pc = "route"

\* Under way: a router's tokens are recorded as they come, the others wait.
UnderWay(q, charged) ==
    /\ Place(q.kind, q.pc)
    /\ q.outcome = "" /\ q.verdict = ""
    /\ q.usage = IF q.kind = "router" THEN 0 ELSE q.used
    /\ charged = IF q.kind = "router" THEN q.used ELSE 0
    /\ q.kind \in {"", "model"} => q.used = 0

Closed(q) == q.kind = "guardrail" /\ Guardrails[q.name].validator # "" /\ ~Guardrails[q.name].validatorOpen

Validated(q) ==
    Closed(q) /\ q.outcome = "answered" =>
        \/ q.verdict = "pass" /\ q.content = "main"
        \/ q.verdict = "rewrite" /\ q.content = (IF q.structured THEN "main" ELSE "rewrite")

\* Over: everything is recorded, but for a fusion's shortfall.
Over(q, charged) ==
    /\ q.pc = "ended"
    /\ charged = IF q.verdict = "shortfall" THEN 0 ELSE q.used
    /\ Validated(q)

Sound(q, charged) == Typed(q) /\ charged \in Nat /\ (UnderWay(q, charged) \/ Over(q, charged))

Inv ==
    /\ DOMAIN task = Tasks /\ DOMAIN stagesCharged = Tasks
    /\ \A t \in Tasks : Sound(task[t], stagesCharged[t])

(***************************************************************************)
(* What the steps from stage to stage leave alone.                         *)
(***************************************************************************)
Same(e, q) ==
    /\ DOMAIN e = Fields /\ e.used = q.used /\ e.usage = q.usage /\ e.kind = q.kind /\ e.name = q.name
    /\ e.structured = q.structured /\ e.verdict = q.verdict

LEMMA AnswerIs ==
    ASSUME NEW q, DOMAIN q = Fields, NEW content
    PROVE  Same(Answer(q, content), q) /\ Answer(q, content).pc = "ended"
           /\ Answer(q, content).outcome = "answered" /\ Answer(q, content).content = content
  BY DEF Answer, Same, Fields

LEMMA FailedIs ==
    ASSUME NEW q, DOMAIN q = Fields
    PROVE  Same(Failed(q), q) /\ Failed(q).pc = "ended" /\ Failed(q).outcome = "failed"
  BY DEF Failed, Same, Fields

LEMMA GoToIs ==
    ASSUME NEW q, DOMAIN q = Fields, NEW pc
    PROVE  Same(GoTo(q, pc), q) /\ GoTo(q, pc).pc = pc /\ GoTo(q, pc).outcome = q.outcome
  BY DEF GoTo, Same, Fields

\* A router's fallback is a route like any other.
LEMMA UseFallbackIs ==
    ASSUME NEW q, DOMAIN q = Fields
    PROVE  Same(UseFallback(q), q) /\ UseFallback(q).pc = "route" /\ UseFallback(q).outcome = q.outcome
  <1> DEFINE e == GoTo(q, "route")
  <1>1. Same(e, q) /\ e.pc = "route" /\ e.outcome = q.outcome
    BY GoToIs
  <1>2. ASSUME NEW target, NEW role
        PROVE  /\ Same([e EXCEPT !.target = target, !.role = role], q)
               /\ [e EXCEPT !.target = target, !.role = role].pc = "route"
               /\ [e EXCEPT !.target = target, !.role = role].outcome = q.outcome
    <2> HIDE DEF e
    <2> QED
      BY <1>1 DEF Same, Fields
  <1>3. ASSUME NEW f, NEW router, Same(f, q), f.pc = "route", f.outcome = q.outcome
        PROVE  LET w == WithPromptRoute(f, router)
               IN  Same(w, q) /\ w.pc = "route" /\ w.outcome = q.outcome
    BY <1>3 DEF WithPromptRoute, Same, Fields
  <1> DEFINE router == Routers[q.name]
             target == IF router.fallbackTarget = "" THEN router.routes[1].target ELSE router.fallbackTarget
             role == IF router.fallbackTarget = "" THEN router.routes[1].role ELSE router.fallbackRole
             f == [e EXCEPT !.target = target, !.role = role]
  <1>4. UseFallback(q) = WithPromptRoute(f, router)
    BY DEF UseFallback
  <1> HIDE DEF e, target, role, router
  <1>5. Same(f, q) /\ f.pc = "route" /\ f.outcome = q.outcome
    BY <1>2
  <1> HIDE DEF f
  <1> QED
    BY <1>3, <1>4, <1>5

\* A failed stage is passed over only where the guardrail is open.
LEMMA AfterErrorIs ==
    ASSUME NEW q, DOMAIN q = Fields, Place(q.kind, q.pc), q.pc \in Stages
    PROVE  LET e == AfterError(q)
           IN  /\ Same(e, q)
               /\ \/ /\ e.pc = "ended" /\ q.kind # "router"
                     /\ Closed(q) => e.outcome = "failed"
                  \/ /\ e.outcome = q.outcome
                     /\ \/ q.kind = "guardrail" /\ q.pc = "optimizer" /\ e.pc = "main"
                        \/ q.kind = "router" /\ e.pc = "route"
  <1>1. CASE q.pc = "optimizer"
    BY <1>1, GoToIs, FailedIs DEF AfterError, Place
  <1>2. CASE q.pc = "validator"
    BY <1>2, AnswerIs, FailedIs DEF AfterError, Place, Closed
  <1>3. CASE q.pc = "classifier"
    BY <1>3, UseFallbackIs DEF AfterError, Place
  <1>4. CASE q.pc = "reviewer"
    <2>1. AfterError(q) = Answer(q, "synthesis") /\ q.kind = "fusion"
      BY <1>4 DEF AfterError, Place
    <2> QED
      BY <2>1, AnswerIs DEF Closed
  <1>5. CASE q.pc \in {"main", "synthesizer"}
    BY <1>5, FailedIs DEF AfterError, Place
  <1>6. q.pc \in {"optimizer", "main", "validator", "classifier", "synthesizer", "reviewer"}
    BY DEF Stages
  <1> QED
    BY <1>1, <1>2, <1>3, <1>4, <1>5, <1>6

(***************************************************************************)
(* An answered stage.                                                      *)
(***************************************************************************)
\* The request is the same, and it is under way or its answer is allowed.
Ahead(e, q) ==
    /\ DOMAIN e = Fields /\ e.used = q.used /\ e.usage = q.usage /\ e.kind = q.kind /\ e.name = q.name
    /\ \/ e.pc = "ended" /\ q.kind # "router" /\ e.verdict # "shortfall" /\ Validated(e)
       \/ Place(e.kind, e.pc) /\ e.outcome = "" /\ e.verdict = ""

\* A failed stage, whatever the verdict it failed with.
LEMMA ErrorAhead ==
    ASSUME NEW q, DOMAIN q = Fields, Place(q.kind, q.pc), q.pc \in Stages, q.outcome = "",
           q.verdict # "shortfall", q.pc # "validator" => q.verdict = ""
    PROVE  Ahead(AfterError(q), q)
  <1> DEFINE e == AfterError(q)
  <1>1. /\ Same(e, q)
        /\ \/ e.pc = "ended" /\ q.kind # "router" /\ (Closed(q) => e.outcome = "failed")
           \/ /\ e.outcome = q.outcome
              /\ \/ q.kind = "guardrail" /\ q.pc = "optimizer" /\ e.pc = "main"
                 \/ q.kind = "router" /\ e.pc = "route"
    BY AfterErrorIs
  <1> SUFFICES Ahead(e, q)
    OBVIOUS
  <1> HIDE DEF e
  <1>2. CASE e.pc = "ended" /\ q.kind # "router" /\ (Closed(q) => e.outcome = "failed")
    BY <1>1, <1>2 DEF Ahead, Same, Validated, Closed
  <1>3. CASE e.outcome = q.outcome /\ q.kind = "guardrail" /\ q.pc = "optimizer" /\ e.pc = "main"
    BY <1>1, <1>3 DEF Ahead, Same, Place
  <1>4. CASE e.outcome = q.outcome /\ q.kind = "router" /\ e.pc = "route"
    BY <1>1, <1>4 DEF Ahead, Same, Place
  <1> QED
    BY <1>1, <1>2, <1>3, <1>4

\* An answer from a guardrail needs the validator's word where it has one.
LEMMA AnswerAhead ==
    ASSUME NEW q, DOMAIN q = Fields, q.kind # "router", q.verdict # "shortfall", NEW content,
           Closed(q) => \/ q.verdict = "pass" /\ content = "main"
                        \/ q.verdict = "rewrite" /\ content = (IF q.structured THEN "main" ELSE "rewrite")
    PROVE  Ahead(Answer(q, content), q)
  <1> DEFINE e == Answer(q, content)
  <1>1. Same(e, q) /\ e.pc = "ended" /\ e.outcome = "answered" /\ e.content = content
    BY AnswerIs
  <1> HIDE DEF e
  <1>2. Validated(e)
    BY <1>1 DEF Validated, Closed, Same
  <1> QED
    BY <1>1, <1>2 DEF Ahead, Same, e

LEMMA AfterAnswerIs ==
    ASSUME NEW q, DOMAIN q = Fields, Place(q.kind, q.pc), q.pc \in Stages, q.outcome = "", q.verdict = "",
           NEW e \in AfterAnswer(q)
    PROVE  Ahead(e, q)
  <1>1. CASE q.pc = "optimizer"
    <2>1. q.kind = "guardrail" /\ e \in {GoTo(q, "main"), AfterError(q)}
      BY <1>1 DEF AfterAnswer, AfterOptimizer, Place
    <2>2. Ahead(GoTo(q, "main"), q)
      BY <2>1, GoToIs DEF Ahead, Same, Place
    <2>3. Ahead(AfterError(q), q)
      BY <1>1, ErrorAhead
    <2> QED
      BY <2>1, <2>2, <2>3
  <1>2. CASE q.pc = "main"
    <2> DEFINE next(structured) == IF Guardrails[q.name].validator = "" THEN Answer(q, "main")
                                   ELSE [GoTo(q, "validator") EXCEPT !.structured = structured]
    <2>1. q.kind = "guardrail" /\ e \in {Failed(q), next(TRUE), next(FALSE)}
      BY <1>2 DEF AfterAnswer, AfterMain, Place
    <2>2. ASSUME Guardrails[q.name].validator = "" PROVE Ahead(Answer(q, "main"), q)
      BY <2>1, <2>2, AnswerAhead DEF Closed
    <2>3. ASSUME NEW x \in BOOLEAN PROVE Ahead([GoTo(q, "validator") EXCEPT !.structured = x], q)
      <3> DEFINE g == GoTo(q, "validator")
      <3>1. Same(g, q) /\ g.pc = "validator" /\ g.outcome = ""
        BY GoToIs
      <3> HIDE DEF g
      <3> QED
        BY <2>1, <3>1 DEF Ahead, Same, Place, Fields, g
    <2>4. Ahead(Failed(q), q)
      BY <2>1, FailedIs DEF Ahead, Same, Validated
    <2> QED
      BY <2>1, <2>2, <2>3, <2>4
  <1>3. CASE q.pc = "validator"
    <2>1. q.kind = "guardrail"
      BY <1>3 DEF Place
    <2>2. ASSUME NEW v, v # "shortfall"
          PROVE  LET w == [q EXCEPT !.verdict = v]
                 IN  /\ DOMAIN w = Fields /\ w.used = q.used /\ w.usage = q.usage /\ w.kind = q.kind
                     /\ w.name = q.name /\ w.pc = q.pc /\ w.outcome = "" /\ w.verdict = v
                     /\ w.structured = q.structured
      BY DEF Fields
    <2>3. ASSUME NEW v, v # "shortfall" PROVE Ahead(AfterError([q EXCEPT !.verdict = v]), q)
      <3> DEFINE w == [q EXCEPT !.verdict = v]
      <3>1. /\ DOMAIN w = Fields /\ w.used = q.used /\ w.usage = q.usage /\ w.kind = q.kind
            /\ w.name = q.name /\ w.pc = q.pc /\ w.outcome = "" /\ w.verdict = v
        BY <2>2, <2>3
      <3> HIDE DEF w
      <3>2. Ahead(AfterError(w), w)
        BY <1>3, <2>1, <2>3, <3>1, ErrorAhead DEF Place, Stages
      <3>3. Ahead(AfterError(w), q)
        BY <3>1, <3>2 DEF Ahead
      <3> QED
        BY <3>3 DEF w
    <2>4. Ahead(Answer([q EXCEPT !.verdict = "pass"], "main"), q)
      <3> DEFINE w == [q EXCEPT !.verdict = "pass"]
      <3>1. /\ DOMAIN w = Fields /\ w.used = q.used /\ w.usage = q.usage /\ w.kind = q.kind
            /\ w.name = q.name /\ w.verdict = "pass"
        BY <2>2
      <3> HIDE DEF w
      <3>2. Ahead(Answer(w, "main"), w)
        BY <2>1, <3>1, AnswerAhead
      <3>3. Ahead(Answer(w, "main"), q)
        BY <3>1, <3>2 DEF Ahead
      <3> QED
        BY <3>3 DEF w
    <2>5. Ahead(Answer([q EXCEPT !.verdict = "rewrite"], IF q.structured THEN "main" ELSE "rewrite"), q)
      <3> DEFINE w == [q EXCEPT !.verdict = "rewrite"]
                 content == IF q.structured THEN "main" ELSE "rewrite"
      <3>1. /\ DOMAIN w = Fields /\ w.used = q.used /\ w.usage = q.usage /\ w.kind = q.kind
            /\ w.name = q.name /\ w.verdict = "rewrite" /\ w.structured = q.structured
        BY <2>2
      <3> HIDE DEF w
      <3>2. content = IF w.structured THEN "main" ELSE "rewrite"
        BY <3>1
      <3> HIDE DEF content
      <3>3. Ahead(Answer(w, content), w)
        BY <2>1, <3>1, <3>2, AnswerAhead
      <3>4. Ahead(Answer(w, content), q)
        BY <3>1, <3>3 DEF Ahead
      <3> QED
        BY <3>4 DEF w, content
    <2> QED
      BY <1>3, <2>3, <2>4, <2>5 DEF AfterAnswer, AfterValidator
  <1>4. CASE q.pc = "classifier"
    <2> DEFINE g == GoTo(q, "route")
    <2>1. q.kind = "router" /\ Same(g, q) /\ g.pc = "route" /\ g.outcome = ""
      BY <1>4, GoToIs DEF Place
    <2>2. Ahead(UseFallback(q), q)
      BY <2>1, UseFallbackIs DEF Ahead, Same, Place
    <2> HIDE DEF g
    <2>3. ASSUME NEW target, NEW role PROVE Ahead([g EXCEPT !.target = target, !.role = role], q)
      BY <2>1 DEF Ahead, Same, Place, Fields
    <2>4. e \in AfterClassifier(q)
      BY <1>4 DEF AfterAnswer
    <2>5. CASE e # UseFallback(q)
      <3>1. PICK hits : e = [g EXCEPT !.target = hits[1].target, !.role = hits[1].role]
        BY <2>4, <2>5, Zenon DEF AfterClassifier, Routed, g
      <3> DEFINE target == hits[1].target
                 role == hits[1].role
      <3>2. e = [g EXCEPT !.target = target, !.role = role]
        BY <3>1
      <3> HIDE DEF target, role
      <3>3. Ahead([g EXCEPT !.target = target, !.role = role], q)
        BY <2>3
      <3> QED
        BY <3>2, <3>3
    <2> QED
      BY <2>2, <2>5
  <1>5. CASE q.pc = "synthesizer"
    <2>1. q.kind = "fusion" /\ e \in {Answer(q, "synthesis"), GoTo(q, "reviewer")}
      BY <1>5 DEF AfterAnswer, AfterSynthesizer, Place
    <2>2. Ahead(Answer(q, "synthesis"), q)
      BY <2>1, AnswerAhead DEF Closed
    <2>3. Ahead(GoTo(q, "reviewer"), q)
      BY <2>1, GoToIs DEF Ahead, Same, Place
    <2> QED
      BY <2>1, <2>2, <2>3
  <1>6. CASE q.pc = "reviewer"
    <2>1. q.kind = "fusion" /\ e = Answer(q, "review")
      BY <1>6 DEF AfterAnswer, Place
    <2> QED
      BY <2>1, AnswerAhead DEF Closed
  <1>7. q.pc \in {"optimizer", "main", "validator", "classifier", "synthesizer", "reviewer"}
    BY DEF Stages
  <1> QED
    BY <1>1, <1>2, <1>3, <1>4, <1>5, <1>6, <1>7

(***************************************************************************)
(* The steps.                                                              *)
(***************************************************************************)
LEMMA ZeroIsNat == 0 \in Nat
  OBVIOUS

LEMMA ZeroPlus == ASSUME NEW m, NEW n \in Nat, m = 0 PROVE m + n = n
  OBVIOUS

\* One request changes, and to one that is sound with its own charge.
LEMMA OneChanges ==
    ASSUME Inv, NEW t \in Tasks, NEW q, NEW n, Sound(q, n),
           task' = [task EXCEPT ![t] = q], stagesCharged' = [stagesCharged EXCEPT ![t] = n]
    PROVE  Inv'
  BY DEF Inv

LEMMA OneUncharged ==
    ASSUME Inv, NEW t \in Tasks, NEW q, Sound(q, stagesCharged[t]), task' = [task EXCEPT ![t] = q],
           UNCHANGED stagesCharged
    PROVE  Inv'
  BY DEF Inv

\* A request that is done with is recorded in the same step.
LEMMA Charged ==
    ASSUME Inv, NEW t \in Tasks, NEW q, Typed(q), q.kind # "router", q.usage = q.used,
           stagesCharged[t] = 0, task' = [task EXCEPT ![t] = q], Charge(t, q),
           \/ q.pc = "ended" /\ Validated(q) /\ q.verdict # "shortfall"
           \/ Place(q.kind, q.pc) /\ q.outcome = "" /\ q.verdict = "" /\ q.kind \notin {"", "model"}
    PROVE  Inv'
  <1>1. CASE q.pc = "ended"
    <2>1. stagesCharged' = [stagesCharged EXCEPT ![t] = stagesCharged[t] + q.usage]
      BY <1>1 DEF Charge
    <2>2. q.used \in Nat
      BY Zenon DEF Typed
    <2>5. stagesCharged[t] + q.usage = q.used
      BY <2>2, ZeroPlus, Zenon
    <2>3. Validated(q) /\ q.verdict # "shortfall"
      BY <1>1 DEF Place
    <2>4. Sound(q, q.used)
      BY <1>1, <2>2, <2>3 DEF Sound, Over
    <2> QED
      BY <2>1, <2>4, <2>5, OneChanges
  <1>2. CASE q.pc # "ended"
    <2>1. UNCHANGED stagesCharged
      BY <1>2 DEF Charge
    <2>2. Place(q.kind, q.pc) /\ q.outcome = "" /\ q.verdict = "" /\ q.kind \notin {"", "model"}
      BY <1>2
    <2>3. UnderWay(q, 0)
      BY <2>2 DEF UnderWay
    <2>4. Sound(q, stagesCharged[t])
      BY <2>3, ZeroIsNat, Zenon DEF Sound
    <2> QED
      BY <2>1, <2>4, OneUncharged
  <1> QED
    BY <1>1, <1>2

\* What a stage's request has used before it goes on.
Owes(p) ==
    /\ Typed(p) /\ Place(p.kind, p.pc) /\ p.kind \notin {"", "model"}
    /\ p.usage = IF p.kind = "router" THEN 0 ELSE p.used

\* A step ahead is sound when its charge is made.
LEMMA Forward ==
    ASSUME Inv, NEW t \in Tasks, NEW p, Owes(p), NEW e, Ahead(e, p), task' = [task EXCEPT ![t] = e],
           \/ /\ p.kind = "router"
              /\ \/ stagesCharged' = [stagesCharged EXCEPT ![t] = p.used]
                 \/ stagesCharged[t] = p.used /\ (Charge(t, e) \/ UNCHANGED stagesCharged)
           \/ p.kind # "router" /\ stagesCharged[t] = 0 /\ Charge(t, e)
    PROVE  Inv'
  <1>1. Typed(e) /\ e.kind = p.kind /\ e.used = p.used /\ e.usage = p.usage
    BY DEF Ahead, Owes, Typed
  <1>2. CASE p.kind = "router"
    <2>1. Place(e.kind, e.pc) /\ e.outcome = "" /\ e.verdict = "" /\ e.pc # "ended"
      BY <1>1, <1>2 DEF Ahead, Place
    <2>2. e.usage = 0
      BY <1>1, <1>2 DEF Owes
    <2>3. UnderWay(e, p.used)
      BY <1>1, <1>2, <2>1, <2>2 DEF UnderWay
    <2>4. p.used \in Nat
      BY DEF Owes, Typed
    <2>5. Sound(e, p.used)
      BY <1>1, <2>3, <2>4 DEF Sound
    <2>6. CASE stagesCharged' = [stagesCharged EXCEPT ![t] = p.used]
      BY <2>5, <2>6, OneChanges
    <2>7. CASE stagesCharged[t] = p.used /\ UNCHANGED stagesCharged
      BY <2>5, <2>7, OneUncharged
    <2> QED
      BY <1>2, <2>1, <2>6, <2>7 DEF Charge
  <1>3. CASE p.kind # "router"
    <2>1. e.usage = e.used /\ e.kind \notin {"", "model"}
      BY <1>1, <1>3 DEF Owes
    <2>2. \/ e.pc = "ended" /\ Validated(e) /\ e.verdict # "shortfall"
          \/ Place(e.kind, e.pc) /\ e.outcome = "" /\ e.verdict = "" /\ e.kind \notin {"", "model"}
      BY <2>1 DEF Ahead
    <2> QED
      BY <1>1, <1>3, <2>1, <2>2, Charged
  <1> QED
    BY <1>2, <1>3

\* A request that has not ended is under way.
LEMMA TaskUnderWay ==
    ASSUME Inv, NEW t \in Tasks, task[t].pc # "ended"
    PROVE  Typed(task[t]) /\ UnderWay(task[t], stagesCharged[t]) /\ stagesCharged[t] \in Nat
  BY DEF Inv, Sound, Over

\* At a stage it is a guardrail, a fusion or a router, and owes what it says.
LEMMA AtStage ==
    ASSUME Inv, NEW t \in Tasks, task[t].pc \in Stages \cup {"experts"}
    PROVE  /\ Owes(task[t]) /\ task[t].outcome = "" /\ task[t].verdict = "" /\ DOMAIN task[t] = Fields
           /\ stagesCharged[t] = IF task[t].kind = "router" THEN task[t].used ELSE 0
           /\ stagesCharged[t] \in Nat
  <1>1. Typed(task[t]) /\ UnderWay(task[t], stagesCharged[t]) /\ stagesCharged[t] \in Nat
    BY TaskUnderWay DEF Stages
  <1>2. task[t].kind \notin {"", "model"}
    BY <1>1 DEF UnderWay, Place, Stages
  <1> QED
    BY <1>1, <1>2 DEF Owes, UnderWay, Typed

\* One more token is used, and a router's recorded elsewhere.
Grown(p, q) ==
    /\ DOMAIN p = Fields /\ p.pc = q.pc /\ p.kind = q.kind /\ p.name = q.name /\ p.outcome = q.outcome
    /\ p.verdict = q.verdict /\ p.used = q.used + 1
    /\ p.usage = IF q.kind = "router" THEN q.usage ELSE q.usage + 1

LEMMA PaidIs ==
    ASSUME NEW q, DOMAIN q = Fields
    PROVE  Grown(Paid(q), q)
  BY DEF Paid, Grown, Fields

LEMMA GrownOwes ==
    ASSUME NEW q, NEW p, Owes(q), Grown(p, q)
    PROVE  Owes(p) /\ p.used = q.used + 1
  <1>1. Typed(p)
    <2>1. q.used \in Nat /\ q.usage \in Nat
      BY Zenon DEF Typed, Owes
    <2>2. p.used = q.used + 1 /\ p.usage \in {q.usage, q.usage + 1}
      BY Zenon DEF Grown
    <2>3. p.used \in Nat /\ p.usage \in Nat
      BY <2>1, <2>2
    <2>4. DOMAIN p = Fields
      BY Zenon DEF Grown
    <2> QED
      BY <2>3, <2>4, Zenon DEF Typed
  <1>2. p.usage = IF p.kind = "router" THEN 0 ELSE p.used
    BY DEF Owes, Grown
  <1> QED
    BY <1>1, <1>2 DEF Owes, Grown

LEMMA AskKeeps == ASSUME Inv, NEW t \in Tasks, Ask(t) PROVE Inv'
  <1>1. PICK protocol, name, large :
           task' = [task EXCEPT ![t] =
             [NoTask EXCEPT !.pc = FirstStage(KindOf(protocol, name), name), !.kind = KindOf(protocol, name),
                !.name = name, !.protocol = protocol, !.large = large, !.target = name,
                !.waiting = IF KindOf(protocol, name) = "fusion" THEN DOMAIN Fusions[name].experts ELSE {}]]
    BY DEF Ask
  <1> DEFINE kind == KindOf(protocol, name)
             waiting == IF kind = "fusion" THEN DOMAIN Fusions[name].experts ELSE {}
             first == FirstStage(kind, name)
             q == [NoTask EXCEPT !.pc = first, !.kind = kind, !.name = name, !.protocol = protocol,
                                 !.large = large, !.target = name, !.waiting = waiting]
  <1>2. kind \in {"guardrail", "fusion", "router", "model"}
    BY DEF KindOf
  <1>3. Place(kind, first) /\ first # "idle"
    BY <1>2 DEF FirstStage, Place
  <1>4. DOMAIN NoTask = Fields /\ NoTask.used = 0 /\ NoTask.usage = 0 /\ NoTask.outcome = "" /\ NoTask.verdict = ""
    BY DEF NoTask, Fields
  <1>5. task' = [task EXCEPT ![t] = q]
    BY <1>1
  <1> HIDE DEF kind, first, waiting, NoTask
  <1>6. DOMAIN q = Fields /\ q.used = 0 /\ q.usage = 0 /\ q.outcome = "" /\ q.verdict = "" /\ q.kind = kind /\ q.pc = first
    BY <1>4 DEF Fields
  <1> HIDE DEF q
  <1>7. stagesCharged[t] = 0 /\ UNCHANGED stagesCharged
    <2>1. task[t].pc = "idle" /\ Sound(task[t], stagesCharged[t]) /\ UNCHANGED stagesCharged
      BY DEF Ask, Inv
    <2> QED
      BY <2>1 DEF Sound, UnderWay, Over, Place
  <1>8. Sound(q, 0)
    <2>1. Typed(q)
      BY <1>6, ZeroIsNat, Zenon DEF Typed
    <2>2. UnderWay(q, 0)
      BY <1>2, <1>3, <1>6 DEF UnderWay
    <2> QED
      BY <2>1, <2>2 DEF Sound
  <1> QED
    BY <1>5, <1>7, <1>8, OneUncharged

LEMMA StageStartsKeeps == ASSUME Inv, NEW t \in Tasks, StageStarts(t) PROVE Inv'
  <1> DEFINE q == task[t]
             n == CandidateCount(q, StageTarget(q))
             found == [q EXCEPT !.left = n]
  <1>1. /\ q.pc \in Stages
        /\ \E after \in {found, AfterError(q)} : task' = [task EXCEPT ![t] = after] /\ Charge(t, after)
    BY DEF StageStarts
  <1>2. /\ Owes(q) /\ q.outcome = "" /\ q.verdict = "" /\ DOMAIN q = Fields
        /\ stagesCharged[t] = IF q.kind = "router" THEN q.used ELSE 0
    BY <1>1, AtStage
  <1>3. PICK after \in {found, AfterError(q)} : task' = [task EXCEPT ![t] = after] /\ Charge(t, after)
    BY <1>1
  <1> HIDE DEF n, q
  <1>4. Ahead(found, q)
    BY <1>2 DEF Ahead, Owes, Fields
  <1>5. Ahead(AfterError(q), q)
    BY <1>1, <1>2, ErrorAhead DEF Owes
  <1> HIDE DEF found
  <1>6. Ahead(after, q)
    BY <1>3, <1>4, <1>5
  <1> QED
    BY <1>2, <1>3, <1>6, Forward

LEMMA StageFailsKeeps == ASSUME Inv, NEW t \in Tasks, StageFails(t) PROVE Inv'
  <1> DEFINE q == task[t]
             next == [q EXCEPT !.left = q.left - 1]
  <1>1. /\ q.pc \in Stages
        /\ \E after \in {next, AfterError(q)} : task' = [task EXCEPT ![t] = after] /\ Charge(t, after)
    BY DEF StageFails
  <1>2. /\ Owes(q) /\ q.outcome = "" /\ q.verdict = "" /\ DOMAIN q = Fields
        /\ stagesCharged[t] = IF q.kind = "router" THEN q.used ELSE 0
    BY <1>1, AtStage
  <1>3. PICK after \in {next, AfterError(q)} : task' = [task EXCEPT ![t] = after] /\ Charge(t, after)
    BY <1>1
  <1> HIDE DEF q
  <1>4. Ahead(next, q)
    BY <1>2 DEF Ahead, Owes, Fields
  <1>5. Ahead(AfterError(q), q)
    BY <1>1, <1>2, ErrorAhead DEF Owes
  <1> HIDE DEF next
  <1>6. Ahead(after, q)
    BY <1>3, <1>4, <1>5
  <1> QED
    BY <1>2, <1>3, <1>6, Forward

LEMMA StageFailsChargedKeeps == ASSUME Inv, NEW t \in Tasks, StageFailsCharged(t) PROVE Inv'
  <1> DEFINE q == task[t]
             p == Paid(q)
             after == AfterError(p)
  <1>1. /\ q.pc \in Stages
        /\ task' = [task EXCEPT ![t] = after]
        /\ IF q.kind = "router" THEN stagesCharged' = [stagesCharged EXCEPT ![t] = stagesCharged[t] + 1]
           ELSE Charge(t, after)
    BY DEF StageFailsCharged, Paid
  <1>2. /\ Owes(q) /\ q.outcome = "" /\ q.verdict = "" /\ DOMAIN q = Fields
        /\ stagesCharged[t] = IF q.kind = "router" THEN q.used ELSE 0
    BY <1>1, AtStage
  <1>3. Grown(p, q)
    BY <1>2, PaidIs
  <1> HIDE DEF q, p
  <1>4. Owes(p) /\ p.used = q.used + 1
    BY <1>2, <1>3, GrownOwes
  <1>5. p.kind = q.kind /\ p.pc = q.pc /\ p.outcome = "" /\ p.verdict = "" /\ DOMAIN p = Fields
    BY <1>2, <1>3 DEF Grown
  <1>6. Ahead(after, p)
    BY <1>1, <1>4, <1>5, ErrorAhead DEF Owes
  <1> HIDE DEF after
  <1>7. CASE q.kind = "router"
    <2>1. stagesCharged' = [stagesCharged EXCEPT ![t] = p.used]
      BY <1>1, <1>2, <1>4, <1>7
    <2> QED
      BY <1>1, <1>4, <1>5, <1>6, <1>7, <2>1, Forward
  <1>8. CASE q.kind # "router"
    BY <1>1, <1>2, <1>4, <1>5, <1>6, <1>8, Forward
  <1> QED
    BY <1>7, <1>8

LEMMA StageAnswersKeeps == ASSUME Inv, NEW t \in Tasks, StageAnswers(t) PROVE Inv'
  <1> DEFINE q == task[t]
             p == Paid(q)
  <1>1. /\ q.pc \in Stages
        /\ \E after \in AfterAnswer(p) :
               /\ task' = [task EXCEPT ![t] = after]
               /\ IF q.kind = "router" THEN stagesCharged' = [stagesCharged EXCEPT ![t] = stagesCharged[t] + 1]
                  ELSE Charge(t, after)
    BY DEF StageAnswers
  <1>2. /\ Owes(q) /\ q.outcome = "" /\ q.verdict = "" /\ DOMAIN q = Fields
        /\ stagesCharged[t] = IF q.kind = "router" THEN q.used ELSE 0
    BY <1>1, AtStage
  <1>3. Grown(p, q)
    BY <1>2, PaidIs
  <1>4. PICK after \in AfterAnswer(p) :
            /\ task' = [task EXCEPT ![t] = after]
            /\ IF q.kind = "router" THEN stagesCharged' = [stagesCharged EXCEPT ![t] = stagesCharged[t] + 1]
               ELSE Charge(t, after)
    BY <1>1
  <1> HIDE DEF q, p
  <1>5. Owes(p) /\ p.used = q.used + 1
    BY <1>2, <1>3, GrownOwes
  <1>6. p.kind = q.kind /\ p.pc = q.pc /\ p.outcome = "" /\ p.verdict = "" /\ DOMAIN p = Fields
    BY <1>2, <1>3 DEF Grown
  <1>7. Ahead(after, p)
    BY <1>1, <1>4, <1>5, <1>6, AfterAnswerIs DEF Owes
  <1>8. CASE q.kind = "router"
    <2>1. stagesCharged' = [stagesCharged EXCEPT ![t] = p.used]
      BY <1>2, <1>4, <1>5, <1>8
    <2> QED
      BY <1>4, <1>5, <1>6, <1>7, <1>8, <2>1, Forward
  <1>9. CASE q.kind # "router"
    BY <1>2, <1>4, <1>5, <1>6, <1>7, <1>9, Forward
  <1> QED
    BY <1>8, <1>9

LEMMA ExpertStartsKeeps == ASSUME Inv, NEW t \in Tasks, NEW i, ExpertStarts(t, i) PROVE Inv'
  <1> DEFINE q == task[t]
             started == [q EXCEPT !.waiting = q.waiting \ {i}]
             running == [started EXCEPT !.running = started.running \cup {i}]
  <1>1. /\ q.pc = "experts" /\ UNCHANGED stagesCharged
        /\ \E after \in {started, running} : task' = [task EXCEPT ![t] = after]
    BY DEF ExpertStarts
  <1>2. PICK after \in {started, running} : task' = [task EXCEPT ![t] = after]
    BY <1>1
  <1>3. Typed(q) /\ UnderWay(q, stagesCharged[t]) /\ stagesCharged[t] \in Nat
    BY <1>1, TaskUnderWay
  <1> HIDE DEF q
  <1>4. started.running = q.running /\ Sound(started, stagesCharged[t])
    BY <1>3 DEF Sound, UnderWay, Typed, Fields
  <1>5. Sound(running, stagesCharged[t])
    BY <1>3 DEF Sound, UnderWay, Typed, Fields
  <1>6. Sound(after, stagesCharged[t])
    BY <1>2, <1>4, <1>5
  <1> QED
    BY <1>1, <1>2, <1>6, OneUncharged

LEMMA ExpertEndsKeeps == ASSUME Inv, NEW t \in Tasks, NEW i, ExpertEnds(t, i) PROVE Inv'
  <1> DEFINE q == task[t]
  <1>1. /\ q.pc = "experts" /\ UNCHANGED stagesCharged
        /\ \E success \in {0, 1} :
               task' = [task EXCEPT ![t] = [q EXCEPT !.running = q.running \ {i}, !.good = q.good + success,
                                                     !.used = q.used + 1, !.usage = q.usage + 1]]
    BY DEF ExpertEnds
  <1>2. PICK success :
               task' = [task EXCEPT ![t] = [q EXCEPT !.running = q.running \ {i}, !.good = q.good + success,
                                                     !.used = q.used + 1, !.usage = q.usage + 1]]
    BY <1>1
  <1>3. Typed(q) /\ UnderWay(q, stagesCharged[t]) /\ stagesCharged[t] \in Nat
    BY <1>1, TaskUnderWay
  <1>4. q.kind = "fusion"
    BY <1>1, <1>3 DEF UnderWay, Place
  <1> DEFINE running == q.running \ {i}
             good == q.good + success
             after == [q EXCEPT !.running = running, !.good = good, !.used = q.used + 1, !.usage = q.usage + 1]
  <1>5. task' = [task EXCEPT ![t] = after]
    BY <1>2
  <1> HIDE DEF q, running, good
  <1>6. /\ DOMAIN after = Fields /\ after.used = q.used + 1 /\ after.usage = q.usage + 1 /\ after.kind = q.kind
        /\ after.pc = q.pc /\ after.outcome = q.outcome /\ after.verdict = q.verdict
    BY <1>3 DEF Typed, Fields
  <1> HIDE DEF after
  <1>7. Typed(after)
    BY <1>3, <1>6 DEF Typed
  <1>8. UnderWay(after, stagesCharged[t])
    BY <1>3, <1>4, <1>6 DEF UnderWay
  <1> QED
    BY <1>1, <1>3, <1>5, <1>7, <1>8, OneUncharged DEF Sound

LEMMA ExpertsDoneKeeps == ASSUME Inv, NEW t \in Tasks, ExpertsDone(t) PROVE Inv'
  <1> DEFINE q == task[t]
             fusion == Fusions[q.name]
             needed == IF fusion.min = 0 THEN Len(fusion.experts) ELSE fusion.min
             after == IF Len(fusion.experts) = 0 \/ q.good < needed THEN Shortfall(q) ELSE GoTo(q, "synthesizer")
  <1>1. q.pc = "experts" /\ task' = [task EXCEPT ![t] = after] /\ Charge(t, after)
    BY DEF ExpertsDone
  <1>2. after \in {Shortfall(q), GoTo(q, "synthesizer")}
    OBVIOUS
  <1>3. Owes(q) /\ q.outcome = "" /\ q.verdict = "" /\ DOMAIN q = Fields /\ q.kind = "fusion" /\ stagesCharged[t] = 0
    <2>1. /\ Owes(q) /\ q.outcome = "" /\ q.verdict = "" /\ DOMAIN q = Fields
          /\ stagesCharged[t] = IF q.kind = "router" THEN q.used ELSE 0
      BY <1>1, AtStage
    <2> QED
      BY <1>1, <2>1 DEF Owes, Place
  <1> HIDE DEF after, q
  <1>4. CASE after = GoTo(q, "synthesizer")
    <2>1. Ahead(after, q)
      BY <1>3, <1>4, GoToIs DEF Ahead, Same, Place
    <2> QED
      BY <1>1, <1>3, <2>1, Forward
  <1>5. CASE after = Shortfall(q)
    <2> DEFINE f == Failed(q)
    <2>1. Same(f, q) /\ f.pc = "ended" /\ f.outcome = "failed"
      BY <1>3, FailedIs
    <2>2. after = [f EXCEPT !.usage = 0, !.verdict = "shortfall"]
      BY <1>5 DEF Shortfall
    <2> HIDE DEF f
    <2>3. /\ DOMAIN after = Fields /\ after.used = q.used /\ after.usage = 0 /\ after.kind = "fusion"
          /\ after.pc = "ended" /\ after.verdict = "shortfall"
      BY <1>3, <2>1, <2>2 DEF Same, Fields
    <2>4. Typed(after) /\ Validated(after)
      <3>1. q.used \in Nat
        BY <1>3, Zenon DEF Typed, Owes
      <3>2. Typed(after)
        BY <2>3, <3>1, ZeroIsNat, Zenon DEF Typed
      <3>3. Validated(after)
        BY <2>3 DEF Validated, Closed
      <3> QED
        BY <3>2, <3>3
    <2>5. Sound(after, 0)
      BY <2>3, <2>4, ZeroIsNat, Zenon DEF Sound, Over
    <2>6. stagesCharged' = [stagesCharged EXCEPT ![t] = 0]
      <3>1. stagesCharged' = [stagesCharged EXCEPT ![t] = stagesCharged[t] + after.usage]
        BY <1>1, <2>3, Zenon DEF Charge
      <3>2. stagesCharged[t] + after.usage = 0
        <4>1. stagesCharged[t] = 0 /\ after.usage \in Nat /\ after.usage = 0
          BY <1>3, <2>3, ZeroIsNat, Zenon
        <4>2. stagesCharged[t] + after.usage = after.usage
          BY <4>1, ZeroPlus, Zenon
        <4> QED
          BY <4>1, <4>2, Zenon
      <3> QED
        BY <3>1, <3>2
    <2> QED
      BY <1>1, <2>5, <2>6, OneChanges
  <1> QED
    BY <1>2, <1>4, <1>5

LEMMA ServeKeeps == ASSUME Inv, NEW t \in Tasks, Serve(t) PROVE Inv'
  <1> DEFINE q == task[t]
  <1>1. /\ q.pc = "route" /\ UNCHANGED stagesCharged
        /\ \E after \in {Failed(q), Answer(q, "fallback engine")} : task' = [task EXCEPT ![t] = after]
    BY DEF Serve
  <1>2. PICK after \in {Failed(q), Answer(q, "fallback engine")} : task' = [task EXCEPT ![t] = after]
    BY <1>1
  <1>3. Typed(q) /\ UnderWay(q, stagesCharged[t]) /\ stagesCharged[t] \in Nat
    BY <1>1, TaskUnderWay
  <1> HIDE DEF q
  <1>4. q.kind \in {"router", "model"} /\ q.verdict = "" /\ stagesCharged[t] = q.used
    BY <1>1, <1>3 DEF UnderWay, Place
  <1>5. Same(after, q) /\ after.pc = "ended"
    <2>1. DOMAIN q = Fields
      BY <1>3, Zenon DEF Typed
    <2>2. CASE after = Failed(q)
      BY <2>1, <2>2, FailedIs
    <2>3. CASE after = Answer(q, "fallback engine")
      <3>1. ASSUME NEW content PROVE Same(Answer(q, content), q) /\ Answer(q, content).pc = "ended"
        BY <2>1, AnswerIs
      <3> QED
        BY <2>3, <3>1, Zenon
    <2> QED
      BY <2>2, <2>3
  <1>6. Typed(after) /\ Validated(after)
    BY <1>3, <1>4, <1>5 DEF Typed, Same, Validated, Closed
  <1>7. Over(after, stagesCharged[t])
    BY <1>4, <1>5, <1>6 DEF Over, Same
  <1> QED
    BY <1>1, <1>2, <1>3, <1>6, <1>7, OneUncharged DEF Sound

LEMMA InitInv == OrchestrationInit => Inv
  <1> SUFFICES ASSUME OrchestrationInit PROVE Inv
    OBVIOUS
  <1>1. /\ DOMAIN NoTask = Fields /\ NoTask.used = 0 /\ NoTask.usage = 0 /\ NoTask.outcome = ""
        /\ NoTask.verdict = "" /\ NoTask.kind = "" /\ NoTask.pc = "idle"
    BY DEF NoTask, Fields
  <1>2. task = [t \in Tasks |-> NoTask] /\ stagesCharged = [t \in Tasks |-> 0]
    BY DEF OrchestrationInit
  <1> HIDE DEF NoTask
  <1>3. Sound(NoTask, 0)
    <2>1. Typed(NoTask)
      BY <1>1, ZeroIsNat, Zenon DEF Typed
    <2>2. UnderWay(NoTask, 0)
      BY <1>1 DEF UnderWay, Place
    <2> QED
      BY <2>1, <2>2, ZeroIsNat, Zenon DEF Sound
  <1> QED
    BY <1>2, <1>3 DEF Inv

LEMMA NextInv == Inv /\ [OrchestrationNext]_orchestrationVars => Inv'
  <1> SUFFICES ASSUME Inv, [OrchestrationNext]_orchestrationVars PROVE Inv'
    OBVIOUS
  <1>1. CASE UNCHANGED orchestrationVars
    BY <1>1 DEF Inv, orchestrationVars
  <1>2. CASE OrchestrationNext
    BY <1>2, AskKeeps, StageStartsKeeps, StageFailsKeeps, StageFailsChargedKeeps, StageAnswersKeeps,
       ExpertStartsKeeps, ExpertEndsKeeps, ExpertsDoneKeeps, ServeKeeps DEF OrchestrationNext
  <1> QED
    BY <1>1, <1>2

(***************************************************************************)
(* Theorems.                                                               *)
(***************************************************************************)

\* The inductive invariant: every request is under way with its tokens owed
\* or, a router's, recorded, or it is over with everything recorded.
THEOREM RequestsAreSound == Spec => []Inv
  BY InitInv, NextInv, PTL DEF Spec

\* Every token a stage reported is recorded for the API key, once, when the
\* request has ended (runGuardrail, runFusion, runPromptClassifier).
THEOREM StagesCharged == Spec => []StagesAreCharged
  <1>1. Inv => StagesAreCharged
    <2> SUFFICES ASSUME Inv, NEW t \in Tasks, task[t].pc = "ended"
                 PROVE  stagesCharged[t] = IF task[t].verdict = "shortfall" THEN 0 ELSE task[t].used
      BY DEF StagesAreCharged
    <2>1. Sound(task[t], stagesCharged[t])
      BY DEF Inv
    <2> QED
      BY <2>1 DEF Sound, UnderWay, Over, Place
  <1> QED
    BY <1>1, RequestsAreSound, PTL

\* A guardrail that is closed at its validator lets through only what the
\* validator passed or wrote (runGuardrail).
THEOREM ClosedIsValidated == Spec => []FailClosedIsValidated
  <1>1. Inv => FailClosedIsValidated
    <2> SUFFICES ASSUME Inv, NEW t \in Tasks, Closed(task[t]), task[t].outcome = "answered"
                 PROVE  \/ task[t].verdict = "pass" /\ task[t].content = "main"
                        \/ /\ task[t].verdict = "rewrite"
                           /\ task[t].content = (IF task[t].structured THEN "main" ELSE "rewrite")
      BY DEF FailClosedIsValidated, Closed
    <2>1. Sound(task[t], stagesCharged[t])
      BY DEF Inv
    <2>2. Validated(task[t])
      BY <2>1 DEF Sound, UnderWay, Over
    <2> QED
      BY <2>2 DEF Validated
  <1> QED
    BY <1>1, RequestsAreSound, PTL

(***************************************************************************)
(* The turns of the combos.  A round gives every model its turns, in order;*)
(* before its end the models that had theirs are ahead by all of them, and *)
(* the one whose turn it is by those it took.  Once the last model takes   *)
(* its turns the others lose their lead.                                   *)
(***************************************************************************)
Size(c) == Len(Combos[c].models)
TurnsOf(c) == IF Combos[c].sticky = 0 THEN 1 ELSE Combos[c].sticky

RoundLead(c, index, count, i) ==
    IF i <= index THEN (IF index = Size(c) - 1 THEN TurnsOf(c) - count ELSE TurnsOf(c))
    ELSE IF i = index + 1 /\ index # Size(c) - 1 THEN count
    ELSE 0

InRound(c, index, count) ==
    /\ comboTurn[c] = [index |-> index, count |-> count]
    /\ comboLead[c] = [i \in 1..Size(c) |-> RoundLead(c, index, count, i)]

TurnInv ==
    /\ DOMAIN comboTurn = DOMAIN Combos /\ DOMAIN comboLead = DOMAIN Combos
    /\ \A c \in DOMAIN Combos :
         IF Rotates(c)
         THEN \E index \in 0..(Size(c) - 1), count \in 0..(TurnsOf(c) - 1) : InRound(c, index, count)
         ELSE comboLead[c] = [i \in 1..Size(c) |-> 0]

LEMMA ComboSizes ==
    ASSUME NEW c \in DOMAIN Combos
    PROVE  /\ Size(c) \in Nat /\ DOMAIN Combos[c].models = 1..Size(c)
           /\ TurnsOf(c) \in Nat \ {0} /\ Combos[c].sticky \in Nat
           /\ Rotates(c) => Size(c) > 1
  BY CombosAssumption DEF Size, TurnsOf, Rotates

LEMMA MinIs ==
    ASSUME NEW S, NEW m \in S, S \subseteq Nat, \A x \in S : m <= x
    PROVE  Min(S) = m
  <1>1. \E x \in S : \A y \in S : x <= y
    OBVIOUS
  <1>2. Min(S) \in S /\ \A y \in S : Min(S) <= y
    BY <1>1 DEF Min
  <1>3. Min(S) \in Nat /\ m \in Nat /\ m <= Min(S) /\ Min(S) <= m
    BY <1>2
  <1> HIDE DEF Min
  <1> QED
    BY <1>3

LEMMA Modulo ==
    ASSUME NEW n \in Nat \ {0}, NEW i \in 0..(n - 1)
    PROVE  i % n = i /\ (i + 1) % n = IF i = n - 1 THEN 0 ELSE i + 1
  <1>1. \A j \in 0..(n - 1) : j % n = j
    OBVIOUS
  <1>2. n % n = 0
    OBVIOUS
  <1>3. CASE i = n - 1
    BY <1>1, <1>2, <1>3
  <1>4. CASE i # n - 1
    <2>1. i + 1 \in 0..(n - 1)
      BY <1>4
    <2> QED
      BY <1>1, <1>4, <2>1
  <1> QED
    BY <1>3, <1>4

LEMMA TurnKeeps ==
    ASSUME TurnInv, NEW c, TakeTurn(c) PROVE TurnInv'
  <1>1. CASE ~Rotates(c)
    BY <1>1 DEF TakeTurn, TurnInv, InRound
  <1>2. CASE Rotates(c)
    <2> DEFINE n == Size(c)
               turns == TurnsOf(c)
    <2>1. /\ c \in DOMAIN Combos /\ n \in Nat /\ n > 1 /\ turns \in Nat \ {0}
          /\ Combos[c].sticky \in Nat
      BY <1>2, ComboSizes DEF Rotates
    <2>2. PICK index \in 0..(n - 1), count \in 0..(turns - 1) : InRound(c, index, count)
      BY <1>2, <2>1 DEF TurnInv
    <2>3. /\ comboTurn[c].index % n = index
          /\ (index + 1) % n = IF index = n - 1 THEN 0 ELSE index + 1
      <3>1. comboTurn[c].index = index
        BY <2>2 DEF InRound
      <3>2. index % n = index /\ (index + 1) % n = IF index = n - 1 THEN 0 ELSE index + 1
        BY <2>1, Modulo
      <3> QED
        BY <3>1, <3>2
    <2> DEFINE lead == [comboLead[c] EXCEPT ![index + 1] = @ + 1]
               least == IF index = n - 1 THEN 1 ELSE 0
               over == count + 1 = turns
               newIndex == IF over THEN (IF index = n - 1 THEN 0 ELSE index + 1) ELSE index
               newCount == IF over THEN 0 ELSE count + 1
    <2>4. Turned(c) = [index |-> newIndex, count |-> newCount]
      <3>1. comboTurn[c].count = count
        BY <2>2 DEF InRound
      <3>2. (count + 1 >= Combos[c].sticky) <=> over
        BY <2>1 DEF TurnsOf
      <3> QED
        BY <2>3, <3>1, <3>2 DEF Turned, Size
    <2>5. /\ comboTurn' = [comboTurn EXCEPT ![c] = Turned(c)]
          /\ comboLead' = [comboLead EXCEPT ![c] = [i \in DOMAIN lead |-> lead[i] - Min(Range(lead))]]
      BY <1>2, <2>3 DEF TakeTurn, Size
    <2>6. DOMAIN comboLead[c] = 1..n /\ \A i \in 1..n : comboLead[c][i] = RoundLead(c, index, count, i)
      BY <2>2 DEF InRound
    <2>7. /\ lead \in [1..n -> Nat]
          /\ \A i \in 1..n :
               lead[i] = IF i <= index THEN (IF index = n - 1 THEN turns - count ELSE turns)
                         ELSE IF i = index + 1 THEN (IF index = n - 1 THEN 1 ELSE count + 1) ELSE 0
      <3>1. DOMAIN lead = 1..n
        BY <2>6
      <3>2. \A i \in 1..n : lead[i] = IF i = index + 1 THEN comboLead[c][i] + 1 ELSE comboLead[c][i]
        BY <2>6
      <3>3. lead = [i \in 1..n |-> lead[i]]
        BY <3>1
      <3> HIDE DEF lead, n, turns
      <3>4. \A i \in 1..n :
               lead[i] = IF i <= index THEN (IF index = n - 1 THEN turns - count ELSE turns)
                         ELSE IF i = index + 1 THEN (IF index = n - 1 THEN 1 ELSE count + 1) ELSE 0
        BY <2>1, <2>6, <3>2 DEF RoundLead, n, turns
      <3>5. \A i \in 1..n : lead[i] \in Nat
        BY <2>1, <3>4
      <3> QED
        BY <3>3, <3>4, <3>5
    <2> HIDE DEF lead, n, turns, over
    <2>8. Min(Range(lead)) = least
      <3>1. DOMAIN lead = 1..n /\ \A i \in 1..n : lead[i] \in Nat
        BY <2>7
      <3>2. Range(lead) \subseteq Nat
        BY <3>1 DEF Range
      <3>3. n \in DOMAIN lead /\ lead[n] = least
        BY <2>1, <2>7, <3>1
      <3>4. least \in Range(lead)
        BY <3>3 DEF Range
      <3>5. ASSUME NEW i \in 1..n PROVE least <= lead[i]
        BY <2>1, <2>7
      <3>6. \A x \in Range(lead) : least <= x
        BY <3>1, <3>5 DEF Range
      <3> HIDE DEF least
      <3> QED
        BY <3>2, <3>4, <3>6, MinIs
    <2>9. newIndex \in 0..(n - 1) /\ newCount \in 0..(turns - 1)
      BY <2>1 DEF over
    <2>10. ASSUME NEW i \in 1..n
           PROVE  lead[i] - least = RoundLead(c, newIndex, newCount, i)
      BY <2>1, <2>7 DEF RoundLead, over, n, turns
    <2>11. /\ comboTurn'[c] = [index |-> newIndex, count |-> newCount]
           /\ comboLead'[c] = [i \in 1..n |-> RoundLead(c, newIndex, newCount, i)]
      <3>1. DOMAIN lead = 1..n
        BY <2>7
      <3>2. [i \in DOMAIN lead |-> lead[i] - Min(Range(lead))]
              = [i \in 1..n |-> RoundLead(c, newIndex, newCount, i)]
        BY <2>8, <2>10, <3>1
      <3> QED
        BY <2>1, <2>4, <2>5, <3>2 DEF TurnInv
    <2> HIDE DEF newIndex, newCount
    <2>12. \E k \in 0..(n - 1), m \in 0..(turns - 1) : InRound(c, k, m)'
      BY <2>9, <2>11 DEF InRound, n
    <2>13. ASSUME NEW d \in DOMAIN Combos, d # c
           PROVE  comboTurn'[d] = comboTurn[d] /\ comboLead'[d] = comboLead[d]
      BY <2>5, <2>13 DEF TurnInv
    <2>14. DOMAIN comboTurn' = DOMAIN Combos /\ DOMAIN comboLead' = DOMAIN Combos
      BY <2>5 DEF TurnInv
    <2>15. ASSUME NEW d \in DOMAIN Combos
           PROVE  IF Rotates(d)
                  THEN \E k \in 0..(Size(d) - 1), m \in 0..(TurnsOf(d) - 1) : InRound(d, k, m)'
                  ELSE comboLead'[d] = [i \in 1..Size(d) |-> 0]
      <3>1. CASE d = c
        BY <1>2, <2>12, <3>1 DEF n, turns
      <3>2. CASE d # c
        <4>1. comboTurn'[d] = comboTurn[d] /\ comboLead'[d] = comboLead[d]
          BY <2>13, <3>2
        <4>2. \A k, m : InRound(d, k, m) => InRound(d, k, m)'
          BY <4>1 DEF InRound
        <4>3. IF Rotates(d)
              THEN \E k \in 0..(Size(d) - 1), m \in 0..(TurnsOf(d) - 1) : InRound(d, k, m)
              ELSE comboLead[d] = [i \in 1..Size(d) |-> 0]
          BY DEF TurnInv
        <4> QED
          BY <4>1, <4>2, <4>3
      <3> QED
        BY <3>1, <3>2
    <2> QED
      BY <2>14, <2>15 DEF TurnInv
  <1> QED
    BY <1>1, <1>2

LEMMA TurnStep == TurnInv /\ [OrchestrationNext]_orchestrationVars => TurnInv'
  <1> SUFFICES ASSUME TurnInv, [OrchestrationNext]_orchestrationVars PROVE TurnInv'
    OBVIOUS
  <1>1. (\E target : TakeTurn(target)) \/ UNCHANGED <<comboTurn, comboLead>>
    <2>1. CASE UNCHANGED orchestrationVars
      BY <2>1 DEF orchestrationVars
    <2>2. ASSUME NEW t \in Tasks, StageStarts(t)
          PROVE  (\E target : TakeTurn(target)) \/ UNCHANGED <<comboTurn, comboLead>>
      BY <2>2, Zenon DEF StageStarts
    <2>3. ASSUME NEW t \in Tasks, NEW i, ExpertStarts(t, i) PROVE \E target : TakeTurn(target)
      BY <2>3, Zenon DEF ExpertStarts
    <2>4. ASSUME NEW t \in Tasks, Serve(t)
          PROVE  (\E target : TakeTurn(target)) \/ UNCHANGED <<comboTurn, comboLead>>
      BY <2>4, Zenon DEF Serve
    <2>5. ASSUME NEW t \in Tasks, Ask(t) \/ StageFails(t) \/ StageFailsCharged(t) \/ StageAnswers(t)
                 \/ ExpertsDone(t) \/ \E i \in task[t].running : ExpertEnds(t, i)
          PROVE  UNCHANGED <<comboTurn, comboLead>>
      BY <2>5, Zenon
      DEF Ask, StageFails, StageFailsCharged, StageAnswers, ExpertsDone, ExpertEnds
    <2> QED
      BY <2>1, <2>2, <2>3, <2>4, <2>5, Zenon DEF OrchestrationNext
  <1>2. CASE UNCHANGED <<comboTurn, comboLead>>
    BY <1>2 DEF TurnInv, InRound
  <1> QED
    BY <1>1, <1>2, TurnKeeps

LEMMA TurnInit == OrchestrationInit => TurnInv
  <1> SUFFICES ASSUME OrchestrationInit PROVE TurnInv
    OBVIOUS
  <1>1. /\ comboTurn = [c \in DOMAIN Combos |-> [index |-> 0, count |-> 0]]
        /\ comboLead = [c \in DOMAIN Combos |-> [i \in DOMAIN Combos[c].models |-> 0]]
    BY DEF OrchestrationInit
  <1>2. ASSUME NEW c \in DOMAIN Combos
        PROVE  IF Rotates(c)
               THEN \E index \in 0..(Size(c) - 1), count \in 0..(TurnsOf(c) - 1) : InRound(c, index, count)
               ELSE comboLead[c] = [i \in 1..Size(c) |-> 0]
    <2>1. comboLead[c] = [i \in 1..Size(c) |-> 0]
      BY <1>1, ComboSizes
    <2>2. CASE Rotates(c)
      <3>1. 0 \in 0..(Size(c) - 1) /\ 0 \in 0..(TurnsOf(c) - 1)
        BY <2>2, ComboSizes
      <3>2. \A i \in 1..Size(c) : RoundLead(c, 0, 0, i) = 0
        BY <2>2, ComboSizes DEF RoundLead
      <3>3. InRound(c, 0, 0)
        BY <1>1, <2>1, <3>2 DEF InRound
      <3> QED
        BY <2>2, <3>1, <3>3
    <2> QED
      BY <2>1, <2>2
  <1> QED
    BY <1>1, <1>2 DEF TurnInv

\* No model of a combo is ever ahead of another by more than the turns of one
\* round, whoever asks and however many at once (combo.go, rotate).
THEOREM ComboTurnsStayFair == Spec => []ComboTurnsAreFair
  <1>1. TurnInv => ComboTurnsAreFair
    <2> SUFFICES ASSUME TurnInv, NEW c \in DOMAIN Combos, NEW i \in DOMAIN comboLead[c]
                 PROVE  comboLead[c][i] <= TurnsOf(c)
      BY DEF ComboTurnsAreFair, TurnsOf
    <2>1. TurnsOf(c) \in Nat \ {0} /\ Size(c) \in Nat
      BY ComboSizes
    <2>2. CASE Rotates(c)
      <3>1. PICK index \in 0..(Size(c) - 1), count \in 0..(TurnsOf(c) - 1) : InRound(c, index, count)
        BY <2>2 DEF TurnInv
      <3>2. i \in 1..Size(c) /\ comboLead[c][i] = RoundLead(c, index, count, i)
        BY <3>1 DEF InRound
      <3> QED
        BY <2>1, <3>2 DEF RoundLead
    <2>3. CASE ~Rotates(c)
      BY <2>1, <2>3 DEF TurnInv
    <2> QED
      BY <2>2, <2>3
  <1> QED
    BY <1>1, TurnInit, TurnStep, PTL DEF Spec
================================================================================
