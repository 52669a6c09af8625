--------------------------------- MODULE KeyPool ---------------------------------
(***************************************************************************)
(* The API keys of one provider: which key a call gets                     *)
(* (internal/provider/key_pool.go), how a call retries with another key    *)
(* (internal/gateway/key_retry.go), the calls that must not retry          *)
(* (strict_attempt.go, media.go), and the dashboard forms that change the  *)
(* keys and forget the cooldowns (internal/dashboard/forms.go).            *)
(*                                                                         *)
(* A call works on the provider it read when it began; the pool, with its  *)
(* cooldowns and its rotation, is shared and is locked for one operation   *)
(* at a time.  A secret is not modelled, a key is its id.                  *)
(***************************************************************************)
EXTENDS Naturals, Sequences, FiniteSets, SequencesExt

CONSTANTS
    Keys,           \* key ids, in the order of Provider.Keys
    Priority,       \* key -> its Priority
    StickyLimit,    \* Provider.StickyLimit, after NormalizeProvider
    HasLegacy,      \* the provider also has an APIKey or an AccessToken
    Calls,          \* requests that reach the provider
    Forms,          \* key forms of the dashboard, each submitted once
    KeyCooldowns,   \* status that blames the key -> durations cooldownForKeyStatus gives
    MaxKeyRetries   \* keyRetryMaxBounds

KeyIds == Range(Keys)

ASSUME StickyAssumption == StickyLimit \in Nat \ {0}
ASSUME RetriesAssumption == MaxKeyRetries \in Nat \ {0} /\ HasLegacy \in BOOLEAN
ASSUME CooldownsAssumption ==
    \A status \in DOMAIN KeyCooldowns : KeyCooldowns[status] \subseteq Nat \ {0}

NoKey == "no key"
Legacy == "legacy"

\* Ids differ (NormalizeProviderKeys gives a key another one when its own is taken);
\* a key called "legacy" would be taken for the provider's own (key_retry.go:71).
ASSUME KeysAssumption ==
    /\ Keys \in Seq(STRING) /\ Keys # <<>> /\ Legacy \notin KeyIds /\ NoKey \notin KeyIds
    /\ \A i, j \in DOMAIN Keys : Keys[i] = Keys[j] => i = j
    /\ \A k \in KeyIds : Priority[k] \in Nat \ {0}

VARIABLES
    provider,       \* the stored row: [keys |-> key -> Enabled, strategy]
    cooldown,       \* KeyPool.cooldowns: key -> ticks to its expiry, 0 none
    rotation,       \* KeyPool.rotations of the provider: LastIndex, ConsecutiveCount
    call,           \* calls in flight and ended
    form,           \* key forms
    turns           \* how many turns each key of the list of available keys has had
                    \* more than the one with the fewest, since that list changed

keyVars == <<provider, cooldown, rotation, call, form, turns>>

Strategies == {"fill-first", "round-robin"}
NoRotation == [index |-> 0, count |-> 0]
NoTurns == [list |-> <<>>, taken |-> [k \in KeyIds |-> 0]]
NoCallYet == [pc |-> "idle", kind |-> "", keys |-> <<>>, strategy |-> "", attempt |-> 0,
              used |-> NoKey, outcome |-> "", disturbed |-> FALSE]

NoForm(pc) == [pc |-> pc, row |-> [keys |-> [k \in KeyIds |-> TRUE], strategy |-> "fill-first"]]

KeyInit ==
    /\ \E s \in Strategies : provider = [keys |-> [k \in KeyIds |-> TRUE], strategy |-> s]
    /\ cooldown = [k \in KeyIds |-> 0]
    /\ rotation = NoRotation
    /\ call = [c \in Calls |-> NoCallYet]
    /\ form = [f \in Forms |-> NoForm("idle")]
    /\ turns = NoTurns

EnabledKeys(row) == {k \in DOMAIN row.keys : row.keys[k]}
Cooling(k) == cooldown[k] > 0

(***************************************************************************)
(* SelectKey, and the two strategies.  Turn is what the rotation becomes.  *)
(***************************************************************************)
AvailableKeys(row) ==
    LET available[i \in 0..Len(Keys)] ==
            IF i = 0 THEN <<>>
            ELSE IF Keys[i] \in EnabledKeys(row) /\ ~Cooling(Keys[i])
                 THEN Append(available[i - 1], Keys[i])
                 ELSE available[i - 1]
    IN  available[Len(Keys)]

FillFirst(list) ==
    LET before(i, j) == \/ Priority[list[i]] < Priority[list[j]]
                        \/ Priority[list[i]] = Priority[list[j]] /\ i <= j
    IN  list[CHOOSE i \in DOMAIN list : \A j \in DOMAIN list : before(i, j)]

\* Mutant: the key that takes over starts at zero turns.
TurnUncounted(list) ==
    IF rotation.index < Len(list) /\ rotation.count < StickyLimit
    THEN [rotation EXCEPT !.count = @ + 1]
    ELSE [index |-> (rotation.index + 1) % Len(list), count |-> 0]

Turn(list) ==
    LET entry == IF rotation.index < Len(list) THEN rotation ELSE NoRotation
    IN  IF entry.count < StickyLimit
        THEN [entry EXCEPT !.count = @ + 1]
        ELSE [index |-> (entry.index + 1) % Len(list), count |-> 1]

Taken(list, k) ==
    LET before == IF turns.list = list THEN turns ELSE [NoTurns EXCEPT !.list = list]
        after == [before.taken EXCEPT ![k] = @ + 1]
        fewest == Min({after[j] : j \in Range(list)})
    IN  [list |-> list, taken |-> [j \in KeyIds |-> IF j \in Range(list) THEN after[j] - fewest ELSE 0]]

\* SelectKey returns k, or NoKey when no key is enabled and out of cooldown.
SelectKey(row, k) ==
    LET list == AvailableKeys(row)
        robin == row.strategy = "round-robin"
    IN  /\ UNCHANGED cooldown
        /\ IF list = <<>> \/ ~robin
           THEN /\ k = IF list = <<>> THEN NoKey ELSE FillFirst(list)
                /\ UNCHANGED <<rotation, turns>>
           ELSE /\ rotation' = Turn(list)
                /\ k = list[rotation'.index + 1]
                /\ turns' = Taken(list, k)

(***************************************************************************)
(* A call.  Chat requests and stages retry with another key; strict ones   *)
(* (the dashboard's model test) and media requests are sent once.          *)
(***************************************************************************)
Kinds == {"chat", "single"}

\* executeWithKeyRetry may retry: not strict, not media, and there is a key.
RetriesKeys(c) == call[c].kind = "chat" /\ EnabledKeys(call[c]) # {}

AttemptBound(c) ==
    LET keys == Cardinality(EnabledKeys(call[c]))
    IN  IF call[c].kind # "chat" \/ keys = 0 THEN 1
        ELSE IF keys > MaxKeyRetries THEN MaxKeyRetries ELSE keys

BeginCall(c) ==
    /\ call[c].pc = "idle"
    /\ \E kind \in Kinds :
           call' = [call EXCEPT ![c] = [NoCallYet EXCEPT !.pc = "send", !.kind = kind,
                                           !.keys = provider.keys, !.strategy = provider.strategy]]
    /\ UNCHANGED <<provider, cooldown, rotation, form, turns>>

\* Of a call that has ended only a report of exhaustion is kept.
Ended(c, outcome) ==
    [call EXCEPT ![c] =
        IF outcome = "exhausted"
        THEN [NoCallYet EXCEPT !.pc = "ended", !.outcome = outcome,
                               !.keys = call[c].keys, !.disturbed = call[c].disturbed]
        ELSE [NoCallYet EXCEPT !.pc = "ended"]]

\* authorize takes a key, or the provider's own credential, or fails.
Send(c) ==
    /\ call[c].pc = "send"
    /\ \E k \in KeyIds \cup {NoKey} :
           /\ SelectKey(call[c], k)
           /\ call' = IF k = NoKey /\ ~HasLegacy
                      THEN Ended(c, "error")
                      ELSE [call EXCEPT ![c].pc = "sent",
                                        ![c].used = IF k = NoKey THEN Legacy ELSE k]
    /\ UNCHANGED <<provider, form>>

SendFails(c) ==
    /\ call[c].pc = "sent"
    /\ call' = Ended(c, "error")
    /\ UNCHANGED <<provider, cooldown, rotation, form, turns>>

\* A response that does not blame the key, or a call that may not retry.
Answered(c) ==
    /\ call[c].pc = "sent"
    /\ call' = Ended(c, "answered")
    /\ UNCHANGED <<provider, cooldown, rotation, form, turns>>

\* Mutant: the key of the failed attempt is not cooled down.
MarkNothing(k, status) == UNCHANGED cooldown

\* MarkUnavailable: the last mark counts, also when it ends earlier.
MarkUnavailable(k, status) ==
    IF k = Legacy
    THEN UNCHANGED cooldown
    ELSE \E d \in KeyCooldowns[status] : cooldown' = [cooldown EXCEPT ![k] = d]

KeyBlamed(c) ==
    /\ call[c].pc = "sent" /\ RetriesKeys(c)
    /\ \E status \in DOMAIN KeyCooldowns : MarkUnavailable(call[c].used, status)
    /\ call' = [call EXCEPT ![c].pc = "peek", ![c].used = NoKey]
    /\ UNCHANGED <<provider, rotation, form, turns>>

\* The peek is a selection like any other: it takes a turn of the rotation.
Peek(c) ==
    /\ call[c].pc = "peek"
    /\ \E k \in KeyIds \cup {NoKey} :
           /\ SelectKey(call[c], k)
           /\ call' = IF k = NoKey \/ call[c].attempt + 1 >= AttemptBound(c)
                      THEN Ended(c, "exhausted")
                      ELSE [call EXCEPT ![c].pc = "send", ![c].attempt = @ + 1]
    /\ UNCHANGED <<provider, form>>

(***************************************************************************)
(* The key forms: read the row, change it, write it back whole, forget     *)
(* cooldowns and rotation.  A provider left without keys gets its APIKey   *)
(* back as key "default", the first of Keys here (NormalizeProvider).      *)
(***************************************************************************)
NormalizeProvider(row) ==
    IF DOMAIN row.keys = {} /\ HasLegacy
    THEN [row EXCEPT !.keys = [k \in {Keys[1]} |-> TRUE]]
    ELSE row

FormLoads(f) ==
    /\ form[f].pc = "idle"
    /\ form' = [form EXCEPT ![f] = [pc |-> "loaded", row |-> provider]]
    /\ UNCHANGED <<provider, cooldown, rotation, call, turns>>

\* addKeyForm and bulkKeysForm: new keys are enabled.
WithKeys(row) ==
    {[row EXCEPT !.keys = [k \in DOMAIN row.keys \cup new |-> k \in new \/ row.keys[k]]] :
        new \in SUBSET (KeyIds \ DOMAIN row.keys)}

\* addKeyForm with a key id: edit.
WithEdit(row) == {[row EXCEPT !.keys[k] = ~@] : k \in DOMAIN row.keys}

\* deleteKeyForm, and the delete button of saveKeysConfigForm.
WithoutKey(row) ==
    {[row EXCEPT !.keys = [k \in DOMAIN row.keys \ {gone} |-> row.keys[k]]] : gone \in KeyIds}

\* saveKeysConfigForm.
WithStrategy(row) == {[row EXCEPT !.strategy = s] : s \in Strategies}

FormSaves(f) ==
    /\ form[f].pc = "loaded"
    /\ \E row \in UNION {WithKeys(form[f].row), WithEdit(form[f].row),
                         WithoutKey(form[f].row), WithStrategy(form[f].row)} :
           provider' = NormalizeProvider(row)
    /\ form' = [form EXCEPT ![f] = NoForm("saved")]
    /\ UNCHANGED <<cooldown, rotation, call, turns>>

\* The provider is gone, or cannot be read or written: nothing is forgotten.
FormFails(f) ==
    /\ form[f].pc \in {"idle", "loaded"}
    /\ form' = [form EXCEPT ![f] = NoForm("ended")]
    /\ UNCHANGED <<provider, cooldown, rotation, call, turns>>

ClearCooldowns(f) ==
    /\ form[f].pc = "saved"
    /\ form' = [form EXCEPT ![f] = NoForm("ended")]
    /\ cooldown' = [k \in KeyIds |-> 0]
    /\ rotation' = NoRotation /\ turns' = NoTurns
    /\ call' = [c \in Calls |-> [call[c] EXCEPT !.disturbed = TRUE]]
    /\ UNCHANGED <<provider>>

KeyTick ==
    /\ cooldown' = [k \in KeyIds |-> IF Cooling(k) THEN cooldown[k] - 1 ELSE 0]
    /\ call' = [c \in Calls |-> [call[c] EXCEPT !.disturbed = TRUE]]
    /\ UNCHANGED <<provider, rotation, form, turns>>

KeyNext ==
    \/ \E c \in Calls :
           \/ BeginCall(c) \/ Send(c) \/ SendFails(c) \/ Answered(c) \/ KeyBlamed(c) \/ Peek(c)
    \/ \E f \in Forms : FormLoads(f) \/ FormSaves(f) \/ FormFails(f) \/ ClearCooldowns(f)
    \/ KeyTick

(***************************************************************************)
(* Properties.                                                             *)
(***************************************************************************)

\* A call that reports "all API keys exhausted or unavailable" is right about
\* it: when no cooldown could end and none was forgotten since it began, every
\* key it knew is in cooldown, whatever the other calls did in between, and
\* the count of attempts was not what stopped it (key_retry.go).
ExhaustedIsTrue ==
    \A c \in Calls :
        (call[c].outcome = "exhausted" /\ ~call[c].disturbed
            /\ Cardinality(EnabledKeys(call[c])) <= MaxKeyRetries)
        => \A k \in EnabledKeys(call[c]) : Cooling(k)

\* The rotation is fair among the keys that are available: counted from the last
\* change of their list, no key is more than StickyLimit turns ahead of another,
\* peeks counted too, wherever the turns of another list, longer or shorter, left
\* the index (key_pool.go, selectRoundRobin).  Lists that alternate are not
\* covered: the code may then pass over a key for ever.
TurnsAreFair ==
    \A k \in KeyIds : turns.taken[k] <= StickyLimit
================================================================================
