------------------------- MODULE ApiKeyAdmissionProofs -------------------------
(***************************************************************************)
(* Proofs about ApiKeyAdmission, for any number of keys, handlers and      *)
(* dashboard sessions, any limits and any window.                          *)
(***************************************************************************)
EXTENDS ApiKeyAdmission, FiniteSetTheorems, TLAPS

\* The requests in flight on key k that were admitted under a limit of at most m.
Tight(k, m) ==
    {h \in Holders(k) : 0 < handler[h].policy.conc /\ handler[h].policy.conc <= m}

\* The strengthening of ConcurrencyBound that a release preserves: however small the
\* limit m, no more than m of the requests in flight were admitted under it.
TightBound ==
    \A k \in Keys, m \in 1..Cardinality(Handlers) : Cardinality(Tight(k, m)) <= m

\* The inductive invariant.
IInv == TypeOK /\ InFlightExact /\ TightBound

--------------------------------------------------------------------------------
LEMMA AbsentType == Absent \in Policy
<1>1. (CHOOSE n \in Rpms : TRUE) \in Rpms /\ (CHOOSE n \in Concs : TRUE) \in Concs
  BY AdmissionConstants
<1> QED BY <1>1 DEF Absent, Policy

LEMMA FormPolicyType == FormPolicy \subseteq Policy
<1> DEFINE Line == [present : {TRUE}, enabled : BOOLEAN, rpm : Rpms, conc : Concs, used : {0}]
<1>1. ASSUME NEW p \in Line PROVE p \in Policy
  <2>1. p = [present |-> p.present, enabled |-> p.enabled, rpm |-> p.rpm,
             conc |-> p.conc, used |-> p.used]
    OBVIOUS
  <2>2. p.present \in BOOLEAN /\ p.enabled \in BOOLEAN
    OBVIOUS
  <2>3. p.rpm \in Rpms /\ p.conc \in Concs
    OBVIOUS
  <2>4. p.used \in Nat
    OBVIOUS
  <2> HIDE DEF Line
  <2> QED BY <2>1, <2>2, <2>3, <2>4 DEF Policy
<1> QED BY <1>1, AbsentType DEF FormPolicy

LEMMA FreeType ==
  ASSUME NEW q \in Handling
  PROVE  /\ Free(q) \in Handling
         /\ Free(q).slot = FALSE /\ Free(q).key = q.key
<1>1. 0 \in 0..MaxAttempts
  BY AdmissionConstants
<1>2. Free(q) \in Handling
  BY <1>1, AbsentType DEF Free, Handling
<1>3. Free(q).slot = FALSE /\ Free(q).key = q.key
  BY DEF Free, Handling
<1> QED BY <1>2, <1>3

\* A handler that moves on to a well-typed request keeps the type of handler.
LEMMA HandlerMoves ==
  ASSUME TypeOK, NEW h \in Handlers, NEW q \in Handling, q.slot => q.pc = "serving",
         handler' = [handler EXCEPT ![h] = q]
  PROVE  /\ handler' \in [Handlers -> Handling]
         /\ \A g \in Handlers : handler'[g].slot => handler'[g].pc = "serving"
BY DEF TypeOK

LEMMA HoldersFinite ==
  ASSUME NEW k
  PROVE  IsFiniteSet(Holders(k)) /\ Cardinality(Holders(k)) \in Nat
<1>1. Holders(k) \in SUBSET Handlers
  BY DEF Holders
<1> QED BY <1>1, AdmissionConstants, FS_Subset, FS_CardinalityType

LEMMA TightFinite ==
  ASSUME NEW k, NEW m
  PROVE  IsFiniteSet(Tight(k, m)) /\ Cardinality(Tight(k, m)) \in Nat
<1>1. Tight(k, m) \in SUBSET Holders(k)
  BY DEF Tight
<1> QED BY <1>1, HoldersFinite, FS_Subset, FS_CardinalityType

--------------------------------------------------------------------------------
LEMMA TypeInit == Init => TypeOK
<1> SUFFICES ASSUME Init PROVE TypeOK
  OBVIOUS
<1>1. PICK k \in Keys :
        handler = [h \in Handlers |-> [pc |-> "idle", key |-> k, policy |-> Absent,
                                       slot |-> FALSE, attempts |-> 0]]
  BY DEF Init
<1>2. handler \in [Handlers -> Handling]
  BY <1>1, AbsentType, AdmissionConstants DEF Handling
<1>3. policy \in [Keys -> Policy]
  BY FormPolicyType DEF Init
<1>4. admin \in [Admins -> Editing]
  BY AbsentType DEF Init, Editing
<1>5. limiter \in [Keys -> Entry]
  BY AdmissionConstants DEF Init, Entry
<1>6. now \in Time /\ admitted \in [Keys -> [Time -> Nat]] /\ recreated \subseteq Keys
  BY AdmissionConstants DEF Init, Time
<1> QED
  BY <1>1, <1>2, <1>3, <1>4, <1>5, <1>6 DEF TypeOK

LEMMA TypeStep == TypeOK /\ [Next]_vars => TypeOK'
<1> SUFFICES ASSUME TypeOK, [Next]_vars PROVE TypeOK'
  OBVIOUS
<1> MaxTime \in Nat /\ MaxAttempts \in Nat
  BY AdmissionConstants
<1>1. CASE Tick
  BY <1>1 DEF Tick, TypeOK, Time, history
<1>2. ASSUME NEW h \in Handlers, HandlerStep(h) PROVE TypeOK'
  <2> DEFINE q == handler[h]
  <2>1. q \in Handling /\ q.key \in Keys /\ (q.slot => q.pc = "serving")
    BY DEF TypeOK, Handling
  <2>2. CASE LoadPolicy(h)
    <3>1. PICK k \in Keys :
            handler' = [handler EXCEPT ![h].pc = "loaded", ![h].key = k,
                                       ![h].policy = policy[k]]
      BY <2>2 DEF LoadPolicy
    <3> DEFINE new == [q EXCEPT !.pc = "loaded", !.key = k, !.policy = policy[k]]
    <3>2. new \in Handling
      BY DEF TypeOK, Handling
    <3>3. ~new.slot
      BY <2>1, <2>2 DEF LoadPolicy, Handling
    <3>4. handler' = [handler EXCEPT ![h] = new]
      BY <3>1
    <3> HIDE DEF new
    <3> QED BY <2>2, <3>2, <3>3, <3>4, HandlerMoves DEF LoadPolicy, TypeOK, history
  <2>3. CASE CheckQuota(h)
    <3> DEFINE new == [q EXCEPT !.pc = "checked"]
    <3>1. handler' = [handler EXCEPT ![h] = Free(q)] \/ handler' = [handler EXCEPT ![h] = new]
      BY <2>3 DEF CheckQuota
    <3>2. new \in Handling /\ ~new.slot
      BY <2>1, <2>3 DEF CheckQuota, Handling
    <3> HIDE DEF new, q
    <3>3. /\ handler' \in [Handlers -> Handling]
          /\ \A g \in Handlers : handler'[g].slot => handler'[g].pc = "serving"
      BY <2>1, <3>1, <3>2, HandlerMoves, FreeType
    <3> QED BY <2>3, <3>3 DEF CheckQuota, TypeOK, history
  <2>4. CASE Acquire(h)
    <3> DEFINE e == EntryNow(q.key)
               served == [q EXCEPT !.pc = "serving"]
               taken == [q EXCEPT !.pc = "serving", !.slot = TRUE]
    <3>1. now \in Int /\ limiter[q.key] \in Entry
      BY <2>1 DEF TypeOK, Time
    <3>2. e \in Entry
      BY <3>1 DEF EntryNow, Entry
    <3>3. [e EXCEPT !.requests = @ + 1, !.inFlight = @ + 1] \in Entry
      <4>1. e.requests + 1 \in Nat /\ e.inFlight + 1 \in Nat
        BY <3>2 DEF Entry
      <4> HIDE DEF e
      <4> QED BY <3>2, <4>1 DEF Entry
    <3>4. limiter' \in [Keys -> Entry]
      BY <2>1, <2>4, <3>3 DEF Acquire, TypeOK
    <3>5. admitted' = admitted \/ admitted' = [admitted EXCEPT ![q.key][now] = @ + 1]
      BY <2>4 DEF Acquire
    <3>6. admitted' \in [Keys -> [Time -> Nat]]
      <4>1. admitted \in [Keys -> [Time -> Nat]] /\ now \in Time
        BY DEF TypeOK
      <4> HIDE DEF q
      <4> QED BY <2>1, <3>5, <4>1
    <3>7. served \in Handling /\ taken \in Handling
      BY <2>1 DEF Handling
    <3>8. served.pc = "serving" /\ taken.pc = "serving"
      BY <2>1 DEF Handling
    <3>9. \/ handler' = [handler EXCEPT ![h] = served]
          \/ handler' = [handler EXCEPT ![h] = Free(q)]
          \/ handler' = [handler EXCEPT ![h] = taken]
      BY <2>4 DEF Acquire
    <3> HIDE DEF served, taken, q
    <3>10. /\ handler' \in [Handlers -> Handling]
           /\ \A g \in Handlers : handler'[g].slot => handler'[g].pc = "serving"
      BY <2>1, <3>7, <3>8, <3>9, HandlerMoves, FreeType
    <3> QED BY <2>4, <3>4, <3>6, <3>10 DEF Acquire, TypeOK
  <2>5. CASE RecordUsage(h)
    <3>1. policy[q.key] \in Policy /\ policy[q.key].used + 1 \in Nat
      BY <2>1 DEF TypeOK, Policy
    <3>2. [policy[q.key] EXCEPT !.used = @ + 1] \in Policy
      BY <3>1 DEF Policy
    <3>3. policy' \in [Keys -> Policy]
      BY <2>1, <2>5, <3>2 DEF RecordUsage, TypeOK
    <3> DEFINE new == [q EXCEPT !.attempts = @ + 1]
    <3>4. q.attempts + 1 \in 0..MaxAttempts
      BY <2>1, <2>5 DEF RecordUsage, Handling
    <3>5. new \in Handling /\ new.pc = "serving"
      BY <2>1, <2>5, <3>4 DEF RecordUsage, Handling
    <3>6. handler' = [handler EXCEPT ![h] = new]
      BY <2>5 DEF RecordUsage
    <3> HIDE DEF new
    <3> QED BY <2>5, <3>3, <3>5, <3>6, HandlerMoves DEF RecordUsage, TypeOK, history
  <2>6. CASE Release(h)
    <3>1. limiter[q.key] \in Entry
      BY <2>1 DEF TypeOK
    <3>2. [limiter[q.key] EXCEPT !.inFlight = IF @ > 0 THEN @ - 1 ELSE @] \in Entry
      BY <3>1 DEF Entry
    <3>3. limiter' \in [Keys -> Entry]
      BY <2>1, <2>6, <3>2 DEF Release, TypeOK
    <3>4. handler' = [handler EXCEPT ![h] = Free(q)]
      BY <2>6 DEF Release
    <3> HIDE DEF q
    <3> QED BY <2>1, <2>6, <3>3, <3>4, HandlerMoves, FreeType DEF Release, TypeOK, history
  <2> QED BY <1>2, <2>2, <2>3, <2>4, <2>5, <2>6 DEF HandlerStep
<1>3. ASSUME NEW s \in Admins, AdminLoad(s) PROVE TypeOK'
  <2>1. [admin[s] EXCEPT !.pc = "editing", !.loaded = policy] \in Editing
    BY DEF TypeOK, Editing
  <2>2. admin' \in [Admins -> Editing]
    BY <1>3, <2>1 DEF AdminLoad, TypeOK
  <2> QED BY <1>3, <2>2 DEF AdminLoad, TypeOK, history
<1>4. ASSUME NEW s \in Admins, AdminSave(s) PROVE TypeOK'
  <2>1. PICK items \in [Keys -> FormPolicy] \cup {admin[s].loaded} :
          /\ policy' = PreserveAPIKeyUsage(items)
          /\ recreated' = recreated \cup {k \in Keys : items[k].present /\ ~policy[k].present}
    BY <1>4 DEF AdminSave
  <2>2. admin[s].loaded \in [Keys -> Policy]
    BY DEF TypeOK, Editing
  <2>3. items \in [Keys -> Policy]
    BY FormPolicyType, <2>2
  <2>4. ASSUME NEW k \in Keys PROVE [items[k] EXCEPT !.used = policy[k].used] \in Policy
    <3>1. items[k] \in Policy /\ policy[k].used \in Nat
      BY <2>3 DEF Policy, TypeOK
    <3> QED BY <3>1 DEF Policy
  <2>5. policy' \in [Keys -> Policy]
    BY <2>1, <2>3, <2>4 DEF PreserveAPIKeyUsage
  <2>6. [pc |-> "idle", loaded |-> [k \in Keys |-> Absent], saves |-> admin[s].saves + 1]
          \in Editing
    BY AbsentType DEF TypeOK, Editing
  <2>7. admin' \in [Admins -> Editing]
    BY <1>4, <2>6 DEF AdminSave, TypeOK
  <2> QED BY <1>4, <2>1, <2>5, <2>7 DEF AdminSave, TypeOK
<1>5. CASE UNCHANGED vars
  BY <1>5 DEF vars, history, TypeOK
<1> QED
  BY <1>1, <1>2, <1>3, <1>4, <1>5 DEF Next, AdminStep

\* Types: every variable keeps its type, and only a request being served holds a
\* slot of the limiter.
THEOREM TypeCorrect == Spec => []TypeOK
BY TypeInit, TypeStep, PTL DEF Spec

--------------------------------------------------------------------------------
\* A step that gives and takes no slot.
LEMMA SlotsKept ==
  ASSUME \A h \in Handlers :
           /\ handler'[h].slot = handler[h].slot
           /\ handler[h].slot => /\ handler'[h].key = handler[h].key
                                 /\ handler'[h].policy = handler[h].policy,
         NEW k
  PROVE  Holders(k)' = Holders(k) /\ \A m : Tight(k, m)' = Tight(k, m)
BY DEF Holders, Tight

LEMMA SlotTaken ==
  ASSUME TypeOK, NEW h \in Handlers, ~handler[h].slot,
         handler' = [handler EXCEPT ![h].pc = "serving", ![h].slot = TRUE],
         NEW k
  PROVE  Holders(k)' = IF k = handler[h].key THEN Holders(k) \cup {h} ELSE Holders(k)
<1>1. /\ handler'[h].slot = TRUE /\ handler'[h].key = handler[h].key
      /\ \A g \in Handlers : g # h => handler'[g] = handler[g]
  BY DEF TypeOK, Handling
<1> QED BY <1>1 DEF Holders

LEMMA SlotFreed ==
  ASSUME TypeOK, NEW h \in Handlers,
         handler' = [handler EXCEPT ![h] = Free(@)],
         NEW k
  PROVE  /\ Holders(k)' = Holders(k) \ {h}
         /\ \A m : Tight(k, m)' \subseteq Tight(k, m)
<1>1. handler'[h].slot = FALSE
  BY FreeType DEF TypeOK
<1>2. \A g \in Handlers : g # h => handler'[g] = handler[g]
  BY DEF TypeOK
<1> QED BY <1>1, <1>2 DEF Holders, Tight

--------------------------------------------------------------------------------
LEMMA InvInit == Init => IInv
<1> SUFFICES ASSUME Init PROVE IInv
  OBVIOUS
<1>1. \A h \in Handlers : ~handler[h].slot
  BY DEF Init
<1>2. \A k : Holders(k) = {} /\ \A m : Tight(k, m) = {}
  BY <1>1 DEF Holders, Tight
<1>3. \A k \in Keys : limiter[k].inFlight = 0
  BY DEF Init
<1>4. Cardinality({}) = 0
  BY FS_EmptySet
<1>5. InFlightExact
  BY <1>2, <1>3, <1>4 DEF InFlightExact
<1>6. TightBound
  BY <1>2, <1>4 DEF TightBound
<1> QED BY TypeInit, <1>5, <1>6 DEF IInv

\* Nothing happens to the slots and to the limiter.
LEMMA Quiet ==
  ASSUME IInv, limiter' = limiter,
         \A h \in Handlers :
           /\ handler'[h].slot = handler[h].slot
           /\ handler[h].slot => /\ handler'[h].key = handler[h].key
                                 /\ handler'[h].policy = handler[h].policy
  PROVE  InFlightExact' /\ TightBound'
<1>1. \A k : Holders(k)' = Holders(k) /\ \A m : Tight(k, m)' = Tight(k, m)
  BY SlotsKept
<1>2. InFlightExact'
  BY <1>1 DEF IInv, InFlightExact
<1>3. TightBound'
  BY <1>1 DEF IInv, TightBound
<1> QED BY <1>2, <1>3
LEMMA InvStep == IInv /\ [Next]_vars => IInv'
<1> SUFFICES ASSUME IInv, [Next]_vars PROVE IInv'
  OBVIOUS
<1> TypeOK /\ InFlightExact /\ TightBound
  BY DEF IInv
<1>0. TypeOK'
  BY TypeStep
<1>1. ASSUME NEW h \in Handlers, LoadPolicy(h) PROVE InFlightExact' /\ TightBound'
  <2>1. ~handler[h].slot
    BY <1>1 DEF LoadPolicy, TypeOK
  <2>2. /\ \A g \in Handlers : g # h => handler'[g] = handler[g]
        /\ handler'[h].slot = handler[h].slot
    BY <1>1 DEF LoadPolicy, TypeOK, Handling
  <2> QED BY <1>1, <2>1, <2>2, Quiet DEF LoadPolicy
<1>2. ASSUME NEW h \in Handlers, CheckQuota(h) PROVE InFlightExact' /\ TightBound'
  <2>1. ~handler[h].slot
    BY <1>2 DEF CheckQuota, TypeOK
  <2>2. /\ \A g \in Handlers : g # h => handler'[g] = handler[g]
        /\ handler'[h].slot = FALSE
    <3>1. \/ handler' = [handler EXCEPT ![h] = Free(handler[h])]
          \/ handler' = [handler EXCEPT ![h] = [handler[h] EXCEPT !.pc = "checked"]]
      BY <1>2 DEF CheckQuota
    <3>2. Free(handler[h]).slot = FALSE
      BY FreeType DEF TypeOK
    <3>3. [handler[h] EXCEPT !.pc = "checked"].slot = FALSE
      BY <2>1 DEF TypeOK, Handling
    <3> QED BY <3>1, <3>2, <3>3 DEF TypeOK
  <2> QED BY <1>2, <2>1, <2>2, Quiet DEF CheckQuota, TypeOK, Handling
<1>3. ASSUME NEW h \in Handlers, Acquire(h) PROVE InFlightExact' /\ TightBound'
  <2>0. PICK k \in Keys, p \in Policy : k = handler[h].key /\ p = handler[h].policy
    BY DEF TypeOK, Handling
  <2>1. ~handler[h].slot
    BY <1>3 DEF Acquire, TypeOK
  <2>2. CASE ~Limited(p)
    <3>1. limiter' = limiter /\ handler' = [handler EXCEPT ![h].pc = "serving"]
      BY <1>3, <2>0, <2>2 DEF Acquire
    <3> QED BY <2>1, <3>1, Quiet DEF TypeOK, Handling
  <2>3. CASE Limited(p) /\ ~Admits(p, EntryNow(k))
    <3>1. limiter' = limiter /\ handler' = [handler EXCEPT ![h] = Free(handler[h])]
      BY <1>3, <2>0, <2>3 DEF Acquire
    <3>2. Free(handler[h]).slot = FALSE
      BY FreeType DEF TypeOK
    <3>3. /\ \A g \in Handlers : g # h => handler'[g] = handler[g]
          /\ handler'[h].slot = FALSE
      BY <3>1, <3>2 DEF TypeOK
    <3> QED BY <2>1, <3>1, <3>3, Quiet DEF TypeOK, Handling
  <2>4. CASE Limited(p) /\ Admits(p, EntryNow(k))
    <3>1. /\ limiter' = [limiter EXCEPT ![k] =
               [EntryNow(k) EXCEPT !.requests = @ + 1, !.inFlight = @ + 1]]
          /\ handler' = [handler EXCEPT ![h].pc = "serving", ![h].slot = TRUE]
      BY <1>3, <2>0, <2>4 DEF Acquire
    <3>2. EntryNow(k).inFlight = limiter[k].inFlight /\ EntryNow(k) \in Entry
      <4>1. limiter[k] \in Entry /\ now \in Int
        BY DEF TypeOK, Time
      <4>2. [limiter[k] EXCEPT !.started = now, !.requests = 0] \in Entry
        BY <4>1 DEF Entry
      <4> QED BY <4>1, <4>2 DEF EntryNow, Entry
    <3>3. limiter[k].inFlight = Cardinality(Holders(k))
      BY <2>1 DEF InFlightExact
    <3>4. \A j \in Keys : limiter'[j].inFlight =
                            IF j = k THEN limiter[k].inFlight + 1 ELSE limiter[j].inFlight
      BY <2>1, <3>1, <3>2 DEF TypeOK, Entry
    <3>5. \A j : Holders(j)' = IF j = k THEN Holders(k) \cup {h} ELSE Holders(j)
      BY <2>0, <2>1, <3>1, SlotTaken
    <3>6. h \notin Holders(k)
      BY <2>1 DEF Holders
    <3>7. Cardinality(Holders(k)') = Cardinality(Holders(k)) + 1
      BY <3>5, <3>6, HoldersFinite, FS_AddElement
    <3>8. InFlightExact'
      BY <3>3, <3>4, <3>5, <3>7 DEF InFlightExact
    <3>9. ASSUME NEW j \in Keys, NEW m \in 1..Cardinality(Handlers)
          PROVE  Cardinality(Tight(j, m)') <= m
      <4>1. /\ \A g \in Handlers : g # h => handler'[g] = handler[g]
            /\ handler'[h].policy = p
        BY <2>0, <3>1 DEF TypeOK, Handling
      <4>2. CASE j = k /\ 0 < p.conc /\ p.conc <= m
        <5>1. p.conc \in Nat /\ Cardinality(Holders(k)) < p.conc
          BY <2>4, <3>2, <3>3, <4>2, AdmissionConstants
          DEF Admits, TypeOK, Handling, Policy
        <5>2. Tight(k, m)' \in SUBSET (Holders(k) \cup {h})
          BY <3>5 DEF Tight
        <5>3. IsFiniteSet(Holders(k) \cup {h})
              /\ Cardinality(Holders(k) \cup {h}) = Cardinality(Holders(k)) + 1
          BY <3>6, HoldersFinite, FS_AddElement
        <5>4. /\ IsFiniteSet(Tight(k, m)')
              /\ Cardinality(Tight(k, m)') <= Cardinality(Holders(k)) + 1
          BY <5>2, <5>3, FS_Subset
        <5>5. Cardinality(Tight(k, m)') \in Nat
          BY <5>4, FS_CardinalityType
        <5> QED BY <4>2, <5>1, <5>4, <5>5, HoldersFinite
      <4>3. CASE ~(j = k /\ 0 < p.conc /\ p.conc <= m)
        <5>1. Tight(j, m)' = Tight(j, m)
          BY <2>1, <3>5, <3>6, <4>1, <4>3 DEF Tight, Holders
        <5> QED BY <5>1 DEF TightBound
      <4> QED BY <4>2, <4>3
    <3> QED BY <3>8, <3>9 DEF TightBound
  <2> QED BY <2>2, <2>3, <2>4
<1>4. ASSUME NEW h \in Handlers, RecordUsage(h) PROVE InFlightExact' /\ TightBound'
  <2>1. limiter' = limiter /\ handler' = [handler EXCEPT ![h].attempts = @ + 1]
    BY <1>4 DEF RecordUsage
  <2> QED BY <2>1, Quiet DEF TypeOK, Handling
<1>5. ASSUME NEW h \in Handlers, Release(h) PROVE InFlightExact' /\ TightBound'
  <2>0. PICK k \in Keys : k = handler[h].key
    BY DEF TypeOK, Handling
  <2>1. handler' = [handler EXCEPT ![h] = Free(@)]
    BY <1>5 DEF Release
  <2>2. \A j : Holders(j)' = Holders(j) \ {h} /\ \A m : Tight(j, m)' \subseteq Tight(j, m)
    BY <2>1, SlotFreed
  <2>3. TightBound'
    <3>1. ASSUME NEW j \in Keys, NEW m \in 1..Cardinality(Handlers)
          PROVE  Cardinality(Tight(j, m)') <= m
      <4>1. /\ IsFiniteSet(Tight(j, m)')
            /\ Cardinality(Tight(j, m)') <= Cardinality(Tight(j, m))
        BY <2>2, TightFinite, FS_Subset
      <4>2. Cardinality(Tight(j, m)') \in Nat
        BY <4>1, FS_CardinalityType
      <4>3. Cardinality(Tight(j, m)) <= m
        BY DEF TightBound
      <4> QED BY <4>1, <4>2, <4>3, TightFinite
    <3> QED BY <3>1 DEF TightBound
  <2>4. ASSUME NEW j \in Keys, h \notin Holders(j) PROVE Holders(j)' = Holders(j)
    BY <2>2, <2>4
  <2>5. CASE handler[h].slot
    <3>1. h \in Holders(k) /\ \A j \in Keys : j # k => h \notin Holders(j)
      BY <2>0, <2>5 DEF Holders
    <3>2. Cardinality(Holders(k)') = Cardinality(Holders(k)) - 1
      BY <2>2, <3>1, HoldersFinite, FS_RemoveElement
    <3>3. Cardinality(Holders(k)) > 0
      BY <3>1, HoldersFinite, FS_EmptySet
    <3>4. limiter[k].inFlight = Cardinality(Holders(k))
      BY <2>1 DEF InFlightExact
    <3>5. limiter' = [limiter EXCEPT ![k].inFlight = IF @ > 0 THEN @ - 1 ELSE @]
      BY <1>5, <2>0, <2>5 DEF Release
    <3>6. \A j \in Keys : limiter'[j].inFlight =
                            IF j = k THEN limiter[k].inFlight - 1 ELSE limiter[j].inFlight
      BY <2>1, <3>3, <3>4, <3>5 DEF TypeOK, Entry
    <3>7. InFlightExact'
      BY <2>4, <3>1, <3>2, <3>4, <3>6 DEF InFlightExact
    <3> QED BY <2>3, <3>7
  <2>6. CASE ~handler[h].slot
    <3>1. \A j : h \notin Holders(j)
      BY <2>6 DEF Holders
    <3>2. limiter' = limiter
      BY <1>5, <2>6 DEF Release
    <3>3. InFlightExact'
      BY <2>4, <3>1, <3>2 DEF InFlightExact
    <3> QED BY <2>3, <3>3
  <2> QED BY <2>5, <2>6
<1>6. ASSUME UNCHANGED <<limiter, handler>> PROVE InFlightExact' /\ TightBound'
  BY <1>6, Quiet
<1>7. CASE Tick \/ (\E s \in Admins : AdminStep(s)) \/ UNCHANGED vars
  <2>1. UNCHANGED <<limiter, handler>>
    BY <1>7 DEF Tick, AdminStep, AdminLoad, AdminSave, vars
  <2> QED BY <1>0, <1>6, <2>1 DEF IInv
<1> QED BY <1>0, <1>1, <1>2, <1>3, <1>4, <1>5, <1>7 DEF IInv, Next, HandlerStep

LEMMA Invariance == Spec => []IInv
BY InvInit, InvStep, PTL DEF Spec

--------------------------------------------------------------------------------
\* The limiter counts exactly the requests in flight that it admitted, whatever the
\* windows, the limits and the order of releases.
THEOREM InFlightIsExact == Spec => []InFlightExact
<1>1. IInv => InFlightExact
  BY DEF IInv
<1> QED BY <1>1, Invariance, PTL

\* While every request in flight on a key was admitted under a limit, their number is
\* within the highest of those limits.
THEOREM ConcurrencyIsBounded == Spec => []ConcurrencyBound
<1>1. IInv => ConcurrencyBound
  <2> SUFFICES ASSUME IInv, NEW k \in Keys,
                      0 \notin {handler[h].policy.conc : h \in Holders(k)},
                      \A h \in Holders(k) :
                         ~(Cardinality(Holders(k)) <= handler[h].policy.conc)
               PROVE  Holders(k) = {}
    BY DEF ConcurrencyBound
  <2> DEFINE n == Cardinality(Holders(k))
  <2>1. n \in Nat /\ Cardinality(Handlers) \in Nat /\ n <= Cardinality(Handlers)
    BY HoldersFinite, AdmissionConstants, FS_Subset, FS_CardinalityType DEF Holders
  <2>2. ASSUME NEW h \in Holders(k)
        PROVE  handler[h].policy.conc \in Nat \ {0} /\ handler[h].policy.conc <= n - 1
    <3>1. handler[h].policy.conc \in Nat
      BY AdmissionConstants DEF IInv, TypeOK, Handling, Policy, Holders
    <3> QED BY <2>1, <3>1
  <2>3. CASE n <= 1
    BY <2>1, <2>2, <2>3
  <2>4. CASE n > 1
    <3>1. Tight(k, n - 1) = Holders(k)
      BY <2>2 DEF Tight
    <3>2. n - 1 \in 1..Cardinality(Handlers)
      BY <2>1, <2>4
    <3>3. n <= n - 1
      BY <3>1, <3>2 DEF IInv, TightBound
    <3> QED BY <2>1, <3>3
  <2> QED BY <2>1, <2>3, <2>4
<1> QED BY <1>1, Invariance, PTL

\* No step takes back usage that was recorded for a key that stays stored.
THEOREM UsageIsNeverLost == Spec => UsageNeverLost
<1>1. ASSUME TypeOK, [Next]_vars, NEW k \in Keys, policy[k].present, policy'[k].present
      PROVE  policy'[k].used >= policy[k].used
  <2>1. policy[k].used \in Nat
    BY <1>1 DEF TypeOK, Policy
  <2>2. CASE policy'[k] = policy[k]
    BY <2>1, <2>2
  <2>3. ASSUME NEW h \in Handlers, RecordUsage(h) PROVE policy'[k].used >= policy[k].used
    BY <1>1, <2>1, <2>3 DEF RecordUsage, TypeOK, Policy
  <2>4. ASSUME NEW s \in Admins, AdminSave(s) PROVE policy'[k].used >= policy[k].used
    <3>1. PICK items \in [Keys -> FormPolicy] \cup {admin[s].loaded} :
            policy' = PreserveAPIKeyUsage(items)
      BY <2>4 DEF AdminSave
    <3>2. items[k] \in Policy
      BY <1>1, FormPolicyType DEF TypeOK, Editing
    <3>3. policy'[k] = IF items[k].present THEN [items[k] EXCEPT !.used = policy[k].used]
                                           ELSE items[k]
      BY <1>1, <3>1 DEF PreserveAPIKeyUsage
    <3>4. policy'[k].used = policy[k].used
      BY <1>1, <3>2, <3>3 DEF Policy
    <3> QED BY <2>1, <3>4
  <2> QED
    BY <1>1, <2>2, <2>3, <2>4
    DEF Next, HandlerStep, AdminStep, Tick, LoadPolicy, CheckQuota, Acquire, Release,
        AdminLoad, vars
<1>2. TypeOK /\ [Next]_vars =>
        [\A k \in Keys : policy[k].present /\ policy'[k].present
                           => policy'[k].used >= policy[k].used]_vars
  BY <1>1
<1> QED BY <1>2, TypeCorrect, PTL DEF Spec, UsageNeverLost
--------------------------------------------------------------------------------
\* Quota: the requests of key k that are under way with a copy that is within it.
Underway(k) ==
    {h \in Handlers :
       /\ handler[h].key = k
       /\ \/ handler[h].pc = "loaded" /\ WithinQuota(handler[h].policy)
          \/ handler[h].pc \in {"checked", "serving"}}

\* The attempts they may still log.
Pending(k) ==
    {a \in Handlers \X (1..MaxAttempts) : a[1] \in Underway(k) /\ a[2] > handler[a[1]].attempts}

\* What is logged and what may still be logged are together within the overshoot: a
\* request that arrives when the quota is used up has nothing to log.
QuotaInv ==
    \A k \in Keys :
        /\ ~policy[k].present => policy[k].used = 0
        /\ \A s \in Admins : ~admin[s].loaded[k].present => admin[s].loaded[k].used = 0
        /\ k \notin recreated =>
             policy[k].used + Cardinality(Pending(k))
               <= Quota - 1 + MaxAttempts * Cardinality(Handlers)

LEMMA OvershootType ==
  /\ Quota \in Nat \ {0} /\ MaxAttempts \in Nat \ {0} /\ Cardinality(Handlers) \in Nat
  /\ MaxAttempts * Cardinality(Handlers) \in Nat
<1>1. Cardinality(Handlers) \in Nat
  BY AdmissionConstants, FS_CardinalityType
<1> QED BY <1>1, AdmissionConstants

LEMMA PendingSize ==
  ASSUME NEW S \in SUBSET (Handlers \X (1..MaxAttempts))
  PROVE  /\ IsFiniteSet(S) /\ Cardinality(S) \in Nat
         /\ Cardinality(S) <= MaxAttempts * Cardinality(Handlers)
<1> DEFINE all == Handlers \X (1..MaxAttempts)
<1>1. IsFiniteSet(1..MaxAttempts) /\ Cardinality(1..MaxAttempts) = MaxAttempts
  BY OvershootType, FS_Interval
<1>2. IsFiniteSet(all) /\ Cardinality(all) = Cardinality(Handlers) * MaxAttempts
  BY <1>1, AdmissionConstants, FS_Product
<1>3. S \in SUBSET all
  OBVIOUS
<1> HIDE DEF all
<1>4. IsFiniteSet(S) /\ Cardinality(S) <= Cardinality(all)
  BY <1>2, <1>3, FS_Subset
<1>5. Cardinality(S) \in Nat
  BY <1>4, FS_CardinalityType
<1>6. Cardinality(Handlers) * MaxAttempts = MaxAttempts * Cardinality(Handlers)
  BY OvershootType
<1> QED BY <1>2, <1>4, <1>5, <1>6

LEMMA PendingFinite ==
  ASSUME NEW k
  PROVE  /\ IsFiniteSet(Pending(k)) /\ Cardinality(Pending(k)) \in Nat
         /\ Cardinality(Pending(k)) <= MaxAttempts * Cardinality(Handlers)
         /\ IsFiniteSet(Pending(k)') /\ Cardinality(Pending(k)') \in Nat
         /\ Cardinality(Pending(k)') <= MaxAttempts * Cardinality(Handlers)
<1>1. /\ Pending(k) \in SUBSET (Handlers \X (1..MaxAttempts))
      /\ Pending(k)' \in SUBSET (Handlers \X (1..MaxAttempts))
  BY DEF Pending
<1> QED BY <1>1, PendingSize

\* Nothing is logged, and nobody joins the requests under way on k.
LEMMA FewerPending ==
  ASSUME NEW k, Underway(k)' \subseteq Underway(k),
         \A h \in Underway(k)' : handler'[h].attempts >= handler[h].attempts,
         \A h \in Handlers : handler[h].attempts \in Nat /\ handler'[h].attempts \in Nat
  PROVE  Cardinality(Pending(k)') <= Cardinality(Pending(k)) /\ Cardinality(Pending(k)') \in Nat
<1>1. Pending(k)' \in SUBSET Pending(k)
  BY OvershootType DEF Pending
<1>2. IsFiniteSet(Pending(k)') /\ Cardinality(Pending(k)') <= Cardinality(Pending(k))
  BY <1>1, PendingFinite, FS_Subset
<1> QED BY <1>2, FS_CardinalityType

LEMMA FormUsage == \A p \in FormPolicy : p.used = 0
<1>1. \A p \in [present : {TRUE}, enabled : BOOLEAN, rpm : Rpms, conc : Concs, used : {0}] :
        p.used = 0
  OBVIOUS
<1>2. Absent.used = 0
  BY DEF Absent
<1> QED BY <1>1, <1>2 DEF FormPolicy

LEMMA QuotaInit == Init => QuotaInv
<1> SUFFICES ASSUME Init, NEW k \in Keys
             PROVE  /\ ~policy[k].present => policy[k].used = 0
                    /\ \A s \in Admins : ~admin[s].loaded[k].present => admin[s].loaded[k].used = 0
                    /\ policy[k].used + Cardinality(Pending(k))
                         <= Quota - 1 + MaxAttempts * Cardinality(Handlers)
  BY DEF QuotaInv
<1>1. policy[k].used = 0
  BY FormUsage DEF Init
<1>2. \A s \in Admins : admin[s].loaded[k].used = 0
  BY DEF Init, Absent
<1> QED BY <1>1, <1>2, PendingFinite, OvershootType

\* What a step of handler h does for the quota of every key.
LEMMA QuotaHandler ==
  ASSUME TypeOK, QuotaInv, TypeOK', NEW h \in Handlers, HandlerStep(h) PROVE QuotaInv'
<1> DEFINE q == handler[h]
<1>1. /\ q \in Handling /\ handler'[h] \in Handling
      /\ \A g \in Handlers : handler[g].attempts \in Nat /\ handler'[g].attempts \in Nat
      /\ \A k \in Keys : policy[k].used \in Nat /\ policy'[k].used \in Nat
  BY AdmissionConstants DEF TypeOK, Handling, Policy
<1>2. /\ UNCHANGED <<admin, recreated>>
      /\ \A g \in Handlers : g # h => handler'[g] = handler[g]
  BY DEF HandlerStep, LoadPolicy, CheckQuota, Acquire, RecordUsage, Release, history, TypeOK
<1>3. ASSUME policy' = policy,
             \A k \in Keys :
               \/ /\ Underway(k)' \subseteq Underway(k)
                  /\ h \in Underway(k)' => handler'[h].attempts >= q.attempts
               \/ policy[k].used < Quota
      PROVE  QuotaInv'
  <2> SUFFICES ASSUME NEW k \in Keys, k \notin recreated
               PROVE  policy[k].used + Cardinality(Pending(k)')
                        <= Quota - 1 + MaxAttempts * Cardinality(Handlers)
    BY <1>2, <1>3 DEF QuotaInv
  <2>1. CASE /\ Underway(k)' \subseteq Underway(k)
             /\ h \in Underway(k)' => handler'[h].attempts >= q.attempts
    <3>1. \A g \in Underway(k)' : handler'[g].attempts >= handler[g].attempts
      BY <1>1, <1>2, <2>1 DEF Underway
    <3>2. Cardinality(Pending(k)') <= Cardinality(Pending(k)) /\ Cardinality(Pending(k)') \in Nat
      BY <1>1, <2>1, <3>1, FewerPending
    <3>3. policy[k].used + Cardinality(Pending(k))
            <= Quota - 1 + MaxAttempts * Cardinality(Handlers)
      BY DEF QuotaInv
    <3> QED BY <1>1, <3>2, <3>3, PendingFinite, OvershootType
  <2>2. CASE policy[k].used < Quota
    BY <1>1, <2>2, PendingFinite, OvershootType
  <2> QED BY <1>3, <2>1, <2>2
<1>4. CASE LoadPolicy(h)
  <2>1. PICK k \in Keys :
          handler' = [handler EXCEPT ![h].pc = "loaded", ![h].key = k, ![h].policy = policy[k]]
    BY <1>4 DEF LoadPolicy
  <2>2. /\ handler'[h].pc = "loaded" /\ handler'[h].key = k /\ handler'[h].policy = policy[k]
        /\ handler'[h].attempts = q.attempts
    BY <1>1, <2>1 DEF TypeOK, Handling
  <2>3. \A j \in Keys : Underway(j)' \subseteq Underway(j) \/ policy[j].used < Quota
    BY <1>2, <2>2 DEF Underway, WithinQuota
  <2> QED BY <1>1, <1>3, <1>4, <2>2, <2>3 DEF LoadPolicy
<1>5. CASE CheckQuota(h)
  <2>1. \/ handler'[h] = Free(q)
        \/ WithinQuota(q.policy) /\ handler'[h] = [q EXCEPT !.pc = "checked"]
    BY <1>5 DEF CheckQuota, TypeOK
  <2>2. CASE handler'[h] = Free(q)
    <3>1. handler'[h].pc = "idle"
      BY <1>1, <2>2 DEF Free, Handling
    <3>2. \A k \in Keys : h \notin Underway(k)'
      BY <3>1 DEF Underway
    <3>3. \A k \in Keys : Underway(k)' \subseteq Underway(k)
      BY <1>2, <3>2 DEF Underway
    <3> QED BY <1>3, <1>5, <3>2, <3>3 DEF CheckQuota
  <2>3. CASE WithinQuota(q.policy) /\ handler'[h] = [q EXCEPT !.pc = "checked"]
    <3>1. handler'[h].key = q.key /\ handler'[h].attempts = q.attempts /\ q.pc = "loaded"
      BY <1>1, <1>5, <2>3 DEF CheckQuota, Handling
    <3>2. \A k \in Keys : Underway(k)' \subseteq Underway(k)
      BY <1>2, <2>3, <3>1 DEF Underway
    <3> QED BY <1>1, <1>3, <1>5, <3>1, <3>2 DEF CheckQuota
  <2> QED BY <2>1, <2>2, <2>3
<1>6. CASE Acquire(h)
  <2>1. /\ q.pc = "checked" /\ handler'[h].key = q.key
        /\ \/ handler'[h].pc = "idle"
           \/ handler'[h].pc = "serving" /\ handler'[h].attempts = q.attempts
    <3>1. \/ handler' = [handler EXCEPT ![h].pc = "serving"]
          \/ handler' = [handler EXCEPT ![h] = Free(q)]
          \/ handler' = [handler EXCEPT ![h].pc = "serving", ![h].slot = TRUE]
      BY <1>6 DEF Acquire
    <3>2. Free(q).pc = "idle" /\ Free(q).key = q.key
      BY <1>1 DEF Free, Handling
    <3> QED BY <1>1, <1>6, <3>1, <3>2 DEF Acquire, Handling, TypeOK
  <2>2. \A k \in Keys : Underway(k)' \subseteq Underway(k)
    BY <1>2, <2>1 DEF Underway
  <2>3. CASE handler'[h].pc = "idle"
    <3>1. \A k \in Keys : h \notin Underway(k)'
      BY <2>3 DEF Underway
    <3>2. policy' = policy
      BY <1>6 DEF Acquire
    <3> QED BY <1>3, <2>2, <3>1, <3>2
  <2>4. CASE handler'[h].attempts = q.attempts
    BY <1>1, <1>3, <1>6, <2>2, <2>4 DEF Acquire
  <2> QED BY <2>1, <2>3, <2>4
<1>7. CASE RecordUsage(h)
  <2>1. /\ q.pc = "serving" /\ handler'[h].pc = "serving" /\ handler'[h].key = q.key
        /\ handler'[h].attempts = q.attempts + 1 /\ q.attempts + 1 \in 1..MaxAttempts
    BY <1>1, <1>7 DEF RecordUsage, Handling, TypeOK
  <2>2. \A k \in Keys : Underway(k)' = Underway(k)
    BY <1>2, <2>1 DEF Underway
  <2>3. ASSUME NEW k \in Keys PROVE Pending(k)' \subseteq Pending(k)
    BY <1>1, <1>2, <2>1, <2>2 DEF Pending
  <2>4. \A k \in Keys :
          /\ policy'[k].present = policy[k].present
          /\ policy'[k].used = IF k = q.key /\ policy[k].present THEN policy[k].used + 1
                                                                  ELSE policy[k].used
    BY <1>1, <1>7 DEF RecordUsage, TypeOK, Policy, Handling
  <2>5. ASSUME NEW k \in Keys, k \notin recreated
        PROVE  policy'[k].used + Cardinality(Pending(k)')
                 <= Quota - 1 + MaxAttempts * Cardinality(Handlers)
    <3>1. policy[k].used + Cardinality(Pending(k))
            <= Quota - 1 + MaxAttempts * Cardinality(Handlers)
      BY <2>5 DEF QuotaInv
    <3>2. CASE k = q.key
      <4> DEFINE last == <<h, q.attempts + 1>>
      <4>1. last \in Pending(k) /\ last \notin Pending(k)'
        BY <1>1, <2>1, <3>2 DEF Pending, Underway
      <4>2. Pending(k)' \in SUBSET (Pending(k) \ {last})
        BY <2>3, <4>1
      <4> HIDE DEF last
      <4>3. /\ IsFiniteSet(Pending(k) \ {last})
            /\ Cardinality(Pending(k) \ {last}) = Cardinality(Pending(k)) - 1
        BY <4>1, PendingFinite, FS_RemoveElement
      <4>4. Cardinality(Pending(k)') <= Cardinality(Pending(k)) - 1
        BY <4>2, <4>3, FS_Subset
      <4> QED BY <1>1, <2>4, <3>1, <4>4, PendingFinite, OvershootType
    <3>3. CASE k # q.key
      <4>1. Cardinality(Pending(k)') <= Cardinality(Pending(k))
        BY <2>3, PendingFinite, FS_Subset
      <4> QED BY <1>1, <2>4, <3>1, <3>3, <4>1, PendingFinite, OvershootType
    <3> QED BY <3>2, <3>3
  <2>6. \A k \in Keys : ~policy'[k].present => policy'[k].used = 0
    BY <2>4 DEF QuotaInv
  <2> QED BY <1>2, <2>5, <2>6 DEF QuotaInv
<1>8. CASE Release(h)
  <2>1. handler'[h].pc = "idle"
    BY <1>1, <1>8 DEF Release, Free, Handling, TypeOK
  <2>2. \A k \in Keys : h \notin Underway(k)'
    BY <2>1 DEF Underway
  <2>3. \A k \in Keys : Underway(k)' \subseteq Underway(k)
    BY <1>2, <2>2 DEF Underway
  <2>4. ASSUME NEW k \in Keys, k \notin recreated
        PROVE  policy[k].used + Cardinality(Pending(k)')
                 <= Quota - 1 + MaxAttempts * Cardinality(Handlers)
    <3>1. \A g \in Underway(k)' : handler'[g].attempts >= handler[g].attempts
      BY <1>1, <1>2, <2>2 DEF Underway
    <3>2. Cardinality(Pending(k)') <= Cardinality(Pending(k)) /\ Cardinality(Pending(k)') \in Nat
      BY <1>1, <2>3, <3>1, FewerPending
    <3> QED BY <1>1, <2>4, <3>2, PendingFinite, OvershootType DEF QuotaInv
  <2> QED BY <1>2, <1>8, <2>4 DEF Release, QuotaInv
<1> QED BY <1>4, <1>5, <1>6, <1>7, <1>8 DEF HandlerStep

\* The requests are left alone.
LEMMA PendingKept ==
  ASSUME handler' = handler, NEW k PROVE Pending(k)' = Pending(k)
BY DEF Pending, Underway

LEMMA QuotaSave ==
  ASSUME TypeOK, QuotaInv, NEW s \in Admins, AdminSave(s) PROVE QuotaInv'
<1>1. PICK items \in [Keys -> FormPolicy] \cup {admin[s].loaded} :
        /\ policy' = PreserveAPIKeyUsage(items)
        /\ recreated' = recreated \cup {k \in Keys : items[k].present /\ ~policy[k].present}
  BY DEF AdminSave
<1>2. handler' = handler
  BY DEF AdminSave
<1> SUFFICES ASSUME NEW k \in Keys
             PROVE  /\ ~policy'[k].present => policy'[k].used = 0
                    /\ \A r \in Admins : ~admin'[r].loaded[k].present
                                            => admin'[r].loaded[k].used = 0
                    /\ k \notin recreated' =>
                         policy'[k].used + Cardinality(Pending(k)')
                           <= Quota - 1 + MaxAttempts * Cardinality(Handlers)
  BY DEF QuotaInv
<1>3. items[k] \in Policy /\ policy[k].used \in Nat
  BY FormPolicyType DEF TypeOK, Editing, Policy
<1>4. ~items[k].present => items[k].used = 0
  <2>1. CASE items \in [Keys -> FormPolicy]
    BY <2>1, FormUsage
  <2>2. CASE items = admin[s].loaded
    BY <2>2 DEF QuotaInv
  <2> QED BY <2>1, <2>2
<1>5. policy'[k] = IF items[k].present /\ policy[k].present
                   THEN [items[k] EXCEPT !.used = policy[k].used] ELSE items[k]
  BY <1>1 DEF PreserveAPIKeyUsage
<1>6. /\ policy'[k].present = items[k].present
      /\ policy'[k].used = IF items[k].present /\ policy[k].present THEN policy[k].used
                                                                    ELSE items[k].used
  BY <1>3, <1>5 DEF Policy
<1>7. \A r \in Admins : ~admin'[r].loaded[k].present => admin'[r].loaded[k].used = 0
  BY DEF AdminSave, QuotaInv, Absent, TypeOK
<1>8. ASSUME k \notin recreated'
      PROVE  policy'[k].used + Cardinality(Pending(k)')
               <= Quota - 1 + MaxAttempts * Cardinality(Handlers)
  <2>1. k \notin recreated /\ (items[k].present => policy[k].present)
    BY <1>1, <1>8
  <2>2. CASE items[k].present
    <3>1. policy'[k].used = policy[k].used
      BY <1>6, <2>1, <2>2
    <3> QED BY <1>2, <2>1, <3>1, PendingKept DEF QuotaInv
  <2>3. CASE ~items[k].present
    <3>1. policy'[k].used = 0
      BY <1>4, <1>6, <2>3
    <3> QED BY <3>1, PendingFinite, OvershootType
  <2> QED BY <2>2, <2>3
<1> QED BY <1>4, <1>6, <1>7, <1>8

LEMMA QuotaStep == TypeOK /\ QuotaInv /\ [Next]_vars => QuotaInv'
<1> SUFFICES ASSUME TypeOK, QuotaInv, [Next]_vars PROVE QuotaInv'
  OBVIOUS
<1>1. CASE \E h \in Handlers : HandlerStep(h)
  BY <1>1, TypeStep, QuotaHandler
<1>2. CASE Tick \/ UNCHANGED vars
  <2>1. UNCHANGED <<policy, handler, admin, recreated>>
    BY <1>2 DEF Tick, vars, history
  <2> QED BY <2>1, PendingKept DEF QuotaInv
<1>3. ASSUME NEW s \in Admins, AdminLoad(s) PROVE QuotaInv'
  <2>1. /\ UNCHANGED <<policy, handler, recreated>>
        /\ \A r \in Admins : admin'[r].loaded = IF r = s THEN policy ELSE admin[r].loaded
    BY <1>3 DEF AdminLoad, history, TypeOK, Editing
  <2> QED BY <2>1, PendingKept DEF QuotaInv
<1>4. ASSUME NEW s \in Admins, AdminSave(s) PROVE QuotaInv'
  BY <1>4, QuotaSave
<1> QED BY <1>1, <1>2, <1>3, <1>4 DEF Next, AdminStep

\* The quota is passed by what the requests already under way still log and by no more,
\* although each of them judged a copy, and whatever was saved meanwhile.
THEOREM OvershootIsBounded == Spec => []QuotaOvershootBounded
<1>1. TypeOK /\ QuotaInv => QuotaOvershootBounded
  <2> SUFFICES ASSUME TypeOK, QuotaInv, NEW k \in Keys \ recreated
               PROVE  policy[k].used <= Quota - 1 + MaxAttempts * Cardinality(Handlers)
    BY DEF QuotaOvershootBounded
  <2>1. policy[k].used \in Nat
    BY DEF TypeOK, Policy
  <2> QED BY <2>1, PendingFinite, OvershootType DEF QuotaInv
<1>2. Spec => [](TypeOK /\ QuotaInv)
  BY QuotaInit, QuotaStep, TypeInit, TypeStep, PTL DEF Spec
<1> QED BY <1>1, <1>2, PTL

--------------------------------------------------------------------------------
\* Rates: the times from t on, and from t up to e.
From(t) == {u \in Time : u >= t}
Span(t, e) == {u \in Time : t <= u /\ u < e}

\* The entry counts all that its window admitted, at most Max(Rpms); no more than that
\* was admitted in a window that began before this one and overlaps its start.
Counted(k, entry) ==
    /\ entry.started <= now
    /\ \A u \in From(entry.started + Window) : admitted[k][u] = 0
    /\ Cardinality(Admissions(k, From(entry.started))) <= entry.requests
    /\ Cardinality(Admissions(k, From(entry.started))) <= Max(Rpms)
    /\ \A t \in Time : t < entry.started /\ entry.started < t + Window
         => Cardinality(Admissions(k, Span(t, entry.started))) <= Max(Rpms)

RateInv == SlidingRateBound /\ \A k \in Keys : Counted(k, limiter[k])

LEMMA HighestRpm == Max(Rpms) \in Nat /\ \A n \in Rpms : n <= Max(Rpms)
<1>1. PICK top \in Rpms : \A n \in Rpms : n <= top
  BY AdmissionConstants
<1>2. \E x \in Rpms : \A y \in Rpms : x >= y
  BY <1>1, AdmissionConstants
<1>3. Max(Rpms) \in Rpms /\ \A y \in Rpms : Max(Rpms) >= y
  BY <1>2 DEF Max
<1> QED BY <1>3, AdmissionConstants

LEMMA AdmissionsFinite ==
  ASSUME TypeOK, NEW k \in Keys, NEW S \in SUBSET Time
  PROVE  IsFiniteSet(Admissions(k, S)) /\ Cardinality(Admissions(k, S)) \in Nat
<1> DEFINE at == [u \in S |-> {u} \X (1..admitted[k][u])]
           parts == {{u} \X (1..admitted[k][u]) : u \in S}
<1>1. IsFiniteSet(S)
  <2>1. IsFiniteSet(Time)
    BY AdmissionConstants, FS_Interval DEF Time
  <2> QED BY <2>1, FS_Subset
<1>2. at \in Surjection(S, parts)
  BY DEF Surjection
<1>3. IsFiniteSet(parts)
  BY <1>1, <1>2, FS_Surjection
<1>4. ASSUME NEW u \in S PROVE IsFiniteSet({u} \X (1..admitted[k][u]))
  <2>1. PICK n \in Nat : n = admitted[k][u]
    BY DEF TypeOK
  <2>2. IsFiniteSet({u}) /\ IsFiniteSet(1..n)
    <3>1. IsFiniteSet({u})
      BY FS_Singleton
    <3>2. IsFiniteSet(1..n)
      BY FS_Interval
    <3> QED BY <3>1, <3>2
  <2> QED BY <2>1, <2>2, FS_Product
<1>5. \A part \in parts : IsFiniteSet(part)
  BY <1>4
<1>6. IsFiniteSet(Admissions(k, S))
  BY <1>3, <1>5, FS_UNION DEF Admissions
<1> QED BY <1>6, FS_CardinalityType

LEMMA FewerAdmissions ==
  ASSUME TypeOK, NEW k \in Keys, NEW S \in SUBSET Time, NEW T \in SUBSET S
  PROVE  Cardinality(Admissions(k, T)) <= Cardinality(Admissions(k, S))
<1>1. Admissions(k, T) \in SUBSET Admissions(k, S)
  BY DEF Admissions
<1> QED BY <1>1, AdmissionsFinite, FS_Subset

LEMMA AdmissionsAddUp ==
  ASSUME TypeOK, NEW k \in Keys, NEW S \in SUBSET Time, NEW T \in SUBSET Time
  PROVE  Cardinality(Admissions(k, S \cup T))
           <= Cardinality(Admissions(k, S)) + Cardinality(Admissions(k, T))
<1> DEFINE A == Admissions(k, S)
           B == Admissions(k, T)
<1>1. Admissions(k, S \cup T) = A \cup B
  BY DEF Admissions
<1>2. IsFiniteSet(A) /\ IsFiniteSet(B) /\ Cardinality(A) \in Nat /\ Cardinality(B) \in Nat
  BY AdmissionsFinite
<1> HIDE DEF A, B
<1>3. Cardinality(A \cup B) = Cardinality(A) + Cardinality(B) - Cardinality(A \cap B)
  BY <1>2, FS_Union
<1>4. A \cap B \in SUBSET A
  OBVIOUS
<1>5. Cardinality(A \cap B) \in Nat
  BY <1>2, <1>4, FS_Subset, FS_CardinalityType
<1>6. Cardinality(A \cup B) <= Cardinality(A) + Cardinality(B)
  BY <1>2, <1>3, <1>5
<1> QED BY <1>1, <1>6 DEF A, B

\* One more request admitted now.
LEMMA AdmissionsGrow ==
  ASSUME TypeOK, NEW k \in Keys, NEW S \in SUBSET Time,
         admitted' = [admitted EXCEPT ![k][now] = @ + 1]
  PROVE  /\ now \notin S => Admissions(k, S)' = Admissions(k, S)
         /\ Cardinality(Admissions(k, S)') <= Cardinality(Admissions(k, S)) + 1
<1> DEFINE n == admitted[k][now]
           last == <<now, n + 1>>
<1>1. /\ now \in Time /\ n \in Nat
      /\ \A u \in Time : admitted'[k][u] = IF u = now THEN n + 1 ELSE admitted[k][u]
  BY DEF TypeOK
<1>2. now \notin S => Admissions(k, S)' = Admissions(k, S)
  BY <1>1 DEF Admissions
<1>3. ASSUME now \in S PROVE Cardinality(Admissions(k, S)') = Cardinality(Admissions(k, S)) + 1
  <2>1. last \notin Admissions(k, S)
    BY <1>1 DEF Admissions
  <2>2. 1..(n + 1) = (1..n) \cup {n + 1}
    BY <1>1
  <2>3. Admissions(k, S)' = Admissions(k, S) \cup {last}
    BY <1>1, <1>3, <2>2 DEF Admissions
  <2> HIDE DEF last
  <2>4. Cardinality(Admissions(k, S) \cup {last}) = Cardinality(Admissions(k, S)) + 1
    BY <2>1, AdmissionsFinite, FS_AddElement
  <2> QED BY <2>3, <2>4
<1>4. Cardinality(Admissions(k, S)) \in Nat
  BY AdmissionsFinite
<1> QED BY <1>2, <1>3, <1>4

LEMMA NothingAdmitted ==
  ASSUME NEW k \in Keys, NEW S \in SUBSET Time, \A u \in S : admitted[k][u] = 0
  PROVE  Cardinality(Admissions(k, S)) = 0
<1>1. Admissions(k, S) = {}
  BY DEF Admissions
<1> QED BY <1>1, FS_EmptySet

LEMMA TimesAreTimes ==
  /\ \A t : From(t) \in SUBSET Time
  /\ \A t, e : Span(t, e) \in SUBSET Time
  /\ Window \in Nat \ {0} /\ Time \subseteq Nat
BY AdmissionConstants DEF From, Span, Time

--------------------------------------------------------------------------------
\* The window that a request meets is counted, too: one that is over has nothing
\* admitted since now, and what overlaps now is its own.
LEMMA EntryNowCounted ==
  ASSUME TypeOK, NEW k \in Keys, Counted(k, limiter[k])
  PROVE  Counted(k, EntryNow(k)) /\ EntryNow(k) \in Entry /\ now - EntryNow(k).started < Window
<1> DEFINE old == limiter[k].started
<1>1. limiter[k] \in Entry /\ now \in Nat /\ old \in Int
  BY TimesAreTimes DEF TypeOK, Entry
<1>2. CASE now - old < Window
  BY <1>1, <1>2, TimesAreTimes DEF EntryNow
<1>3. CASE now - old >= Window
  <2> DEFINE e == [limiter[k] EXCEPT !.started = now, !.requests = 0]
  <2>1. EntryNow(k) = e
    BY <1>3 DEF EntryNow
  <2>2. e \in Entry /\ e.started = now /\ e.requests = 0
    <3>1. now \in Int /\ 0 \in Nat
      BY <1>1
    <3>2. e \in Entry
      BY <1>1, <3>1 DEF Entry
    <3> QED BY <1>1, <3>2 DEF Entry
  <2>3. \A u \in From(now) : admitted[k][u] = 0
    BY <1>1, <1>3, TimesAreTimes DEF Counted, From
  <2>4. Cardinality(Admissions(k, From(now))) = 0
    BY <2>3, TimesAreTimes, NothingAdmitted
  <2>5. \A u \in From(now + Window) : admitted[k][u] = 0
    BY <1>1, <2>3, TimesAreTimes DEF From
  <2>6. ASSUME NEW t \in Time, t < now, now < t + Window
        PROVE  Cardinality(Admissions(k, Span(t, now))) <= Max(Rpms)
    <3>1. Span(t, now) \in SUBSET From(old)
      BY <1>1, <1>3, <2>6, TimesAreTimes DEF Span, From
    <3>2. Cardinality(Admissions(k, Span(t, now))) <= Cardinality(Admissions(k, From(old)))
      BY <3>1, TimesAreTimes, FewerAdmissions
    <3>3. /\ Cardinality(Admissions(k, Span(t, now))) \in Nat
          /\ Cardinality(Admissions(k, From(old))) \in Nat
      BY TimesAreTimes, AdmissionsFinite
    <3>4. Cardinality(Admissions(k, From(old))) <= Max(Rpms)
      BY DEF Counted
    <3> QED BY <3>2, <3>3, <3>4, HighestRpm
  <2>7. Counted(k, e)
    BY <1>1, <2>2, <2>4, <2>5, <2>6, HighestRpm DEF Counted
  <2> HIDE DEF e
  <2> QED BY <1>1, <2>1, <2>2, <2>7, TimesAreTimes
<1> QED BY <1>1, <1>2, <1>3, TimesAreTimes

\* A window whose requests were all counted, together with the one it overlaps.
LEMMA IntervalBound ==
  ASSUME TypeOK, NEW k \in Keys, NEW entry \in Entry, Counted(k, entry),
         NEW t \in Time, entry.started < t + Window
  PROVE  Cardinality(Admissions(k, Span(t, t + Window))) <= 2 * Max(Rpms)
<1>0. PICK s \in Int : s = entry.started
  BY DEF Entry
<1> DEFINE own == Cardinality(Admissions(k, From(s)))
           before == Cardinality(Admissions(k, Span(t, s)))
           both == Cardinality(Admissions(k, Span(t, s) \cup From(s)))
           all == Cardinality(Admissions(k, Span(t, t + Window)))
<1>1. t \in Nat /\ Time \subseteq Nat /\ Window \in Nat
  BY TimesAreTimes
<1>2. own <= Max(Rpms) /\ (t < s => before <= Max(Rpms))
  BY <1>0 DEF Counted
<1>3. Span(t, s) \cup From(s) \in SUBSET Time
  BY TimesAreTimes
<1>4. own \in Nat /\ before \in Nat /\ both \in Nat /\ all \in Nat
  BY <1>3, TimesAreTimes, AdmissionsFinite
<1>5. CASE s <= t
  <2>1. Span(t, t + Window) \in SUBSET From(s)
    <3>1. ASSUME NEW u \in Span(t, t + Window) PROVE u \in From(s)
      BY <1>1, <1>5, <3>1 DEF Span, From
    <3> QED BY <3>1
  <2>2. all <= own
    BY <2>1, TimesAreTimes, FewerAdmissions
  <2> HIDE DEF own, before, both, all
  <2>3. all <= 2 * Max(Rpms)
    BY <1>2, <1>4, <2>2, HighestRpm
  <2> QED BY <2>3 DEF all
<1>6. CASE t < s
  <2>1. Span(t, t + Window) \in SUBSET (Span(t, s) \cup From(s))
    <3>1. ASSUME NEW u \in Span(t, t + Window) PROVE u \in Span(t, s) \cup From(s)
      BY <1>1, <1>6, <3>1 DEF Span, From
    <3> QED BY <3>1
  <2>2. all <= both
    BY <1>3, <2>1, FewerAdmissions
  <2>3. both <= before + own
    BY TimesAreTimes, AdmissionsAddUp
  <2> HIDE DEF own, before, both, all
  <2>4. all <= 2 * Max(Rpms)
    BY <1>2, <1>4, <1>6, <2>2, <2>3, HighestRpm
  <2> QED BY <2>4 DEF all
<1> QED BY <1>1, <1>5, <1>6

LEMMA RateBySpan ==
  SlidingRateBound <=> \A k \in Keys, t \in Time :
                         Cardinality(Admissions(k, Span(t, t + Window))) <= 2 * Max(Rpms)
BY DEF SlidingRateBound, Span

\* The same of the state after a step.
LEMMA NextFinite ==
  TypeOK' => \A k \in Keys, S \in SUBSET Time : Cardinality(Admissions(k, S)') \in Nat
<1>1. TypeOK => \A k \in Keys, S \in SUBSET Time : Cardinality(Admissions(k, S)) \in Nat
  BY AdmissionsFinite
<1>2. TypeOK' => (\A k \in Keys, S \in SUBSET Time : Cardinality(Admissions(k, S)) \in Nat)'
  BY <1>1, PTL
<1> QED BY <1>2

LEMMA NextInterval ==
  TypeOK' => \A k \in Keys, t \in Time :
    Counted(k, limiter[k])' /\ limiter'[k].started < t + Window
      => Cardinality(Admissions(k, Span(t, t + Window))') <= 2 * Max(Rpms)
<1> DEFINE Bound ==
             \A k \in Keys, t \in Time :
               Counted(k, limiter[k]) /\ limiter[k].started < t + Window
                 => Cardinality(Admissions(k, Span(t, t + Window))) <= 2 * Max(Rpms)
<1>1. TypeOK => Bound
  <2> SUFFICES ASSUME TypeOK, NEW k \in Keys, NEW t \in Time, Counted(k, limiter[k]),
                      limiter[k].started < t + Window
               PROVE  Cardinality(Admissions(k, Span(t, t + Window))) <= 2 * Max(Rpms)
    OBVIOUS
  <2>1. limiter[k] \in Entry
    BY DEF TypeOK
  <2> QED BY <2>1, IntervalBound
<1>2. TypeOK' => Bound'
  BY <1>1, PTL
<1> QED BY <1>2

LEMMA NextRate ==
  ASSUME \A k \in Keys, t \in Time :
           Cardinality(Admissions(k, Span(t, t + Window))') <= 2 * Max(Rpms)
  PROVE  SlidingRateBound'
BY DEF SlidingRateBound, Span

LEMMA RateInit == Init => RateInv
<1> SUFFICES ASSUME Init PROVE RateInv
  OBVIOUS
<1>1. \A k \in Keys, u \in Time : admitted[k][u] = 0
  BY DEF Init
<1>2. ASSUME NEW k \in Keys, NEW S \in SUBSET Time PROVE Cardinality(Admissions(k, S)) = 0
  BY <1>1, NothingAdmitted
<1>3. \A k \in Keys : limiter[k].started = -Window /\ limiter[k].requests = 0
  BY DEF Init
<1>4. now = 0
  BY DEF Init
<1>5. ASSUME NEW k \in Keys PROVE Counted(k, limiter[k])
  <2>1. \A u \in From(limiter[k].started + Window) : admitted[k][u] = 0
    BY <1>1, TimesAreTimes
  <2> QED BY <1>2, <1>3, <1>4, <2>1, TimesAreTimes, HighestRpm DEF Counted
<1>6. SlidingRateBound
  BY <1>2, TimesAreTimes, HighestRpm, RateBySpan
<1> QED BY <1>5, <1>6 DEF RateInv

\* Nothing is admitted: whatever became of the entry, it counts at least as much.
LEMMA RateKept ==
  ASSUME TypeOK, RateInv, admitted' = admitted, now' \in Time, now' >= now,
         \A k \in Keys : /\ limiter'[k].started = limiter[k].started
                         /\ limiter'[k].requests = limiter[k].requests
  PROVE  RateInv'
<1>1. SlidingRateBound'
  BY DEF RateInv, SlidingRateBound, Admissions
<1>2. ASSUME NEW k \in Keys PROVE Counted(k, limiter[k])'
  <2>1. limiter[k].started \in Int /\ now \in Nat /\ now' \in Nat
    BY TimesAreTimes DEF TypeOK, Entry
  <2>2. \A S : Admissions(k, S)' = Admissions(k, S)
    BY DEF Admissions
  <2>3. Counted(k, limiter[k])
    BY DEF RateInv
  <2> QED BY <2>1, <2>2, <2>3 DEF Counted
<1> QED BY <1>1, <1>2 DEF RateInv

LEMMA RateAcquire ==
  ASSUME TypeOK, RateInv, NEW h \in Handlers, Acquire(h) PROVE RateInv'
<1> DEFINE p == handler[h].policy
<1>0. PICK k \in Keys : k = handler[h].key
  BY DEF TypeOK, Handling
<1>1. now' = now /\ now \in Nat /\ now' \in Time /\ p.rpm \in Rpms /\ p.rpm \in Nat
  BY TimesAreTimes, AdmissionConstants DEF Acquire, TypeOK, Handling, Policy
<1>2. CASE limiter' = limiter /\ admitted' = admitted
  BY <1>1, <1>2, RateKept
<1> DEFINE e == EntryNow(k)
<1>3. CASE /\ Admits(p, e)
           /\ limiter' = [limiter EXCEPT ![k] =
                            [e EXCEPT !.requests = @ + 1, !.inFlight = @ + 1]]
           /\ admitted' = IF p.rpm > 0 THEN [admitted EXCEPT ![k][now] = @ + 1] ELSE admitted
  <2>0. Counted(k, e) /\ e \in Entry /\ now - e.started < Window
    BY EntryNowCounted DEF RateInv
  <2>1. PICK start \in Int, n \in Nat : start = e.started /\ n = e.requests
    BY <2>0 DEF Entry
  <2>2. start <= now /\ now - start < Window
    BY <2>0, <2>1 DEF Counted
  <2>3. limiter'[k].started = start /\ limiter'[k].requests = n + 1
    <3> HIDE DEF e
    <3> QED BY <1>3, <2>0, <2>1 DEF TypeOK, Entry
  <2> HIDE DEF e
  <2>4. \A j \in Keys : j # k => limiter'[j] = limiter[j] /\ admitted'[j] = admitted[j]
    BY <1>3 DEF TypeOK
  \* What the window has admitted by now.
  <2>5. /\ \A u \in From(start + Window) : admitted'[k][u] = 0
        /\ Cardinality(Admissions(k, From(start))') <= n + 1
        /\ Cardinality(Admissions(k, From(start))') <= Max(Rpms)
    <3>1. /\ \A u \in From(start + Window) : admitted[k][u] = 0
          /\ Cardinality(Admissions(k, From(start))) <= n
          /\ Cardinality(Admissions(k, From(start))) <= Max(Rpms)
      BY <2>0, <2>1 DEF Counted
    <3>2. Cardinality(Admissions(k, From(start))) \in Nat
      BY TimesAreTimes, AdmissionsFinite
    <3>3. CASE p.rpm > 0
      <4>1. admitted' = [admitted EXCEPT ![k][now] = @ + 1]
        BY <1>3, <3>3
      <4>2. now \notin From(start + Window)
        BY <1>1, <2>2, TimesAreTimes DEF From
      <4>3. \A u \in From(start + Window) : admitted'[k][u] = 0
        BY <3>1, <4>1, <4>2 DEF TypeOK
      <4>4. Cardinality(Admissions(k, From(start))')
              <= Cardinality(Admissions(k, From(start))) + 1
        BY <4>1, TimesAreTimes, AdmissionsGrow
      <4>5. Cardinality(Admissions(k, From(start))') \in Nat
        <5>1. TypeOK'
          BY TypeStep DEF Next, HandlerStep
        <5> QED BY <5>1, TimesAreTimes, NextFinite
      <4>6. n < p.rpm /\ p.rpm <= Max(Rpms)
        BY <1>1, <1>3, <2>1, <3>3, HighestRpm DEF Admits
      <4> QED BY <1>1, <2>2, <3>1, <3>2, <4>3, <4>4, <4>5, <4>6, HighestRpm
    <3>4. CASE ~(p.rpm > 0)
      <4>1. admitted' = admitted
        BY <1>3, <3>4
      <4>2. Admissions(k, From(start))' = Admissions(k, From(start))
        BY <4>1 DEF Admissions
      <4> QED BY <2>2, <3>1, <3>2, <4>1, <4>2
    <3> QED BY <3>3, <3>4
  \* What was admitted before now is as it was.
  <2>6. ASSUME NEW S \in SUBSET Time, now \notin S
        PROVE  Admissions(k, S)' = Admissions(k, S)
    <3>1. CASE p.rpm > 0
      BY <1>3, <2>6, <3>1, AdmissionsGrow
    <3>2. CASE ~(p.rpm > 0)
      BY <1>3, <3>2 DEF Admissions
    <3> QED BY <3>1, <3>2
  <2>7. ASSUME NEW t \in Time, t < start, start < t + Window
        PROVE  Cardinality(Admissions(k, Span(t, start))') <= Max(Rpms)
    <3>1. now \notin Span(t, start) /\ Span(t, start) \in SUBSET Time
      BY <1>1, <2>2, TimesAreTimes DEF Span
    <3>2. Cardinality(Admissions(k, Span(t, start))) <= Max(Rpms)
      BY <2>0, <2>1, <2>7 DEF Counted
    <3> QED BY <2>6, <3>1, <3>2
  <2>8. Counted(k, limiter[k])'
    BY <1>1, <2>2, <2>3, <2>5, <2>7 DEF Counted
  <2>9. ASSUME NEW j \in Keys, j # k PROVE Counted(j, limiter[j])'
    <3>1. \A S : Admissions(j, S)' = Admissions(j, S)
      BY <2>4, <2>9 DEF Admissions
    <3>2. Counted(j, limiter[j])
      BY DEF RateInv
    <3> QED BY <1>1, <2>4, <2>9, <3>1, <3>2 DEF Counted
  <2>10. ASSUME NEW j \in Keys, NEW t \in Time
         PROVE  Cardinality(Admissions(j, Span(t, t + Window))') <= 2 * Max(Rpms)
    <3>1. Cardinality(Admissions(j, Span(t, t + Window))) <= 2 * Max(Rpms)
      BY RateBySpan DEF RateInv
    <3>2. CASE j # k
      BY <2>4, <3>1, <3>2 DEF Admissions
    <3>3. CASE j = k /\ now \notin Span(t, t + Window)
      BY <2>6, <3>1, <3>3, TimesAreTimes
    <3>4. CASE j = k /\ now \in Span(t, t + Window)
      <4>1. TypeOK'
        BY TypeStep DEF Next, HandlerStep
      <4>2. limiter'[k].started < t + Window
        BY <1>1, <2>2, <2>3, <3>4, TimesAreTimes DEF Span
      <4> QED BY <2>8, <3>4, <4>1, <4>2, NextInterval
    <3> QED BY <3>2, <3>3, <3>4
  <2> QED BY <2>8, <2>9, <2>10, NextRate DEF RateInv
<1> QED BY <1>0, <1>2, <1>3 DEF Acquire

LEMMA RateStep == TypeOK /\ RateInv /\ [Next]_vars => RateInv'
<1> SUFFICES ASSUME TypeOK, RateInv, [Next]_vars PROVE RateInv'
  OBVIOUS
<1>1. TypeOK'
  BY TypeStep
<1>2. now' \in Time /\ now' >= now
  <2>1. now \in Nat /\ now' \in Time
    BY <1>1, TimesAreTimes DEF TypeOK
  <2>2. now' = now \/ now' = now + 1
    BY DEF Next, Tick, HandlerStep, LoadPolicy, CheckQuota, Acquire, RecordUsage, Release,
           AdminStep, AdminLoad, AdminSave, vars
  <2> QED BY <2>1, <2>2
<1>3. CASE UNCHANGED <<limiter, admitted>>
  BY <1>2, <1>3, RateKept
<1>4. ASSUME NEW h \in Handlers, Acquire(h) PROVE RateInv'
  BY <1>4, RateAcquire
<1>5. ASSUME NEW h \in Handlers, Release(h) PROVE RateInv'
  <2>1. admitted' = admitted
    BY <1>5 DEF Release, history
  <2>2. \A k \in Keys : /\ limiter'[k].started = limiter[k].started
                        /\ limiter'[k].requests = limiter[k].requests
    BY <1>5 DEF Release, TypeOK, Entry
  <2> QED BY <1>2, <2>1, <2>2, RateKept
<1> QED
  BY <1>3, <1>4, <1>5
  DEF Next, Tick, HandlerStep, LoadPolicy, CheckQuota, RecordUsage,
      AdminStep, AdminLoad, AdminSave, vars, history

\* In any interval of one window no more than twice the highest MaxRPM is admitted,
\* whatever limits the requests' copies of the policy carried.
THEOREM RateIsBounded == Spec => []SlidingRateBound
<1>1. Spec => [](TypeOK /\ RateInv)
  BY RateInit, RateStep, TypeInit, TypeStep, PTL DEF Spec
<1>2. RateInv => SlidingRateBound
  BY DEF RateInv
<1> QED BY <1>1, <1>2, PTL
================================================================================
