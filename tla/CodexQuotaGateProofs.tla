-------------------------- MODULE CodexQuotaGateProofs --------------------------
(***************************************************************************)
(* Proofs about CodexQuotaGate, for any set of accounts and calls, any     *)
(* limits, readings and TTL.                                               *)
(***************************************************************************)
EXTENDS CodexQuotaGate, TLAPS

\* What a leader may rely on while it fetches: it is the only one, so the snapshot it
\* read before the fetch is still the cached one.
LeaderInv ==
    \A c \in Calls : call[c].pc = "fetching" =>
        /\ flight[call[c].account] = c
        /\ call[c].snapshot = cache[call[c].account]

\* A flight that has not landed is led by a call that fetches.
FlightInv ==
    \A a \in Accounts : flight[a] # NoCall =>
        /\ flight[a] \in Calls
        /\ call[flight[a]].pc = "fetching" /\ call[flight[a]].account = a

\* The inductive invariant.
IInv == TypeOK /\ LeaderInv /\ FlightInv

--------------------------------------------------------------------------------
LEMMA SnapshotType == NoSnapshot \in Snapshot
BY DEF NoSnapshot, Snapshot, Full

LEMMA ClampType == \A v \in Int : Clamp(v) \in 0..Full
BY DEF Clamp, Full

\* Whatever an answer says, its windows are percentages used.
LEMMA WindowType == \A w \in Windows : FormatCodexQuota(w) \in 0..Full
<1> SUFFICES ASSUME NEW w \in Windows PROVE FormatCodexQuota(w) \in 0..Full
  OBVIOUS
<1>1. w.used \in Readings \cup {NoReading} /\ w.remaining \in Readings \cup {NoReading}
  BY DEF Windows
<1>2. Readings \subseteq Int
  BY GateConstants
<1>3. w.used # NoReading => w.used \in Int
  BY <1>1, <1>2
<1>4. w.remaining # NoReading => w.remaining \in Int
  BY <1>1, <1>2
<1>5. w.remaining # NoReading => Full - w.remaining \in Int
  BY <1>4 DEF Full
<1> QED BY <1>3, <1>5, ClampType DEF FormatCodexQuota

LEMMA UsageType == Usages \subseteq 0..Full
<1> SUFFICES ASSUME NEW a \in Answers PROVE RoutingUsage(ParseCodexQuotaPayload(a)) \in 0..Full
  BY DEF Usages
<1>1. \A name \in DOMAIN a : a[name] \in Windows
  BY DEF Answers
<1>2. \A name \in DOMAIN ParseCodexQuotaPayload(a) : ParseCodexQuotaPayload(a)[name] \in Int
  BY <1>1, WindowType DEF ParseCodexQuotaPayload, Full
<1> QED BY <1>2, ClampType DEF RoutingUsage, Full

\* A call that is over.
LEMMA DecidedType ==
  ASSUME NEW q \in Call, NEW s \in Snapshot, NEW t
  PROVE  /\ Decided(q, s, t) \in Call
         /\ Decided(q, s, t).pc = "decided"
         /\ Decided(q, s, t).account = q.account
         /\ Decided(q, s, t).verdict =
              IF s.valid /\ s.used >= t THEN "refuse" ELSE "allow"
<1> DEFINE v == IF s.valid /\ s.used >= t THEN "refuse" ELSE "allow"
<1>1. v \in {"allow", "refuse"}
  OBVIOUS
<1> HIDE DEF v
<1>2. Return(q, v) \in Call
  BY <1>1, SnapshotType DEF Return, Call
<1>3. Return(q, v).pc = "decided" /\ Return(q, v).account = q.account /\ Return(q, v).verdict = v
  BY DEF Return, Call
<1> QED BY <1>2, <1>3 DEF Decided, v
\* A call that led a flight which has landed.
LEMMA LandedType ==
  ASSUME NEW q \in Call, NEW s \in Snapshot, NEW t
  PROVE  LET l == [Decided(q, s, t) EXCEPT !.done = TRUE]
         IN  /\ l \in Call /\ l.pc = "decided" /\ l.account = q.account
             /\ l.verdict = IF s.valid /\ s.used >= t THEN "refuse" ELSE "allow"
<1> DEFINE d == Decided(q, s, t)
<1>1. /\ d \in Call /\ d.pc = "decided" /\ d.account = q.account
      /\ d.verdict = IF s.valid /\ s.used >= t THEN "refuse" ELSE "allow"
  BY DecidedType
<1> HIDE DEF d
<1>2. [d EXCEPT !.done = TRUE] \in Call
  BY <1>1 DEF Call
<1>3. /\ [d EXCEPT !.done = TRUE].pc = d.pc
      /\ [d EXCEPT !.done = TRUE].account = d.account
      /\ [d EXCEPT !.done = TRUE].verdict = d.verdict
  BY <1>1 DEF Call
<1> QED BY <1>1, <1>2, <1>3 DEF d

LEMMA InvInit == Init => IInv
<1> SUFFICES ASSUME Init PROVE IInv
  OBVIOUS
<1>1. PICK a \in Accounts :
        call = [c \in Calls |-> [pc |-> "new", account |-> a, limit |-> 0, begun |-> 0,
                                 snapshot |-> NoSnapshot, leader |-> NoCall,
                                 done |-> FALSE, gone |-> FALSE, verdict |-> "none"]]
  BY DEF Init
<1>2. call \in [Calls -> Call]
  BY <1>1, SnapshotType DEF Call
<1>3. TypeOK
  <2>1. now \in 0..MaxTime
    BY GateConstants DEF Init
  <2>2. cache \in [Accounts -> Snapshot] /\ flight \in [Accounts -> Calls \cup {NoCall}]
    BY SnapshotType DEF Init
  <2>3. \A c \in Calls : call[c].pc = "new"
    BY <1>1
  <2> QED BY <1>2, <2>1, <2>2, <2>3 DEF TypeOK
<1>4. LeaderInv /\ FlightInv
  BY <1>1 DEF Init, LeaderInv, FlightInv
<1> QED BY <1>3, <1>4 DEF IInv

\* A call that neither starts nor ends a fetch moves on.
LEMMA OtherMoves ==
  ASSUME IInv, NEW c \in Calls, NEW q \in Call, call' = [call EXCEPT ![c] = q],
         call[c].pc # "fetching", q.pc # "fetching",
         q.pc = "waiting" => q.leader \in Calls,
         UNCHANGED <<now, cache, flight>>
  PROVE  IInv'
<1>1. call' \in [Calls -> Call]
  BY DEF IInv, TypeOK
<1>2. \A d \in Calls : call'[d] = IF d = c THEN q ELSE call[d]
  BY DEF IInv, TypeOK
<1>3. TypeOK'
  BY <1>1, <1>2 DEF IInv, TypeOK
<1>4. LeaderInv'
  BY <1>2 DEF IInv, LeaderInv
<1>5. FlightInv'
  BY <1>2 DEF IInv, FlightInv
<1> QED BY <1>3, <1>4, <1>5 DEF IInv

\* A leader ends its fetch, with whatever snapshot it leaves in the cache.
LEMMA LeaderLands ==
  ASSUME IInv, NEW c \in Calls, call[c].pc = "fetching",
         NEW q \in Call, q.pc = "decided", call' = [call EXCEPT ![c] = q],
         NEW s \in Snapshot, cache' = [cache EXCEPT ![call[c].account] = s],
         flight' = [flight EXCEPT ![call[c].account] = NoCall],
         UNCHANGED now
  PROVE  IInv'
<1> DEFINE a == call[c].account
<1>1. a \in Accounts /\ flight[a] = c
  BY DEF IInv, TypeOK, Call, LeaderInv
<1>2. \A d \in Calls : call'[d] = IF d = c THEN q ELSE call[d]
  BY DEF IInv, TypeOK
<1>3. \A b \in Accounts : /\ flight'[b] = IF b = a THEN NoCall ELSE flight[b]
                          /\ cache'[b] = IF b = a THEN s ELSE cache[b]
  BY <1>1 DEF IInv, TypeOK
<1>4. /\ call' \in [Calls -> Call] /\ cache' \in [Accounts -> Snapshot]
      /\ flight' \in [Accounts -> Calls \cup {NoCall}]
  BY <1>1 DEF IInv, TypeOK
<1>5. TypeOK'
  BY <1>2, <1>4 DEF IInv, TypeOK
<1>6. \A d \in Calls : d # c /\ call[d].pc = "fetching" => call[d].account # a
  BY <1>1 DEF IInv, LeaderInv
<1>7. \A d \in Calls : call[d].account \in Accounts
  BY DEF IInv, TypeOK, Call
<1>8. LeaderInv'
  BY <1>2, <1>3, <1>6, <1>7 DEF IInv, LeaderInv
<1>9. FlightInv'
  BY <1>1, <1>2, <1>3 DEF IInv, FlightInv
<1> QED BY <1>5, <1>8, <1>9 DEF IInv

LEMMA InvStep == IInv /\ [Next]_vars => IInv'
<1> SUFFICES ASSUME IInv, [Next]_vars PROVE IInv'
  OBVIOUS
<1>0. /\ \A c \in Calls : call[c] \in Call /\ call[c].account \in Accounts
                           /\ cache[call[c].account] \in Snapshot /\ call[c].snapshot \in Snapshot
      /\ now \in Nat
  BY GateConstants DEF IInv, TypeOK, Call
<1>1. CASE Tick
  BY <1>1, GateConstants DEF Tick, IInv, TypeOK, LeaderInv, FlightInv
<1>2. ASSUME NEW c \in Calls, Arrive(c) PROVE IInv'
  <2>1. PICK a \in Accounts, l \in Limits :
          call' = [call EXCEPT ![c].pc = "arrived", ![c].account = a, ![c].limit = l,
                               ![c].begun = now]
    BY <1>2 DEF Arrive
  <2> DEFINE q == [call[c] EXCEPT !.pc = "arrived", !.account = a, !.limit = l, !.begun = now]
  <2>2. l \in Nat
    BY GateConstants
  <2>3. q \in Call /\ q.pc = "arrived"
    BY <1>0, <2>2 DEF Call
  <2>4. call' = [call EXCEPT ![c] = q]
    BY <2>1
  <2> HIDE DEF q
  <2> QED BY <1>2, <2>3, <2>4, OtherMoves DEF Arrive
<1>3. ASSUME NEW c \in Calls, Look(c) PROVE IInv'
  <2>1. Return(call[c], "allow") \in Call /\ Return(call[c], "allow").pc = "decided"
    BY <1>0, SnapshotType DEF Return, Call
  <2>2. [call[c] EXCEPT !.pc = "checked"] \in Call
        /\ [call[c] EXCEPT !.pc = "checked"].pc = "checked"
    BY <1>0 DEF Call
  <2>3. PICK q \in {Return(call[c], "allow"), [call[c] EXCEPT !.pc = "checked"],
                    Decided(call[c], cache[call[c].account], Threshold(c))} :
          call' = [call EXCEPT ![c] = q]
    BY <1>3 DEF Look
  <2>4. q \in Call /\ q.pc \in {"decided", "checked"}
    <3>1. /\ Decided(call[c], cache[call[c].account], Threshold(c)) \in Call
          /\ Decided(call[c], cache[call[c].account], Threshold(c)).pc = "decided"
      BY <1>0, DecidedType
    <3> HIDE DEF IInv
    <3> QED BY <2>1, <2>2, <2>3, <3>1
  <2> QED BY <1>3, <2>3, <2>4, OtherMoves DEF Look
<1>4. ASSUME NEW c \in Calls, JoinFlight(c) PROVE IInv'
  <2> DEFINE q == [call[c] EXCEPT !.pc = "waiting", !.snapshot = cache[call[c].account],
                                  !.leader = flight[call[c].account]]
  <2>1. flight[call[c].account] \in Calls
    BY <1>0, <1>4 DEF JoinFlight, IInv, FlightInv
  <2>2. q \in Call /\ q.pc = "waiting" /\ q.leader \in Calls
    BY <1>0, <2>1 DEF Call
  <2>3. call' = [call EXCEPT ![c] = q]
    BY <1>4 DEF JoinFlight
  <2> HIDE DEF q
  <2> QED BY <1>4, <2>2, <2>3, OtherMoves DEF JoinFlight
<1>5. ASSUME NEW c \in Calls, LeadFlight(c) PROVE IInv'
  <2> DEFINE q == [call[c] EXCEPT !.pc = "fetching", !.snapshot = cache[call[c].account]]
  <2>1. PICK a \in Accounts : a = call[c].account
    BY <1>0
  <2>2. q \in Call /\ q.pc = "fetching" /\ q.account = a /\ q.snapshot = cache[a]
    BY <1>0, <2>1 DEF Call
  <2>3. call' = [call EXCEPT ![c] = q]
    BY <1>5 DEF LeadFlight
  <2> HIDE DEF q
  <2>4. \A d \in Calls : call'[d] = IF d = c THEN q ELSE call[d]
    BY <2>3 DEF IInv, TypeOK
  <2>5. flight[a] = NoCall /\ call[c].pc = "checked" /\ cache' = cache /\ now' = now
    BY <1>5, <2>1 DEF LeadFlight
  <2>6. flight' = [flight EXCEPT ![a] = c]
    BY <1>5, <2>1 DEF LeadFlight
  <2>7. \A b \in Accounts : flight'[b] = IF b = a THEN c ELSE flight[b]
    BY <2>6 DEF IInv, TypeOK
  <2>8. /\ call' \in [Calls -> Call]
        /\ flight' \in [Accounts -> Calls \cup {NoCall}]
    BY <2>2, <2>3, <2>6 DEF IInv, TypeOK
  <2>9. TypeOK'
    BY <2>2, <2>4, <2>5, <2>8 DEF IInv, TypeOK
  <2>10. \A d \in Calls : call[d].pc = "fetching" => call[d].account # a
    BY <2>5, GateConstants DEF IInv, LeaderInv
  <2>11. LeaderInv'
    BY <1>0, <2>2, <2>4, <2>5, <2>7, <2>10 DEF IInv, LeaderInv
  <2>12. FlightInv'
    BY <2>2, <2>4, <2>5, <2>7 DEF IInv, FlightInv
  <2> QED BY <2>9, <2>11, <2>12 DEF IInv
<1>6. ASSUME NEW c \in Calls, FetchSucceeds(c) PROVE IInv'
  <2>1. PICK used \in Usages :
          LET s == [valid |-> TRUE, used |-> used, fetchedAt |-> call[c].begun]
          IN  /\ cache' = [cache EXCEPT ![call[c].account] = s]
              /\ call' = [call EXCEPT ![c] =
                             [Decided(call[c], s, Threshold(c)) EXCEPT !.done = TRUE]]
    BY <1>6 DEF FetchSucceeds
  <2> DEFINE s == [valid |-> TRUE, used |-> used, fetchedAt |-> call[c].begun]
             q == [Decided(call[c], s, Threshold(c)) EXCEPT !.done = TRUE]
  <2>2. used \in 0..Full
    BY UsageType
  <2>3. call[c].begun \in Int
    BY <1>0 DEF Call
  <2>4. s \in Snapshot
    BY <2>2, <2>3 DEF Snapshot
  <2>5. cache' = [cache EXCEPT ![call[c].account] = s] /\ call' = [call EXCEPT ![c] = q]
    BY <2>1
  <2> HIDE DEF s
  <2>6. q \in Call /\ q.pc = "decided"
    BY <1>0, <2>4, LandedType
  <2> HIDE DEF q
  <2> QED BY <1>6, <2>4, <2>5, <2>6, LeaderLands DEF FetchSucceeds
<1>7. ASSUME NEW c \in Calls, FetchFails(c) PROVE IInv'
  <2> DEFINE q == [Decided(call[c], call[c].snapshot, Threshold(c)) EXCEPT !.done = TRUE]
  <2>1. q \in Call /\ q.pc = "decided"
    BY <1>0, LandedType
  <2>2. call' = [call EXCEPT ![c] = q]
    BY <1>7 DEF FetchFails
  <2>3. cache' = [cache EXCEPT ![call[c].account] = cache[call[c].account]]
    BY <1>7 DEF FetchFails, IInv, TypeOK
  <2> HIDE DEF q
  <2> QED BY <1>0, <1>7, <2>1, <2>2, <2>3, LeaderLands DEF FetchFails
<1>8. ASSUME NEW c \in Calls, FollowerWakes(c) \/ FollowerLeaves(c) PROVE IInv'
  <2>1. PICK s \in Snapshot : call' = [call EXCEPT ![c] = Decided(call[c], s, Threshold(c))]
    BY <1>0, <1>8 DEF FollowerWakes, FollowerLeaves
  <2>2. /\ Decided(call[c], s, Threshold(c)) \in Call
        /\ Decided(call[c], s, Threshold(c)).pc = "decided"
    BY <1>0, DecidedType
  <2> QED BY <1>8, <2>1, <2>2, OtherMoves DEF FollowerWakes, FollowerLeaves
<1>9. ASSUME NEW c \in Calls, ContextEnds(c) PROVE IInv'
  <2> DEFINE q == [call[c] EXCEPT !.gone = TRUE]
  <2>1. /\ q \in Call /\ q.pc = call[c].pc /\ q.leader = call[c].leader
        /\ q.account = call[c].account /\ q.snapshot = call[c].snapshot
    BY <1>0 DEF Call
  <2>2. call' = [call EXCEPT ![c] = q] /\ UNCHANGED <<now, cache, flight>>
    BY <1>9 DEF ContextEnds
  <2> HIDE DEF q
  <2>3. \A d \in Calls : call'[d] = IF d = c THEN q ELSE call[d]
    BY <2>2 DEF IInv, TypeOK
  <2>4. call' \in [Calls -> Call]
    BY <2>1, <2>2 DEF IInv, TypeOK
  <2>5. TypeOK'
    BY <2>1, <2>2, <2>3, <2>4 DEF IInv, TypeOK
  <2>6. LeaderInv' /\ FlightInv'
    BY <2>1, <2>2, <2>3 DEF IInv, LeaderInv, FlightInv
  <2> QED BY <2>5, <2>6 DEF IInv
<1>10. CASE UNCHANGED vars
  BY <1>10 DEF vars, IInv, TypeOK, LeaderInv, FlightInv
<1> QED
  BY <1>1, <1>2, <1>3, <1>4, <1>5, <1>6, <1>7, <1>8, <1>9, <1>10
  DEF Next, CallStep, FetchEnds

LEMMA Invariance == Spec => []IInv
BY InvInit, InvStep, PTL DEF Spec

--------------------------------------------------------------------------------
\* Types, and percentages in the cache whatever the upstream reports.
THEOREM TypeCorrect == Spec => []TypeOK
<1>1. IInv => TypeOK
  BY DEF IInv
<1> QED BY <1>1, Invariance, PTL

\* One fetch at a time for an account, and the flight table names it.
THEOREM FlightsAreSingle == Spec => []SingleFlight
<1>1. IInv => SingleFlight
  <2> SUFFICES ASSUME IInv, NEW a \in Accounts
               PROVE  {c \in Calls : call[c].pc = "fetching" /\ call[c].account = a}
                        = IF flight[a] = NoCall THEN {} ELSE {flight[a]}
    BY DEF SingleFlight
  <2>1. \A c \in Calls : call[c].pc = "fetching" /\ call[c].account = a
                            <=> flight[a] # NoCall /\ c = flight[a]
    BY GateConstants DEF IInv, LeaderInv, FlightInv
  <2>2. flight[a] # NoCall => flight[a] \in Calls
    BY DEF IInv, FlightInv
  <2> QED BY <2>1, <2>2
<1> QED BY <1>1, Invariance, PTL

\* A live call decides by what the cache holds at that moment.
THEOREM DecisionsAreCurrent == Spec => DecisionMatchesCache
<1> DEFINE Shown(c) == LET s == cache'[call[c].account]
                       IN  call'[c].verdict = "refuse" <=> s.valid /\ s.used >= Threshold(c)
<1>1. ASSUME IInv, Next, NEW c \in Calls,
             call[c].verdict = "none", call'[c].verdict # "none",
             call[c].limit > 0, ~call[c].gone
      PROVE  Shown(c)
  <2>0. /\ call[c] \in Call /\ call[c].account \in Accounts /\ call[c].limit \in Nat
        /\ cache[call[c].account] \in Snapshot /\ call[c].snapshot \in Snapshot
    BY <1>1 DEF IInv, TypeOK, Call
  <2>1. ASSUME NEW s \in Snapshot, cache'[call[c].account] = s,
               call'[c].verdict = IF s.valid /\ s.used >= Threshold(c) THEN "refuse" ELSE "allow"
        PROVE  Shown(c)
    BY <2>1
  <2>2. ASSUME NEW d \in Calls, NEW q, d # c, call' = [call EXCEPT ![d] = q] PROVE FALSE
    BY <1>1, <2>2 DEF IInv, TypeOK
  <2>3. CASE Look(c)
    <3>1. Look(c) /\ call'[c] = Decided(call[c], cache[call[c].account], Threshold(c))
      BY <1>1, <2>0, <2>3 DEF Look, IInv, TypeOK, Call
    <3>2. cache'[call[c].account] = cache[call[c].account]
      BY <3>1 DEF Look
    <3> QED BY <2>0, <2>1, <3>1, <3>2, DecidedType
  <2>4. CASE FetchSucceeds(c)
    <3>1. PICK used \in Usages :
            LET s == [valid |-> TRUE, used |-> used, fetchedAt |-> call[c].begun]
            IN  /\ cache' = [cache EXCEPT ![call[c].account] = s]
                /\ call' = [call EXCEPT ![c] =
                               [Decided(call[c], s, Threshold(c)) EXCEPT !.done = TRUE]]
      BY <2>4 DEF FetchSucceeds
    <3> DEFINE s == [valid |-> TRUE, used |-> used, fetchedAt |-> call[c].begun]
    <3>2. s \in Snapshot
      <4>1. used \in 0..Full
        BY UsageType
      <4>2. call[c].begun \in Int
        BY <2>0 DEF Call
      <4> QED BY <4>1, <4>2 DEF Snapshot
    <3>3. /\ cache' = [cache EXCEPT ![call[c].account] = s]
          /\ call' = [call EXCEPT ![c] =
                         [Decided(call[c], s, Threshold(c)) EXCEPT !.done = TRUE]]
      BY <3>1
    <3> HIDE DEF s
    <3>4. /\ cache'[call[c].account] = s
          /\ call'[c] = [Decided(call[c], s, Threshold(c)) EXCEPT !.done = TRUE]
      BY <1>1, <2>0, <3>3 DEF IInv, TypeOK
    <3> QED BY <2>0, <2>1, <3>2, <3>4, LandedType
  <2>5. CASE FetchFails(c)
    <3>1. call[c].snapshot = cache[call[c].account] /\ cache' = cache
      BY <1>1, <2>5 DEF FetchFails, IInv, LeaderInv
    <3>2. call'[c] = [Decided(call[c], call[c].snapshot, Threshold(c)) EXCEPT !.done = TRUE]
      BY <1>1, <2>5 DEF FetchFails, IInv, TypeOK
    <3> QED BY <2>0, <2>1, <3>1, <3>2, LandedType
  <2>6. CASE FollowerWakes(c)
    <3>1. /\ call'[c] = Decided(call[c], cache[call[c].account], Threshold(c))
          /\ cache' = cache
      BY <1>1, <2>6 DEF FollowerWakes, IInv, TypeOK
    <3> QED BY <2>0, <2>1, <3>1, DecidedType
  <2>7. CASE FollowerLeaves(c)
    BY <1>1, <2>7 DEF FollowerLeaves
  <2>8. CASE Arrive(c) \/ JoinFlight(c) \/ LeadFlight(c) \/ ContextEnds(c)
    <3> call \in [Calls -> Call]
      BY <1>1 DEF IInv, TypeOK
    <3>1. CASE Arrive(c)
      <4>1. PICK a \in Accounts, l \in Limits :
              call' = [call EXCEPT ![c].pc = "arrived", ![c].account = a, ![c].limit = l,
                                   ![c].begun = now]
        BY <3>1 DEF Arrive
      <4>2. call'[c].verdict = call[c].verdict
        BY <2>0, <4>1 DEF Call
      <4> QED BY <1>1, <4>2
    <3>2. CASE JoinFlight(c) \/ LeadFlight(c) \/ ContextEnds(c)
      <4>1. call'[c].verdict = call[c].verdict
        BY <2>0, <3>2 DEF JoinFlight, LeadFlight, ContextEnds, Call
      <4> QED BY <1>1, <4>1
    <3> QED BY <2>8, <3>1, <3>2
  <2>9. CASE Tick
    BY <1>1, <2>9 DEF Tick
  <2>10. ASSUME NEW d \in Calls, d # c, Arrive(d) \/ CallStep(d) \/ ContextEnds(d) PROVE FALSE
    <3>1. \E q : call' = [call EXCEPT ![d] = q]
      BY <2>10
      DEF Arrive, CallStep, Look, JoinFlight, LeadFlight, FetchEnds, FetchSucceeds, FetchFails,
          FollowerWakes, FollowerLeaves, ContextEnds
    <3> QED BY <2>2, <2>10, <3>1
  <2> QED
    BY <1>1, <2>3, <2>4, <2>5, <2>6, <2>7, <2>8, <2>9, <2>10 DEF Next, CallStep, FetchEnds
<1>2. IInv /\ [Next]_vars =>
        [\A c \in Calls :
            /\ call[c].verdict = "none" /\ call'[c].verdict # "none"
            /\ call[c].limit > 0 /\ ~call[c].gone
            => Shown(c)]_vars
  BY <1>1
<1> QED BY <1>2, Invariance, PTL DEF Spec, DecisionMatchesCache
================================================================================
