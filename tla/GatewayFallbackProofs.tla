------------------------- MODULE GatewayFallbackProofs -------------------------
(***************************************************************************)
(* Proofs about GatewayFallback, for any providers, accounts, routes and   *)
(* requests, and any durations.                                            *)
(***************************************************************************)
EXTENDS GatewayFallbackPromise, FiniteSetTheorems, SequenceTheorems, TLAPS

\* A request that is past the head of the loop has a current candidate.
Placed(q) == q.pc \notin {"idle", "expand", "select", "done"} => q.idx \in DOMAIN q.cands

\* If the store answers, the credentials of a provider itself are a candidate only
\* when the provider has no account.
Sourced(cands) ==
    ~StoreFaults => \A i \in DOMAIN cands :
        cands[i].account = NoAccount => AccountsOf[cands[i].provider] = <<>>

\* A failure that is about to be charged to a provider is one that carries a
\* cooldown, of a candidate that is not an account; one that is about to be charged
\* to an account is of a candidate that is one.
Charged(q) ==
    /\ q.pc = "errored" => q.class \in {"transient", "timeout"}
    /\ q.pc = "penalize" => q.class \in Penalised /\ q.cands[q.idx].account = NoAccount
    /\ q.pc \in {"streak", "record"} => q.cands[q.idx].account # NoAccount

Good(q) == q \in Request /\ Placed(q) /\ Sourced(q.cands) /\ Charged(q)

\* Request r becomes q; it starts an attempt only within its budget.
Becomes(r, q) ==
    /\ Good(q)
    /\ req' = [req EXCEPT ![r] = q]
    /\ q.calls > req[r].calls => HasBudget(r)

\* The inductive invariant.
IInv ==
    /\ TypeOK
    /\ SiblingIsolation
    /\ \A r \in Requests : Sourced(req[r].cands) /\ Charged(req[r])

--------------------------------------------------------------------------------
(***************************************************************************)
(* What the steps are made of.                                             *)
(***************************************************************************)
LEMMA Current ==
  ASSUME IInv, NEW r \in Requests
  PROVE  Good(req[r])
BY DEF IInv, TypeOK, Good, Placed

\* A waiting request has a candidate to charge.
LEMMA CandType ==
  ASSUME IInv, NEW r \in Requests, req[r].idx \in DOMAIN req[r].cands
  PROVE  Cand(r) \in Candidate
<1>1. req[r].cands \in Seq(Candidate)
  BY DEF IInv, TypeOK, Request
<1> QED BY <1>1 DEF Cand

LEMMA ChargedAccount ==
  ASSUME IInv, NEW r \in Requests, req[r].pc \in {"streak", "record"}
  PROVE  Cand(r).account \in Accounts
<1>1. req[r].idx \in DOMAIN req[r].cands /\ Cand(r).account # NoAccount
  BY Current DEF Good, Placed, Charged, Cand
<1> QED BY <1>1, CandType DEF Candidate

LEMMA EndIterationType ==
  ASSUME NEW q \in Request
  PROVE  /\ EndIteration(q) \in Request
         /\ EndIteration(q).cands = q.cands /\ EndIteration(q).calls = q.calls
         /\ EndIteration(q).idx = q.idx /\ EndIteration(q).logged = q.logged
BY DEF EndIteration, Request, Class

LEMMA ReturnType ==
  ASSUME NEW q \in Request, NEW a \in Answer
  PROVE  /\ Return(q, a) \in Request
         /\ Return(q, a).pc = "done" /\ Return(q, a).cands = <<>>
         /\ Return(q, a).calls = q.calls /\ Return(q, a).logged = q.logged
<1> DEFINE e == EndIteration(q)
<1>1. e \in Request /\ e.calls = q.calls /\ e.logged = q.logged
  BY EndIterationType
<1>2. <<>> \in Seq(Candidate)
  BY EmptySeq
<1> HIDE DEF e
<1>3. "done" \in PC /\ 1 \in Nat \ {0}
  BY DEF PC
<1>4. [e EXCEPT !.pc = "done", !.answer = a, !.cands = <<>>, !.idx = 1] \in Request
  BY <1>1, <1>2, <1>3 DEF Request
<1> QED BY <1>1, <1>4 DEF Return, e, Request

\* A request that is done is in order, whatever it has logged.
LEMMA DoneIsGood ==
  ASSUME NEW q \in Request, q.pc = "done", q.cands = <<>>
  PROVE  Good(q)
BY DEF Good, Placed, Sourced, Charged

LEMMA AnswerType == \A class \in Class : PublicError(class) \in Answer
BY DEF PublicError, Answer, Class

LEMMA ProviderCooldownType ==
  ASSUME NEW class \in Penalised, NEW retryAfter \in Nat
  PROVE  ProviderCooldown(class, retryAfter) \in Nat
BY FallbackConstants DEF ProviderCooldown, Least

LEMMA AccountCooldownType ==
  ASSUME NEW streak \in Nat \ {0}, NEW retryAfter \in Nat
  PROVE  AccountCooldown(streak, retryAfter) \in Nat \ {0}
<1>1. Least(streak, 4) \in 1..4
  BY DEF Least
<1>2. Ladder[Least(streak, 4)] \in Nat \ {0}
  BY <1>1, FallbackConstants
<1>3. retryAfter > 0 => Least(retryAfter, AccountCap) \in Nat \ {0}
  BY FallbackConstants DEF Least
<1> QED BY <1>2, <1>3 DEF AccountCooldown

LEMMA FreshType == Fresh \in Request
<1>1. <<>> \in Seq(Providers) /\ <<>> \in Seq(Candidate)
  BY EmptySeq
<1> QED BY <1>1 DEF Fresh, Request, PC, Class, Answer

\* The candidates that one provider contributes.
LEMMA AccountCandidatesType ==
  ASSUME NEW p \in Providers, NEW open, NEW cs \in AccountCandidates(p, open)
  PROVE  cs \in Seq(Candidate) /\ Sourced(cs)
<1> DEFINE I == {i \in DOMAIN AccountsOf[p] : AccountsOf[p][i] \in open}
           n == Cardinality(I)
<1>1. AccountsOf[p] \in Seq(Accounts)
  BY FallbackConstants
<1>2. IsFiniteSet(1..Len(AccountsOf[p])) /\ I \subseteq 1..Len(AccountsOf[p])
  BY <1>1, FS_Interval
<1>3. n \in Nat
  BY <1>2, FS_Subset, FS_CardinalityType
<1>4. PICK f \in Ascending(I) :
        cs = [i \in DOMAIN f |-> [provider |-> p, account |-> AccountsOf[p][f[i]]]]
  BY DEF AccountCandidates
<1>5. f \in [1..n -> I]
  BY DEF Ascending
<1>6. \A i \in 1..n : AccountsOf[p][f[i]] \in Accounts
  <2>1. \A i \in 1..n : f[i] \in 1..Len(AccountsOf[p])
    <3> HIDE DEF n, I
    <3> QED BY <1>2, <1>5
  <2>2. \A j \in 1..Len(AccountsOf[p]) : AccountsOf[p][j] \in Accounts
    BY <1>1, ElementOfSeq
  <2> HIDE DEF n
  <2> QED BY <2>1, <2>2
<1>7. DOMAIN f = 1..n
  BY <1>5
<1> HIDE DEF n, I
<1>8. \A i \in 1..n : LET c == [provider |-> p, account |-> AccountsOf[p][f[i]]]
                     IN  c \in Candidate /\ c.account # NoAccount
  BY <1>6, FallbackConstants DEF Candidate
<1>9. /\ cs \in [1..n -> Candidate]
      /\ \A i \in 1..n : cs[i].account # NoAccount
  BY <1>4, <1>7, <1>8
<1> QED BY <1>3, <1>9 DEF Sourced

--------------------------------------------------------------------------------
(***************************************************************************)
(* What a request becomes, step by step.                                   *)
(***************************************************************************)
LEMMA ArriveStep ==
  ASSUME IInv, NEW r \in Requests, Arrive(r)
  PROVE  \E q : Becomes(r, q)
<1>1. PICK route \in Routes, strict \in StrictModes :
        req' = [req EXCEPT ![r] = [Fresh EXCEPT
                  !.pc = "expand", !.strict = strict,
                  !.deadline = now + Timeout, !.todo = route]]
  BY DEF Arrive
<1> DEFINE q == [Fresh EXCEPT !.pc = "expand", !.strict = strict,
                              !.deadline = now + Timeout, !.todo = route]
<1>2. now + Timeout \in Nat /\ route \in Seq(Providers) /\ strict \in BOOLEAN
  BY FallbackConstants DEF IInv, TypeOK
<1>3. q \in Request
  BY <1>2, FreshType DEF Request, PC
<1>4. q.pc = "expand" /\ q.cands = <<>> /\ q.calls = 0
  BY DEF Fresh
<1>5. req[r].calls \in Nat
  BY DEF IInv, TypeOK, Request
<1>6. Good(q)
  BY <1>3, <1>4 DEF Good, Placed, Sourced, Charged
<1>7. Becomes(r, q)
  BY <1>1, <1>4, <1>5, <1>6 DEF Becomes
<1> QED BY <1>7

LEMMA AddCandidates ==
  ASSUME NEW q, Good(q), q.pc = "expand", NEW todo \in Seq(Providers),
         NEW cs \in Seq(Candidate), Sourced(cs)
  PROVE  LET n == [q EXCEPT !.todo = todo, !.cands = @ \o cs]
         IN  Good(n) /\ n.calls = q.calls
<1> DEFINE all == q.cands \o cs
           n == [q EXCEPT !.todo = todo, !.cands = all]
<1>1. q \in Request /\ q.cands \in Seq(Candidate)
  BY DEF Good, Request
<1>2. all \in Seq(Candidate)
  BY <1>1, ConcatProperties
<1>3. Sourced(all)
  <2>1. ASSUME ~StoreFaults, NEW i \in DOMAIN all, all[i].account = NoAccount
        PROVE  AccountsOf[all[i].provider] = <<>>
    <3>1. Len(q.cands) \in Nat /\ Len(cs) \in Nat /\ i \in 1..Len(q.cands) + Len(cs)
      BY <1>1, <1>2, ConcatProperties, LenProperties
    <3>2. CASE i <= Len(q.cands)
      <4>1. i \in DOMAIN q.cands /\ all[i] = q.cands[i]
        BY <1>1, <3>1, <3>2, ConcatProperties
      <4> QED BY <2>1, <4>1 DEF Good, Sourced
    <3>3. CASE i > Len(q.cands)
      <4>1. i - Len(q.cands) \in DOMAIN cs /\ all[i] = cs[i - Len(q.cands)]
        BY <1>1, <3>1, <3>3, ConcatProperties
      <4> QED BY <2>1, <4>1 DEF Sourced
    <3> QED BY <3>1, <3>2, <3>3
  <2> QED BY <2>1 DEF Sourced
<1> HIDE DEF all
<1>4. n \in Request
  BY <1>1, <1>2 DEF Request
<1>5. n.pc = "expand" /\ n.calls = q.calls /\ n.cands = all
  BY <1>1 DEF Request
<1>6. Good(n) /\ n.calls = q.calls
  BY <1>3, <1>4, <1>5 DEF Good, Placed, Charged
<1> QED BY <1>6 DEF all

LEMMA ExpandProviderStep ==
  ASSUME IInv, NEW r \in Requests, ExpandProvider(r)
  PROVE  \E q : Becomes(r, q)
<1> DEFINE p == Head(req[r].todo)
           own == <<[provider |-> p, account |-> NoAccount]>>
<1>1. /\ Good(req[r]) /\ req[r].pc = "expand" /\ req[r].calls \in Nat
      /\ req[r].todo \in Seq(Providers) /\ req[r].todo # <<>>
  BY Current DEF ExpandProvider, Good, Request
<1>2. p \in Providers /\ Tail(req[r].todo) \in Seq(Providers)
  BY <1>1, HeadTailProperties
<1>3. ASSUME NEW cs \in Seq(Candidate), Sourced(cs),
             req' = [req EXCEPT ![r].todo = Tail(@), ![r].cands = @ \o cs]
      PROVE  \E q : Becomes(r, q)
  <2> DEFINE n == [req[r] EXCEPT !.todo = Tail(req[r].todo), !.cands = @ \o cs]
  <2>1. Good(n) /\ n.calls = req[r].calls
    BY <1>1, <1>2, <1>3, AddCandidates
  <2>2. req' = [req EXCEPT ![r] = n]
    BY <1>3
  <2>3. Becomes(r, n)
    BY <1>1, <2>1, <2>2 DEF Becomes
  <2> QED BY <2>3
<1>4. CASE /\ AccountsOf[p] = <<>> \/ StoreFaults
           /\ req' = [req EXCEPT ![r].todo = Tail(@), ![r].cands = @ \o own]
  <2>1. own \in Seq(Candidate)
    BY <1>2 DEF Candidate
  <2>2. Sourced(own)
    BY <1>4 DEF Sourced
  <2> QED BY <1>3, <1>4, <2>1, <2>2
<1>5. CASE \E open : \E cs \in AccountCandidates(p, open) :
             req' = [req EXCEPT ![r].todo = Tail(@), ![r].cands = @ \o cs]
  BY <1>2, <1>3, <1>5, AccountCandidatesType
<1> QED BY <1>4, <1>5 DEF ExpandProvider

LEMMA ExpandDoneStep ==
  ASSUME IInv, NEW r \in Requests, ExpandDone(r)
  PROVE  \E q : Becomes(r, q)
<1> DEFINE cands == IF req[r].strict /\ Len(req[r].cands) > 1 THEN <<req[r].cands[1]>>
                    ELSE req[r].cands
           q == [req[r] EXCEPT !.pc = "select", !.cands = cands]
<1>1. Good(req[r]) /\ req[r] \in Request /\ req[r].cands \in Seq(Candidate)
  BY Current DEF Good, Request
<1>2. cands \in Seq(Candidate) /\ Sourced(cands)
  <2>1. CASE cands = req[r].cands
    BY <1>1, <2>1 DEF Good
  <2>2. CASE Len(req[r].cands) > 1 /\ cands = <<req[r].cands[1]>>
    <3>1. 1 \in 1..Len(req[r].cands)
      BY <1>1, <2>2, LenProperties
    <3>2. req[r].cands[1] \in Candidate
      BY <1>1, <3>1, ElementOfSeq
    <3>3. 1 \in DOMAIN req[r].cands
      BY <1>1, <3>1
    <3> QED BY <1>1, <2>2, <3>2, <3>3 DEF Good, Sourced
  <2> QED BY <2>1, <2>2
<1>3. req' = [req EXCEPT ![r] = q]
  BY DEF ExpandDone
<1> HIDE DEF cands
<1>4. q \in Request
  BY <1>1, <1>2 DEF Request, PC
<1>5. q.pc = "select" /\ q.cands = cands /\ q.calls = req[r].calls
  BY <1>1 DEF Request
<1>6. req[r].calls \in Nat
  BY <1>1 DEF Request
<1> HIDE DEF q
<1>7. Good(q)
  BY <1>2, <1>4, <1>5 DEF Good, Placed, Charged
<1>8. Becomes(r, q)
  BY <1>3, <1>5, <1>6, <1>7 DEF Becomes
<1> QED BY <1>8

LEMMA SkipCandidateStep ==
  ASSUME IInv, NEW r \in Requests, SkipCandidate(r)
  PROVE  \E q : Becomes(r, q)
<1> DEFINE q == [req[r] EXCEPT !.idx = @ + 1]
<1>1. Good(req[r]) /\ req[r] \in Request /\ req[r].pc = "select"
  BY Current DEF Good, SkipCandidate
<1>2. req[r].idx + 1 \in Nat \ {0} /\ req[r].calls \in Nat
  BY <1>1 DEF Request
<1>3. q \in Request
  BY <1>1, <1>2 DEF Request
<1>4. q.pc = "select" /\ q.cands = req[r].cands /\ q.calls = req[r].calls
  BY <1>1 DEF Request
<1>5. req' = [req EXCEPT ![r] = q]
  BY DEF SkipCandidate
<1>6. Becomes(r, q)
  BY <1>1, <1>2, <1>3, <1>4, <1>5 DEF Becomes, Good, Placed, Charged
<1> QED BY <1>6

LEMMA CallCandidateStep ==
  ASSUME IInv, NEW r \in Requests, CallCandidate(r)
  PROVE  \E q : Becomes(r, q)
<1> DEFINE q == [req[r] EXCEPT !.pc = "calling", !.tried = @ \cup {req[r].idx},
                               !.calls = @ + 1, !.since = now]
<1>1. Good(req[r]) /\ req[r] \in Request
  BY Current DEF Good
<1>2. /\ req[r].tried \cup {req[r].idx} \in SUBSET Nat
      /\ req[r].calls + 1 \in Nat /\ now \in Nat
  BY <1>1 DEF IInv, TypeOK, Request
<1>3. q \in Request
  BY <1>1, <1>2 DEF Request, PC
<1>4. q.pc = "calling" /\ q.cands = req[r].cands /\ q.idx = req[r].idx
  BY <1>1 DEF Request
<1>5. q.idx \in DOMAIN q.cands
  BY <1>1, <1>4 DEF CallCandidate, Request
<1>6. req' = [req EXCEPT ![r] = q] /\ HasBudget(r)
  BY DEF CallCandidate
<1>7. Becomes(r, q)
  BY <1>1, <1>3, <1>4, <1>5, <1>6 DEF Becomes, Good, Placed, Charged
<1> QED BY <1>7

\* A request that stays with its candidate and starts no attempt.
LEMMA StaysGood ==
  ASSUME NEW q, Good(q), q.idx \in DOMAIN q.cands, NEW n \in Request,
         n.cands = q.cands, n.idx = q.idx, Charged(n)
  PROVE  Good(n)
BY DEF Good, Placed

LEMMA AttemptFailsStep ==
  ASSUME IInv, NEW r \in Requests, NEW class \in {"transient", "timeout"},
         AttemptFails(r, class)
  PROVE  \E q : Becomes(r, q)
<1>1. Good(req[r]) /\ req[r] \in Request /\ req[r].pc = "calling"
  BY Current DEF Good, AttemptFails
<1>2. req[r].idx \in DOMAIN req[r].cands /\ req[r].calls \in Nat /\ now \in Nat
  BY <1>1 DEF Good, Placed, Request, IInv, TypeOK
<1>3. CASE /\ HasBudget(r)
           /\ req' = [req EXCEPT ![r].retried = TRUE, ![r].calls = @ + 1, ![r].since = now]
  <2> DEFINE q == [req[r] EXCEPT !.retried = TRUE, !.calls = @ + 1, !.since = now]
  <2> req[r].calls + 1 \in Nat
    BY <1>2
  <2>1. q \in Request
    BY <1>1, <1>2 DEF Request
  <2>2. q.pc = "calling" /\ q.cands = req[r].cands /\ q.idx = req[r].idx
    BY <1>1 DEF Request
  <2>3. Good(q)
    BY <1>1, <1>2, <2>1, <2>2, StaysGood DEF Charged
  <2>4. Becomes(r, q)
    BY <1>3, <2>3 DEF Becomes
  <2> QED BY <2>4
<1>4. CASE req' = [req EXCEPT ![r].pc = "errored", ![r].class = class, ![r].retryAfter = 0]
  <2> DEFINE q == [req[r] EXCEPT !.pc = "errored", !.class = class, !.retryAfter = 0]
  <2>1. q \in Request
    BY <1>1 DEF Request, PC, Class
  <2>2. /\ q.pc = "errored" /\ q.cands = req[r].cands /\ q.idx = req[r].idx
        /\ q.class = class /\ q.calls = req[r].calls
    BY <1>1 DEF Request
  <2>3. Good(q)
    BY <1>1, <1>2, <2>1, <2>2, StaysGood DEF Charged
  <2>4. req' = [req EXCEPT ![r] = q]
    BY <1>4
  <2> HIDE DEF q
  <2>5. Becomes(r, q)
    BY <1>2, <2>2, <2>3, <2>4 DEF Becomes
  <2> QED BY <2>5
<1> QED BY <1>3, <1>4 DEF AttemptFails

\* A step that keeps the candidate and starts no attempt.
LEMMA Stays ==
  ASSUME IInv, NEW r \in Requests, req[r].idx \in DOMAIN req[r].cands,
         NEW q \in Request, q.cands = req[r].cands, q.idx = req[r].idx,
         q.calls = req[r].calls, Charged(q), req' = [req EXCEPT ![r] = q]
  PROVE  Becomes(r, q)
<1>1. Good(req[r]) /\ req[r].calls \in Nat
  BY Current DEF Good, Request
<1>2. Good(q)
  BY <1>1, StaysGood
<1> QED BY <1>1, <1>2 DEF Becomes

\* A step that ends the request.
LEMMA Ends ==
  ASSUME IInv, NEW r \in Requests, NEW q \in Request, q.pc = "done", q.cands = <<>>,
         q.calls = req[r].calls, req' = [req EXCEPT ![r] = q]
  PROVE  Becomes(r, q)
<1>1. req[r].calls \in Nat
  BY Current DEF Good, Request
<1>2. Good(q)
  BY DoneIsGood
<1> QED BY <1>1, <1>2 DEF Becomes

LEMMA GotoStep ==
  ASSUME IInv, NEW r \in Requests, req[r].idx \in DOMAIN req[r].cands,
         NEW pc \in PC \ {"errored"}, Goto(r, pc),
         pc = "penalize" => req[r].class \in Penalised /\ Cand(r).account = NoAccount,
         pc \in {"streak", "record"} => Cand(r).account # NoAccount
  PROVE  \E q : Becomes(r, q)
<1> DEFINE q == [req[r] EXCEPT !.pc = pc]
<1>1. req[r] \in Request
  BY Current DEF Good
<1>2. q \in Request
  BY <1>1 DEF Request
<1>3. /\ q.pc = pc /\ q.cands = req[r].cands /\ q.idx = req[r].idx
      /\ q.class = req[r].class /\ q.calls = req[r].calls
  BY <1>1 DEF Request
<1>4. req' = [req EXCEPT ![r] = q]
  BY DEF Goto
<1> HIDE DEF q
<1>5. Charged(q)
  BY <1>3 DEF Charged, Cand
<1>6. Becomes(r, q)
  BY <1>2, <1>3, <1>4, <1>5, Stays
<1> QED BY <1>6

LEMMA FinishStep ==
  ASSUME IInv, NEW r \in Requests, NEW a \in Answer, Finish(r, a)
  PROVE  \E q : Becomes(r, q)
<1> DEFINE q == Return(req[r], a)
<1>1. req[r] \in Request
  BY Current DEF Good
<1>2. q \in Request /\ q.pc = "done" /\ q.cands = <<>> /\ q.calls = req[r].calls
  BY <1>1, ReturnType
<1>3. req' = [req EXCEPT ![r] = q]
  BY DEF Finish
<1> HIDE DEF q
<1>4. Becomes(r, q)
  BY <1>2, <1>3, Ends
<1> QED BY <1>4

LEMMA LoggedType ==
  ASSUME NEW q \in Request
  PROVE  /\ Logged(q) \in Request
         /\ Logged(q).pc = q.pc /\ Logged(q).cands = q.cands
         /\ Logged(q).idx = q.idx /\ Logged(q).calls = q.calls
<1>1. q.logged + 1 \in Nat
  BY DEF Request
<1> QED BY <1>1 DEF Logged, Request

\* The last log of a request that ends.
LEMMA LogAndReturnStep ==
  ASSUME IInv, NEW r \in Requests, NEW a \in Answer,
         req' = [req EXCEPT ![r] = Logged(Return(@, a))]
  PROVE  \E q : Becomes(r, q)
<1> DEFINE e == Return(req[r], a)
           q == Logged(e)
<1>1. req[r] \in Request
  BY Current DEF Good
<1>2. /\ e \in Request /\ e.pc = "done" /\ e.cands = <<>> /\ e.calls = req[r].calls
  BY <1>1, ReturnType
<1>3. req' = [req EXCEPT ![r] = q]
  OBVIOUS
<1> HIDE DEF e
<1>4. q \in Request /\ q.pc = "done" /\ q.cands = <<>> /\ q.calls = req[r].calls
  BY <1>2, LoggedType
<1> HIDE DEF q
<1>5. Becomes(r, q)
  BY <1>3, <1>4, Ends
<1> QED BY <1>5

LEMMA AttemptRejectedStep ==
  ASSUME IInv, NEW r \in Requests, AttemptRejected(r)
  PROVE  \E q : Becomes(r, q)
<1>1. /\ Good(req[r]) /\ req[r] \in Request /\ req[r].pc = "calling"
      /\ req[r].idx \in DOMAIN req[r].cands
  BY Current DEF Good, Placed, AttemptRejected
<1>2. PICK class \in ResponseClasses(r) :
        \E retryAfter \in IF class = "rate_limited" THEN RetryAfters ELSE {0} :
          req' = [req EXCEPT
                   ![r].class = class, ![r].retryAfter = retryAfter,
                   ![r].pc = IF Cand(r).account # NoAccount
                             THEN IF class \in AccountEligible THEN "streak" ELSE "decide"
                             ELSE IF class \in Penalised THEN "penalize" ELSE "decide"]
  BY DEF AttemptRejected
<1>3. PICK retryAfter \in Nat :
        req' = [req EXCEPT
                   ![r].class = class, ![r].retryAfter = retryAfter,
                   ![r].pc = IF Cand(r).account # NoAccount
                             THEN IF class \in AccountEligible THEN "streak" ELSE "decide"
                             ELSE IF class \in Penalised THEN "penalize" ELSE "decide"]
  BY <1>2, FallbackConstants
<1> DEFINE pc == IF Cand(r).account # NoAccount
                 THEN IF class \in AccountEligible THEN "streak" ELSE "decide"
                 ELSE IF class \in Penalised THEN "penalize" ELSE "decide"
           q == [req[r] EXCEPT !.class = class, !.retryAfter = retryAfter, !.pc = pc]
<1>4. class \in Class
  BY <1>2 DEF ResponseClasses, Class
<1>5. pc \in PC /\ pc # "errored"
  BY DEF PC
<1>6. /\ pc = "penalize" => class \in Penalised /\ Cand(r).account = NoAccount
      /\ pc \in {"streak", "record"} => Cand(r).account # NoAccount
  OBVIOUS
<1>7. req' = [req EXCEPT ![r] = q]
  BY <1>3
<1> HIDE DEF pc
<1>8. q \in Request
  BY <1>1, <1>4, <1>5 DEF Request
<1>9. /\ q.pc = pc /\ q.cands = req[r].cands /\ q.idx = req[r].idx
      /\ q.class = class /\ q.calls = req[r].calls
  BY <1>1 DEF Request
<1> HIDE DEF q
<1>10. Charged(q)
  BY <1>5, <1>6, <1>9 DEF Charged, Cand
<1>11. Becomes(r, q)
  BY <1>1, <1>7, <1>8, <1>9, <1>10, Stays
<1> QED BY <1>11

LEMMA AttemptEmptyStep ==
  ASSUME IInv, NEW r \in Requests, AttemptEmpty(r)
  PROVE  \E q : Becomes(r, q)
<1> DEFINE q == [req[r] EXCEPT !.class = "empty_response", !.retryAfter = 0, !.pc = "penalize"]
<1>1. /\ Good(req[r]) /\ req[r] \in Request /\ req[r].idx \in DOMAIN req[r].cands
  BY Current DEF Good, Placed, AttemptEmpty
<1>2. q \in Request
  BY <1>1 DEF Request, PC, Class
<1>3. /\ q.pc = "penalize" /\ q.cands = req[r].cands /\ q.idx = req[r].idx
      /\ q.class = "empty_response" /\ q.calls = req[r].calls
  BY <1>1 DEF Request
<1>4. req' = [req EXCEPT ![r] = q] /\ Cand(r).account = NoAccount
  BY DEF AttemptEmpty
<1> HIDE DEF q
<1>5. Charged(q)
  BY <1>3, <1>4 DEF Charged, Cand, Penalised, Fallback, Class
<1>6. Becomes(r, q)
  BY <1>1, <1>2, <1>3, <1>4, <1>5, Stays
<1> QED BY <1>6

LEMMA AttemptAcceptedStep ==
  ASSUME IInv, NEW r \in Requests, AttemptAccepted(r)
  PROVE  \E q : Becomes(r, q)
<1> DEFINE q == [req[r] EXCEPT !.pc = "streaming", !.answer = "ok"]
<1>1. /\ Good(req[r]) /\ req[r] \in Request /\ req[r].idx \in DOMAIN req[r].cands
  BY Current DEF Good, Placed, AttemptAccepted
<1>2. q \in Request
  BY <1>1 DEF Request, PC, Answer
<1>3. /\ q.pc = "streaming" /\ q.cands = req[r].cands /\ q.idx = req[r].idx
      /\ q.calls = req[r].calls
  BY <1>1 DEF Request
<1>4. req' = [req EXCEPT ![r] = q]
  BY DEF AttemptAccepted
<1> HIDE DEF q
<1>5. Charged(q)
  BY <1>3 DEF Charged
<1>6. Becomes(r, q)
  BY <1>1, <1>2, <1>3, <1>4, <1>5, Stays
<1> QED BY <1>6

LEMMA CheckContextStep ==
  ASSUME IInv, NEW r \in Requests, CheckContext(r)
  PROVE  \E q : Becomes(r, q)
<1>1. /\ req[r].pc = "errored" /\ req[r].idx \in DOMAIN req[r].cands
      /\ req[r].class \in {"transient", "timeout"}
  BY Current DEF Good, Placed, Charged, CheckContext
<1>2. CASE CtxDone(r)
  <2>1. PICK a \in {"none", "gateway_timeout"} : Finish(r, a)
    BY <1>2 DEF CheckContext
  <2> QED BY <2>1, FinishStep DEF Answer
<1>3. CASE ~CtxDone(r)
  <2>1. PICK pc \in {"penalize", "streak"} :
           /\ Goto(r, pc)
           /\ pc = "penalize" => Cand(r).account = NoAccount
           /\ pc = "streak" => Cand(r).account # NoAccount
    BY <1>3 DEF CheckContext
  <2>2. pc \in PC \ {"errored"} /\ pc # "record" /\ req[r].class \in Penalised
    BY <1>1 DEF PC, Penalised, Fallback, Class
  <2> QED BY <1>1, <2>1, <2>2, GotoStep
<1> QED BY <1>2, <1>3

LEMMA LogAndDecideStep ==
  ASSUME IInv, NEW r \in Requests, LogAndDecide(r)
  PROVE  \E q : Becomes(r, q)
<1>1. /\ Good(req[r]) /\ req[r] \in Request /\ req[r].calls \in Nat
  BY Current DEF Good, Request
<1>2. CASE req' = [req EXCEPT ![r] = Continue(@)]
  <2> DEFINE e == Logged(EndIteration(req[r]))
             q == [e EXCEPT !.pc = "select", !.idx = @ + 1]
  <2>1. e \in Request /\ e.cands = req[r].cands /\ e.calls = req[r].calls
    BY <1>1, EndIterationType, LoggedType
  <2>2. req' = [req EXCEPT ![r] = q]
    BY <1>2 DEF Continue
  <2> HIDE DEF e
  <2>3. e.idx + 1 \in Nat \ {0}
    BY <2>1 DEF Request
  <2>4. q \in Request
    BY <2>1, <2>3 DEF Request, PC
  <2>5. q.pc = "select" /\ q.cands = req[r].cands /\ q.calls = req[r].calls
    BY <2>1 DEF Request
  <2> HIDE DEF q
  <2>6. Becomes(r, q)
    BY <1>1, <2>2, <2>4, <2>5 DEF Becomes, Good, Placed, Charged
  <2> QED BY <2>6
<1>3. CASE req' = [req EXCEPT ![r] = Logged(Return(@, PublicError(req[r].class)))]
  <2>1. PublicError(req[r].class) \in Answer
    BY <1>1, AnswerType DEF Request
  <2> QED BY <1>3, <2>1, LogAndReturnStep
<1> QED BY <1>2, <1>3 DEF LogAndDecide

LEMMA LeaveLoopStep ==
  ASSUME IInv, NEW r \in Requests, LeaveLoop(r)
  PROVE  \E q : Becomes(r, q)
<1>1. PICK a \in {"none", "gateway_timeout", "all_candidates_unavailable",
                  "no_provider_available"} : Finish(r, a)
  BY DEF LeaveLoop
<1> QED BY <1>1, FinishStep DEF Answer

LEMMA ReadStreakStep ==
  ASSUME IInv, NEW r \in Requests, ReadStreak(r)
  PROVE  \E q : Becomes(r, q)
<1> DEFINE streak == account[Cand(r).account].streak
           q == [req[r] EXCEPT !.pc = "record", !.streak = streak, !.at = now]
<1>1. /\ Good(req[r]) /\ req[r] \in Request /\ req[r].idx \in DOMAIN req[r].cands
  BY Current DEF Good, Placed, ReadStreak
<1>2. CASE Goto(r, "decide")
  BY <1>1, <1>2, GotoStep DEF PC
<1>3. CASE req' = [req EXCEPT ![r].pc = "record", ![r].streak = streak, ![r].at = now]
  <2>1. Cand(r).account \in Accounts
    BY <1>1, ChargedAccount DEF ReadStreak
  <2>2. streak \in Nat /\ now \in Nat
    BY <2>1 DEF IInv, TypeOK
  <2>3. req' = [req EXCEPT ![r] = q]
    BY <1>3
  <2>4. Cand(r).account # NoAccount
    BY <2>1, FallbackConstants
  <2> HIDE DEF streak
  <2>5. q \in Request
    BY <1>1, <2>2 DEF Request, PC
  <2>6. /\ q.pc = "record" /\ q.cands = req[r].cands /\ q.idx = req[r].idx
        /\ q.calls = req[r].calls
    BY <1>1 DEF Request
  <2> HIDE DEF q
  <2>7. Charged(q)
    BY <2>4, <2>6 DEF Charged, Cand
  <2>8. Becomes(r, q)
    BY <1>1, <2>3, <2>5, <2>6, <2>7, Stays
  <2> QED BY <2>8
<1> QED BY <1>2, <1>3 DEF ReadStreak

LEMMA PenalizeProviderStep ==
  ASSUME IInv, NEW r \in Requests, PenalizeProvider(r)
  PROVE  \E q : Becomes(r, q)
<1>1. req[r].idx \in DOMAIN req[r].cands /\ Goto(r, "decide")
  BY Current DEF Good, Placed, PenalizeProvider
<1> QED BY <1>1, GotoStep DEF PC

LEMMA RecordFailureStep ==
  ASSUME IInv, NEW r \in Requests, RecordFailure(r)
  PROVE  \E q : Becomes(r, q)
<1> DEFINE q == [req[r] EXCEPT !.pc = "decide", !.streak = 0, !.at = 0]
<1>1. req[r] \in Request /\ req[r].idx \in DOMAIN req[r].cands
  BY Current DEF Good, Placed, RecordFailure
<1>2. req' = [req EXCEPT ![r] = q]
  BY DEF RecordFailure
<1>3. q \in Request
  BY <1>1 DEF Request, PC
<1>4. /\ q.pc = "decide" /\ q.cands = req[r].cands /\ q.idx = req[r].idx
      /\ q.calls = req[r].calls
  BY <1>1 DEF Request
<1> HIDE DEF q
<1>5. Charged(q)
  BY <1>4 DEF Charged
<1> QED BY <1>1, <1>2, <1>3, <1>4, <1>5, Stays

LEMMA StreamEndsStep ==
  ASSUME IInv, NEW r \in Requests, StreamEnds(r)
  PROVE  \E q : Becomes(r, q)
<1>1. req[r].idx \in DOMAIN req[r].cands /\ Goto(r, "succeed")
  BY Current DEF Good, Placed, StreamEnds
<1> QED BY <1>1, GotoStep DEF PC

LEMMA RecordSuccessStep ==
  ASSUME IInv, NEW r \in Requests, RecordSuccess(r)
  PROVE  \E q : Becomes(r, q)
<1>1. req' = [req EXCEPT ![r] = Logged(Return(@, "ok"))]
  BY DEF RecordSuccess
<1> QED BY <1>1, LogAndReturnStep DEF Answer

LEMMA ClientDisconnectsStep ==
  ASSUME IInv, NEW r \in Requests, ClientDisconnects(r)
  PROVE  \E q : Becomes(r, q)
<1> DEFINE q == [req[r] EXCEPT !.gone = TRUE]
<1>1. Good(req[r]) /\ req[r] \in Request /\ req[r].calls \in Nat
  BY Current DEF Good, Request
<1>2. q \in Request
  BY <1>1 DEF Request
<1>3. /\ q.pc = req[r].pc /\ q.cands = req[r].cands /\ q.idx = req[r].idx
      /\ q.class = req[r].class /\ q.calls = req[r].calls
  BY <1>1 DEF Request
<1>4. req' = [req EXCEPT ![r] = q]
  BY DEF ClientDisconnects
<1> HIDE DEF q
<1>5. Becomes(r, q)
  BY <1>1, <1>2, <1>3, <1>4 DEF Becomes, Good, Placed, Charged
<1> QED BY <1>5

--------------------------------------------------------------------------------
(***************************************************************************)
(* The invariant and what follows from it.                                 *)
(***************************************************************************)
\* Every step of a request.
RequestStep(r) == Arrive(r) \/ HandlerStep(r) \/ UpstreamStep(r) \/ ClientDisconnects(r)

LEMMA BecomesGood ==
  ASSUME IInv, NEW r \in Requests, RequestStep(r)
  PROVE  \E q : Becomes(r, q)
<1>1. CASE Arrive(r)
  BY <1>1, ArriveStep
<1>2. CASE HandlerStep(r)
  <2>1. CASE AttemptTimesOut(r) \/ AttemptCut(r)
    BY <2>1, AttemptFailsStep DEF AttemptTimesOut, AttemptCut
  <2>2. CASE StreamCut(r)
    BY <2>2, StreamEndsStep DEF StreamCut
  <2> QED
    BY <1>2, <2>1, <2>2, ExpandProviderStep, ExpandDoneStep, SkipCandidateStep,
       CallCandidateStep, LeaveLoopStep, CheckContextStep, PenalizeProviderStep,
       ReadStreakStep, RecordFailureStep, LogAndDecideStep, RecordSuccessStep
    DEF HandlerStep
<1>3. CASE UpstreamStep(r)
  <2>1. CASE AttemptErrors(r)
    BY <2>1, AttemptFailsStep DEF AttemptErrors
  <2> QED
    BY <1>3, <2>1, AttemptRejectedStep, AttemptEmptyStep, AttemptAcceptedStep, StreamEndsStep
    DEF UpstreamStep
<1>4. CASE ClientDisconnects(r)
  BY <1>4, ClientDisconnectsStep
<1> QED BY <1>1, <1>2, <1>3, <1>4 DEF RequestStep

\* Only a penalty changes a cooldown, and only an outcome changes an account.
LEMMA SharedState ==
  ASSUME NEW r \in Requests, RequestStep(r)
  PROVE  /\ UNCHANGED <<now, usable>>
         /\ PenalizeProvider(r) \/ UNCHANGED cooldown
         /\ RecordFailure(r) \/ RecordSuccess(r) \/ UNCHANGED account
BY DEF RequestStep, Arrive, HandlerStep, UpstreamStep, ClientDisconnects, ExpandProvider,
       ExpandDone, SkipCandidate, CallCandidate, LeaveLoop, AttemptTimesOut, AttemptCut,
       AttemptErrors, AttemptFails, CheckContext, PenalizeProvider, ReadStreak,
       RecordFailure, LogAndDecide, StreamCut, StreamEnds, RecordSuccess,
       AttemptRejected, AttemptEmpty, AttemptAccepted

\* What a penalty does: it moves the end of the cooldown of one provider, which has
\* no account if the store answers, and never backward.
LEMMA PenaltyStep ==
  ASSUME IInv, NEW r \in Requests, PenalizeProvider(r)
  PROVE  /\ cooldown' \in [Providers -> Nat]
         /\ \A p \in Providers : cooldown'[p] >= cooldown[p]
         /\ ~StoreFaults => \A p \in Providers :
              AccountsOf[p] # <<>> => cooldown'[p] = cooldown[p]
<1> DEFINE c == Cand(r)
           d == ProviderCooldown(req[r].class, req[r].retryAfter)
<1>1. /\ req[r].pc = "penalize" /\ req[r].idx \in DOMAIN req[r].cands
      /\ req[r].class \in Penalised /\ req[r].retryAfter \in Nat
      /\ c.account = NoAccount
  BY Current DEF Good, Placed, Charged, Cand, Request, PenalizeProvider
<1>2. c.provider \in Providers /\ d \in Nat
  BY <1>1, CandType, ProviderCooldownType DEF Candidate
<1>3. ~StoreFaults => AccountsOf[c.provider] = <<>>
  BY <1>1 DEF IInv, Sourced, Cand
<1>4. Penalize(c.provider, d)
  BY DEF PenalizeProvider
<1>5. now \in Nat /\ cooldown \in [Providers -> Nat]
  BY DEF IInv, TypeOK
<1> HIDE DEF c, d
<1> QED BY <1>2, <1>3, <1>4, <1>5 DEF Penalize

\* What an outcome does: the streak and the cooldown of one account stay coherent.
LEMMA OutcomeStep ==
  ASSUME IInv, NEW r \in Requests, RecordFailure(r) \/ RecordSuccess(r)
  PROVE  /\ account' \in [Accounts -> [streak : Nat, until : Nat]]
         /\ \A a \in Accounts : account'[a].streak = 0 <=> account'[a].until = 0
<1>1. /\ now \in Nat /\ account \in [Accounts -> [streak : Nat, until : Nat]]
      /\ \A a \in Accounts : account[a].streak = 0 <=> account[a].until = 0
      /\ req[r].streak \in Nat /\ req[r].retryAfter \in Nat /\ req[r].at \in Nat
  BY DEF IInv, TypeOK, Request
<1>2. ASSUME NEW b \in Accounts, NEW s \in Nat, NEW u \in Nat, s = 0 <=> u = 0,
             account' = [account EXCEPT ![b] = [streak |-> s, until |-> u]]
      PROVE  /\ account' \in [Accounts -> [streak : Nat, until : Nat]]
             /\ \A a \in Accounts : account'[a].streak = 0 <=> account'[a].until = 0
  BY <1>1, <1>2
<1>3. CASE RecordFailure(r)
  <2> DEFINE b == Cand(r).account
             d == AccountCooldown(req[r].streak + 1, req[r].retryAfter)
             s == account[b].streak + 1
             u == req[r].at + d
  <2>1. b \in Accounts
    BY <1>3, ChargedAccount DEF RecordFailure
  <2>2. req[r].streak + 1 \in Nat \ {0}
    BY <1>1
  <2>3. d \in Nat \ {0}
    BY <1>1, <2>2, AccountCooldownType
  <2>4. account[b].streak \in Nat
    BY <1>1, <2>1
  <2>5. account' = [account EXCEPT ![b] = [streak |-> s, until |-> u]]
    BY <1>1, <1>3, <2>1 DEF RecordFailure
  <2> HIDE DEF b, d
  <2>6. s \in Nat /\ u \in Nat /\ (s = 0 <=> u = 0)
    BY <1>1, <2>3, <2>4
  <2> HIDE DEF s, u
  <2> QED BY <1>2, <2>1, <2>5, <2>6
<1>4. CASE RecordSuccess(r)
  <2>1. req[r].idx \in DOMAIN req[r].cands
    BY <1>4, Current DEF Good, Placed, RecordSuccess
  <2>2. Cand(r).account \in Accounts \cup {NoAccount}
    BY <2>1, CandType DEF Candidate
  <2>3. CASE Cand(r).account = NoAccount
    BY <1>1, <1>4, <2>3 DEF RecordSuccess
  <2>4. CASE Cand(r).account # NoAccount
    <3>1. account' = [account EXCEPT ![Cand(r).account] = [streak |-> 0, until |-> 0]]
      BY <1>4, <2>4 DEF RecordSuccess
    <3> QED BY <1>2, <2>2, <2>4, <3>1
  <2> QED BY <2>3, <2>4
<1> QED BY <1>3, <1>4

LEMMA Invariant_Init == Init => IInv
<1> SUFFICES ASSUME Init PROVE IInv
  OBVIOUS
<1>1. \A r \in Requests : req[r] = Fresh
  BY DEF Init
<1>2. Fresh.pc = "idle" /\ Fresh.cands = <<>>
  BY DEF Fresh
<1>3. TypeOK
  BY <1>1, <1>2, FreshType DEF Init, TypeOK
<1>4. SiblingIsolation
  BY DEF Init, SiblingIsolation
<1>5. Sourced(<<>>)
  BY DEF Sourced
<1> HIDE DEF Fresh
<1> QED BY <1>1, <1>2, <1>3, <1>4, <1>5 DEF IInv, Charged

LEMMA Invariant_Step == IInv /\ [Next]_vars => IInv'
<1> SUFFICES ASSUME IInv, [Next]_vars PROVE IInv'
  OBVIOUS
<1>1. CASE UNCHANGED vars
  BY <1>1 DEF IInv, TypeOK, SiblingIsolation, vars
<1>2. CASE Tick
  <2>1. now + 1 \in Nat
    BY DEF IInv, TypeOK
  <2> QED BY <1>2, <2>1 DEF IInv, TypeOK, SiblingIsolation, Tick
<1>3. ASSUME NEW r \in Requests, RequestStep(r)
      PROVE  IInv'
  <2>1. PICK q : Good(q) /\ req' = [req EXCEPT ![r] = q]
    BY <1>3, BecomesGood DEF Becomes
  <2>2. \A s \in Requests : Good(req'[s])
    BY <2>1, Current DEF IInv, TypeOK
  <2>3. req' \in [Requests -> Request]
    BY <2>1 DEF IInv, TypeOK, Good
  <2>4. /\ cooldown' \in [Providers -> Nat]
        /\ SiblingIsolation'
    BY <1>3, SharedState, PenaltyStep DEF IInv, TypeOK, SiblingIsolation
  <2>5. /\ account' \in [Accounts -> [streak : Nat, until : Nat]]
        /\ \A a \in Accounts : account'[a].streak = 0 <=> account'[a].until = 0
    BY <1>3, SharedState, OutcomeStep DEF IInv, TypeOK
  <2>6. now' \in Nat /\ usable' \subseteq Accounts
    BY <1>3, SharedState DEF IInv, TypeOK
  <2>7. TypeOK'
    BY <2>2, <2>3, <2>4, <2>5, <2>6 DEF TypeOK, Good, Placed
  <2> QED BY <2>2, <2>4, <2>7 DEF IInv, Good
<1> QED BY <1>1, <1>2, <1>3 DEF Next, RequestStep

LEMMA Invariant == Spec => []IInv
BY Invariant_Init, Invariant_Step, PTL DEF Spec

\* Every variable keeps its type, a request that is past the head of the loop has a
\* current candidate, and an account carries a cooldown exactly while it has a
\* failure streak, for any number of concurrent requests.
THEOREM TypeCorrect == Spec => []TypeOK
<1>1. IInv => TypeOK
  BY DEF IInv
<1> QED BY <1>1, Invariant, PTL

\* While the store answers, no provider that has accounts is ever put in cooldown as
\* a whole.
THEOREM SiblingsStayReachable == Spec => []SiblingIsolation
<1>1. IInv => SiblingIsolation
  BY DEF IInv
<1> QED BY <1>1, Invariant, PTL

\* The end of a provider's cooldown never moves back, in whatever order concurrent
\* requests report their failures.
THEOREM CooldownMonotonic == Spec => CooldownNeverShortened
<1>1. IInv /\ [Next]_vars => [\A p \in Providers : cooldown'[p] >= cooldown[p]]_vars
  <2> SUFFICES ASSUME IInv, Next
               PROVE  \A p \in Providers : cooldown'[p] >= cooldown[p]
    OBVIOUS
  <2>1. \A p \in Providers : cooldown[p] \in Nat
    BY DEF IInv, TypeOK
  <2>2. CASE Tick
    BY <2>1, <2>2 DEF Tick
  <2>3. ASSUME NEW r \in Requests, RequestStep(r)
        PROVE  \A p \in Providers : cooldown'[p] >= cooldown[p]
    BY <2>1, <2>3, SharedState, PenaltyStep
  <2> QED BY <2>2, <2>3 DEF Next, RequestStep
<1> QED BY <1>1, Invariant, PTL DEF Spec, CooldownNeverShortened

\* No request hands an attempt to an executor, first attempt or retry, unless more
\* than the reserved budget is left and its client is still there.
THEOREM BudgetIsReserved == Spec => BudgetReserved
<1>1. IInv /\ [Next]_vars
      => [\A r \in Requests : req'[r].calls > req[r].calls => HasBudget(r)]_vars
  <2> SUFFICES ASSUME IInv, Next, NEW s \in Requests, req'[s].calls > req[s].calls
               PROVE  HasBudget(s)
    OBVIOUS
  <2>1. req \in [Requests -> Request] /\ req[s].calls \in Nat
    BY DEF IInv, TypeOK, Request
  <2>2. CASE Tick
    BY <2>1, <2>2 DEF Tick
  <2>3. ASSUME NEW r \in Requests, RequestStep(r)
        PROVE  HasBudget(s)
    <3>1. PICK q : Becomes(r, q)
      BY <2>3, BecomesGood
    <3>2. req' = [req EXCEPT ![r] = q] /\ (q.calls > req[r].calls => HasBudget(r))
      BY <3>1 DEF Becomes
    <3>3. s = r
      BY <2>1, <3>2
    <3> QED BY <2>1, <3>2, <3>3
  <2> QED BY <2>2, <2>3 DEF Next, RequestStep
<1> QED BY <1>1, Invariant, PTL DEF Spec, BudgetReserved

--------------------------------------------------------------------------------
(***************************************************************************)
(* How many candidates a list of providers expands to.                     *)
(***************************************************************************)
LEMMA WidthType ==
  ASSUME NEW p \in Providers
  PROVE  Width(p) \in Nat \ {0} /\ Len(AccountsOf[p]) <= Width(p)
<1>1. Len(AccountsOf[p]) \in Nat
  BY FallbackConstants, LenProperties
<1> QED BY <1>1 DEF Width

\* The slots of a list are the slots of its head and the shifted slots of its tail.
LEMMA SlotsOfList ==
  ASSUME NEW s \in Seq(Providers), s # <<>>
  PROVE  Slots(s) = ({1} \X (1..Width(Head(s))))
                       \cup {<<t[1] + 1, t[2]>> : t \in Slots(Tail(s))}
<1> DEFINE first == {1} \X (1..Width(Head(s)))
           rest  == {<<t[1] + 1, t[2]>> : t \in Slots(Tail(s))}
<1>1. /\ Len(s) \in Nat \ {0} /\ DOMAIN s = 1..Len(s) /\ Head(s) = s[1]
      /\ DOMAIN Tail(s) = 1..(Len(s) - 1)
      /\ \A i \in 1..(Len(s) - 1) : Tail(s)[i] = s[i + 1]
  BY HeadTailProperties, LenProperties, EmptySeq
<1>2. ASSUME NEW t \in Slots(s) PROVE t \in first \cup rest
  <2>1. PICK i \in 1..Len(s) : t \in {i} \X (1..Width(s[i]))
    BY <1>1 DEF Slots
  <2>2. CASE i = 1
    BY <1>1, <2>1, <2>2
  <2>3. CASE i # 1
    <3> DEFINE u == <<i - 1, t[2]>>
    <3>1. i - 1 \in DOMAIN Tail(s) /\ Tail(s)[i - 1] = s[i]
      BY <1>1, <2>3
    <3>2. t = <<i, t[2]>> /\ t[2] \in 1..Width(s[i])
      BY <2>1
    <3>3. u \in Slots(Tail(s))
      BY <3>1, <3>2 DEF Slots
    <3>4. t = <<u[1] + 1, u[2]>>
      BY <3>2
    <3> QED BY <3>3, <3>4
  <2> QED BY <2>2, <2>3
<1>3. ASSUME NEW t \in first PROVE t \in Slots(s)
  <2>1. t \in {1} \X (1..Width(s[1])) /\ 1 \in DOMAIN s
    BY <1>1, <1>3
  <2> QED BY <2>1 DEF Slots
<1>4. ASSUME NEW t \in rest PROVE t \in Slots(s)
  <2>1. PICK u \in Slots(Tail(s)) : t = <<u[1] + 1, u[2]>>
    BY <1>4
  <2>2. PICK i \in 1..(Len(s) - 1) : u \in {i} \X (1..Width(Tail(s)[i]))
    BY <1>1, <2>1 DEF Slots
  <2>3. t \in {i + 1} \X (1..Width(s[i + 1])) /\ i + 1 \in DOMAIN s
    BY <1>1, <2>1, <2>2
  <2> QED BY <2>3 DEF Slots
<1> HIDE DEF first, rest
<1>5. Slots(s) = first \cup rest
  BY <1>2, <1>3, <1>4
<1> QED BY <1>5 DEF first, rest

LEMMA SlotsCount ==
  ASSUME NEW s \in Seq(Providers)
  PROVE  IsFiniteSet(Slots(s)) /\ Cardinality(Slots(s)) \in Nat
<1> DEFINE row == [i \in 1..Len(s) |-> {i} \X (1..Width(s[i]))]
           rows == {row[i] : i \in 1..Len(s)}
<1>1. Len(s) \in Nat /\ DOMAIN s = 1..Len(s)
  BY LenProperties
<1>2. IsFiniteSet(1..Len(s))
  BY <1>1, FS_Interval
<1>3. row \in Surjection(1..Len(s), rows)
  BY DEF Surjection
<1>4. IsFiniteSet(rows)
  <2> HIDE DEF row, rows
  <2> QED BY <1>2, <1>3, FS_Surjection
<1>5. ASSUME NEW i \in 1..Len(s) PROVE IsFiniteSet(row[i])
  <2>1. Width(s[i]) \in Nat
    BY <1>1, ElementOfSeq, WidthType
  <2>2. IsFiniteSet(1..Width(s[i]))
    BY <2>1, FS_Interval
  <2>4. IsFiniteSet({i})
    BY FS_Singleton
  <2>3. IsFiniteSet({i} \X (1..Width(s[i])))
    BY <2>2, <2>4, FS_Product
  <2> QED BY <2>3
<1>6. IsFiniteSet(UNION rows)
  <2>1. \A T \in rows : IsFiniteSet(T)
    BY <1>5
  <2> HIDE DEF row, rows
  <2> QED BY <1>4, <2>1, FS_UNION
<1>7. Slots(s) = UNION rows
  BY <1>1 DEF Slots
<1> HIDE DEF row, rows
<1> QED BY <1>6, <1>7, FS_CardinalityType

LEMMA SlotsAdd ==
  ASSUME NEW s \in Seq(Providers), s # <<>>
  PROVE  Cardinality(Slots(s)) = Width(Head(s)) + Cardinality(Slots(Tail(s)))
<1> DEFINE w == Width(Head(s))
           first == {1} \X (1..w)
           tail == Slots(Tail(s))
           rest == {<<t[1] + 1, t[2]>> : t \in tail}
           shift == [t \in tail |-> <<t[1] + 1, t[2]>>]
<1>1. Head(s) \in Providers /\ Tail(s) \in Seq(Providers)
  BY HeadTailProperties
<1>2. w \in Nat /\ IsFiniteSet(tail) /\ Cardinality(tail) \in Nat
  BY <1>1, WidthType, SlotsCount
<1>3. \A t \in tail : t = <<t[1], t[2]>> /\ t[1] \in Nat \ {0}
  <2>1. DOMAIN Tail(s) \subseteq Nat \ {0}
    BY <1>1, LenProperties
  <2> QED BY <2>1 DEF Slots
<1>4. shift \in Bijection(tail, rest)
  <2>1. shift \in [tail -> rest] /\ \A t \in rest : \E u \in tail : shift[u] = t
    OBVIOUS
  <2>2. ASSUME NEW t \in tail, NEW u \in tail, shift[t] = shift[u] PROVE t = u
    <3>1. t[1] + 1 = u[1] + 1 /\ t[2] = u[2]
      BY <2>2
    <3> HIDE DEF tail
    <3> QED BY <1>3, <3>1
  <2> HIDE DEF tail, rest, shift
  <2>3. shift \in Injection(tail, rest)
    <3>1. shift \in [tail -> rest] /\ \A t, u \in tail : shift[t] = shift[u] => t = u
      BY <2>1, <2>2
    <3> QED BY <3>1 DEF Injection, IsInjective
  <2>4. shift \in Surjection(tail, rest)
    BY <2>1 DEF Surjection
  <2> QED BY <2>3, <2>4 DEF Bijection
<1>5. IsFiniteSet(rest) /\ Cardinality(rest) = Cardinality(tail)
  <2>1. ExistsBijection(tail, rest)
    <3> HIDE DEF tail, rest, shift
    <3> QED BY <1>4 DEF ExistsBijection
  <2> HIDE DEF tail, rest, shift
  <2> QED BY <1>2, <2>1, FS_Bijection
<1>6. IsFiniteSet(first) /\ Cardinality(first) = w
  <2>1. IsFiniteSet(1..w) /\ Cardinality(1..w) = w
    BY <1>2, FS_Interval
  <2>2. IsFiniteSet({1}) /\ Cardinality({1}) = 1
    BY FS_Singleton
  <2>3. IsFiniteSet({1} \X (1..w)) /\ Cardinality({1} \X (1..w)) = 1 * w
    <3> HIDE DEF w
    <3> QED BY <2>1, <2>2, FS_Product
  <2> HIDE DEF w
  <2> QED BY <1>2, <2>3
<1>7. first \cap rest = {}
  <2>1. ASSUME NEW t \in first, NEW u \in tail, t = <<u[1] + 1, u[2]>> PROVE FALSE
    <3>1. t[1] = 1 /\ t[1] = u[1] + 1
      BY <2>1
    <3> QED BY <1>3, <3>1
  <2> QED BY <2>1
<1>8. Slots(s) = first \cup rest
  BY SlotsOfList
<1> HIDE DEF first, rest, shift, w, tail
<1>9. Cardinality({}) = 0
  BY FS_EmptySet
<1>10. Cardinality(first \cup rest)
        = Cardinality(first) + Cardinality(rest) - Cardinality(first \cap rest)
  BY <1>5, <1>6, FS_Union
<1>11. Cardinality(Slots(s)) = w + Cardinality(tail)
  <2>1. Cardinality(Slots(s)) = w + Cardinality(tail) - 0
    BY <1>5, <1>6, <1>7, <1>8, <1>9, <1>10
  <2> QED BY <1>2, <2>1
<1> QED BY <1>11 DEF w, tail

--------------------------------------------------------------------------------
(***************************************************************************)
(* The account of a request: which candidates it has called, how often,    *)
(* and what it has logged and told its client.                             *)
(***************************************************************************)
Waiting == {"idle", "expand"}
Attempting == PC \ {"idle", "expand", "select", "done"}

\* Every candidate called lies behind the head of the loop and is logged, except the
\* current one while it is attempted; it is called twice at most, and once by a
\* strict request, which has no other candidate.
Tallied(q) ==
    /\ q.pc \in Waiting =>
         /\ q.tried = {} /\ q.calls = 0 /\ q.logged = 0 /\ q.idx = 1
         /\ ~q.retried /\ q.answer = "none"
    /\ q.pc = "idle" => ~q.gone
    /\ q.pc = "select" =>
         /\ q.tried \subseteq 1..(q.idx - 1)
         /\ q.logged = Cardinality(q.tried)
         /\ q.calls <= 2 * Cardinality(q.tried)
         /\ ~q.retried /\ q.answer = "none"
    /\ q.pc \in Attempting =>
         /\ q.tried \subseteq 1..q.idx /\ q.idx \in q.tried
         /\ q.logged = Cardinality(q.tried) - 1
         /\ q.calls > 0 /\ q.calls <= 2 * Cardinality(q.tried)
         /\ q.pc = "calling" /\ ~q.retried => q.calls < 2 * Cardinality(q.tried)
         /\ q.answer = IF q.pc \in {"streaming", "succeed"} THEN "ok" ELSE "none"
    /\ q.pc \notin Waiting \cup {"done"} /\ q.strict => Len(q.cands) <= 1
    /\ q.pc = "done" =>
         \/ q.logged = Cardinality(q.tried)
         \/ /\ q.logged = Cardinality(q.tried) - 1
            /\ q.gone \/ q.answer = "gateway_timeout"

\* A candidate that the loop has left behind was called, or its provider was in
\* cooldown at some time since the request began.
PassedOver(q) ==
    q.pc # "idle" =>
        /\ q.deadline - Timeout <= now
        /\ \A j \in DOMAIN q.cands : j < q.idx =>
             j \in q.tried \/ cooldown[q.cands[j].provider] > q.deadline - Timeout

\* The candidates found so far, and those still to be found, are as many as their
\* route may have.
Bounded(q) == Len(q.cands) + Cardinality(Slots(q.todo)) <= MaxCandidates

AccountInv ==
    \A r \in Requests : Tallied(req[r]) /\ PassedOver(req[r]) /\ Bounded(req[r])

\* What the client can notice of a step: nothing, that its request is accepted, that
\* an upstream is called or answers, that the request ends, or its own departure.
Unseen(q, n) ==
    /\ PhaseOf(n) = PhaseOf(q) /\ n.strict = q.strict /\ n.gone = q.gone
    /\ n.calls = q.calls /\ n.answer = q.answer

Accepted(q, n) ==
    /\ q.pc = "idle" /\ n.pc = "expand" /\ n.strict \in BOOLEAN
    /\ n.gone = q.gone /\ n.calls = q.calls /\ n.answer = q.answer

Called(q, n) ==
    /\ q.pc \in {"select", "calling"} /\ n.pc = "calling"
    /\ q.answer = "none" /\ ~q.gone /\ n.answer = "none" /\ n.gone = q.gone
    /\ n.strict = q.strict /\ n.calls = q.calls + 1
    /\ q.calls < IF q.strict THEN 1 ELSE 2 * MaxCandidates

Served(q, n) ==
    /\ q.pc = "calling" /\ n.pc = "streaming" /\ q.calls > 0
    /\ q.answer = "none" /\ n.answer = "ok"
    /\ n.strict = q.strict /\ n.gone = q.gone /\ n.calls = q.calls

Ended(q, n) ==
    /\ q.pc \notin {"idle", "done"} /\ n.pc = "done"
    /\ n.strict = q.strict /\ n.gone = q.gone /\ n.calls = q.calls
    /\ \/ q.answer = "ok" /\ n.answer = "ok"
       \/ /\ q.answer = "none" /\ n.answer \in Answer \ {"ok"}
          /\ n.answer = "none" => q.gone
          /\ n.answer = "all_candidates_unavailable" => q.calls = 0

Left(q, n) ==
    /\ q.pc \notin {"idle", "done"} /\ n.pc = q.pc /\ ~q.gone /\ n.gone
    /\ n.strict = q.strict /\ n.calls = q.calls /\ n.answer = q.answer

Noticed(q, n) ==
    \/ Unseen(q, n) \/ Accepted(q, n) \/ Called(q, n) \/ Served(q, n) \/ Ended(q, n)
    \/ Left(q, n)

\* What every step of request r keeps.
Settled(r, n) ==
    /\ req' = [req EXCEPT ![r] = n]
    /\ Tallied(n) /\ PassedOver(n) /\ Bounded(n) /\ Noticed(req[r], n)

\* The candidates tried are finitely many, and no more than the positions passed.
LEMMA TriedCount ==
  ASSUME NEW m \in Nat, NEW T, T \subseteq 1..m
  PROVE  IsFiniteSet(T) /\ Cardinality(T) \in Nat /\ Cardinality(T) <= m
<1>1. IsFiniteSet(1..m) /\ Cardinality(1..m) = m
  BY FS_Interval
<1> QED BY <1>1, FS_Subset, FS_CardinalityType

\* A step of an attempt after its call: the candidate, the calls and the log stay.
SameAttempt(q, n) ==
    /\ n.strict = q.strict /\ n.gone = q.gone /\ n.deadline = q.deadline
    /\ n.todo = q.todo /\ n.cands = q.cands /\ n.idx = q.idx /\ n.tried = q.tried
    /\ n.calls = q.calls /\ n.logged = q.logged

LEMMA AttemptGoesOn ==
  ASSUME IInv, NEW r \in Requests, NEW n \in Request, req' = [req EXCEPT ![r] = n],
         Tallied(req[r]), PassedOver(req[r]), Bounded(req[r]),
         SameAttempt(req[r], n), req[r].pc \in Attempting, n.pc \in Attempting \ {"calling"},
         \/ /\ n.answer = req[r].answer
            /\ n.pc \in {"streaming", "succeed"} <=> req[r].pc \in {"streaming", "succeed"}
         \/ /\ req[r].pc = "calling" /\ n.pc = "streaming" /\ n.answer = "ok"
  PROVE  Settled(r, n)
<1> DEFINE q == req[r]
<1>1. q \in Request /\ q.calls \in Nat
  BY Current DEF Good, Request
<1>2. Tallied(n)
  BY DEF Tallied, SameAttempt, Attempting, Waiting
<1>3. PassedOver(n) /\ Bounded(n)
  BY DEF PassedOver, Bounded, SameAttempt, Attempting
<1>4. PhaseOf(n) = "serving" /\ PhaseOf(q) = "serving"
  BY DEF PhaseOf, Attempting
<1>5. Unseen(q, n) \/ Served(q, n)
  BY <1>4 DEF Unseen, Served, SameAttempt, Tallied, Attempting
<1> QED BY <1>2, <1>3, <1>5 DEF Settled, Noticed

LEMMA GotoSettles ==
  ASSUME IInv, NEW r \in Requests, Tallied(req[r]), PassedOver(req[r]), Bounded(req[r]),
         NEW pc \in Attempting \ {"calling"}, Goto(r, pc), req[r].pc \in Attempting,
         pc \in {"streaming", "succeed"} <=> req[r].pc \in {"streaming", "succeed"}
  PROVE  \E n : Settled(r, n)
<1> DEFINE q == req[r]
           n == [q EXCEPT !.pc = pc]
<1>1. q \in Request /\ pc \in PC
  BY Current DEF Good, Attempting
<1>2. n \in Request /\ n.pc = pc /\ n.answer = q.answer /\ SameAttempt(q, n)
  BY <1>1 DEF Request, SameAttempt
<1>3. req' = [req EXCEPT ![r] = n]
  BY DEF Goto
<1> HIDE DEF n
<1>4. Settled(r, n)
  BY <1>2, <1>3, AttemptGoesOn
<1> QED BY <1>4

LEMMA AttemptFailsSettles ==
  ASSUME IInv, NEW r \in Requests, Tallied(req[r]), PassedOver(req[r]), Bounded(req[r]),
         NEW class \in {"transient", "timeout"}, AttemptFails(r, class)
  PROVE  \E n : Settled(r, n)
<1> DEFINE q == req[r]
<1>1. /\ q \in Request /\ q.pc = "calling" /\ q.idx \in DOMAIN q.cands
      /\ q.calls \in Nat /\ now \in Nat
  BY Current DEF Good, Placed, AttemptFails, Request, IInv, TypeOK
<1>2. CASE /\ ~q.strict /\ HasBudget(r) /\ ~q.retried
           /\ req' = [req EXCEPT ![r].retried = TRUE, ![r].calls = @ + 1, ![r].since = now]
  <2> DEFINE n == [q EXCEPT !.retried = TRUE, !.calls = @ + 1, !.since = now]
  <2>1. /\ n.pc = "calling" /\ n.retried /\ n.calls = q.calls + 1
        /\ n.strict = q.strict /\ n.gone = q.gone /\ n.deadline = q.deadline
        /\ n.todo = q.todo /\ n.cands = q.cands /\ n.idx = q.idx /\ n.tried = q.tried
        /\ n.logged = q.logged /\ n.answer = q.answer
    BY <1>1 DEF Request
  <2>2. req' = [req EXCEPT ![r] = n]
    BY <1>2
  <2> HIDE DEF n
  <2>3. q.idx \in Nat /\ q.idx <= Len(q.cands) /\ Len(q.cands) \in Nat
    <3>1. q.cands \in Seq(Candidate) /\ q.idx \in Nat
      BY <1>1 DEF Request
    <3>2. Len(q.cands) \in Nat /\ DOMAIN q.cands = 1..Len(q.cands)
      BY <3>1, LenProperties
    <3> QED BY <1>1, <3>1, <3>2
  <2>4. /\ q.tried \subseteq 1..q.idx /\ q.idx \in q.tried
        /\ q.calls < 2 * Cardinality(q.tried) /\ q.answer = "none"
        /\ q.logged = Cardinality(q.tried) - 1
    BY <1>1, <1>2 DEF Tallied, Attempting, PC
  <2>5. Cardinality(q.tried) \in Nat /\ Cardinality(q.tried) <= q.idx
    BY <2>3, <2>4, TriedCount
  <2>6. q.calls < 2 * MaxCandidates
    <3>1. Cardinality(Slots(q.todo)) \in Nat
      BY SlotsCount, <1>1 DEF Request
    <3>2. Len(q.cands) <= MaxCandidates
      BY <2>3, <3>1, CandidatesBounded DEF Bounded
    <3> QED BY <1>1, <2>3, <2>4, <2>5, <3>2, CandidatesBounded
  <2>7. ~q.gone
    BY <1>2 DEF HasBudget, CtxDone
  <2>8. Called(q, n)
    BY <1>1, <1>2, <2>1, <2>4, <2>6, <2>7 DEF Called
  <2>9. Tallied(n)
    BY <1>1, <1>2, <2>1, <2>4, <2>5 DEF Tallied, Attempting, Waiting
  <2>10. PassedOver(n) /\ Bounded(n)
    BY <1>1, <2>1 DEF PassedOver, Bounded
  <2> QED BY <2>2, <2>8, <2>9, <2>10 DEF Settled, Noticed
<1>3. CASE req' = [req EXCEPT ![r].pc = "errored", ![r].class = class, ![r].retryAfter = 0]
  <2> DEFINE n == [q EXCEPT !.pc = "errored", !.class = class, !.retryAfter = 0]
  <2>1. n \in Request /\ n.pc = "errored" /\ n.answer = q.answer /\ SameAttempt(q, n)
    BY <1>1 DEF Request, SameAttempt, PC, Class
  <2>2. req' = [req EXCEPT ![r] = n]
    BY <1>3
  <2> HIDE DEF n
  <2>3. Settled(r, n)
    BY <1>1, <2>1, <2>2, AttemptGoesOn DEF Attempting, PC
  <2> QED BY <2>3
<1> QED BY <1>2, <1>3 DEF AttemptFails

LEMMA AttemptRejectedSettles ==
  ASSUME IInv, NEW r \in Requests, Tallied(req[r]), PassedOver(req[r]), Bounded(req[r]),
         AttemptRejected(r)
  PROVE  \E n : Settled(r, n)
<1> DEFINE q == req[r]
<1>1. q \in Request /\ q.pc = "calling"
  BY Current DEF Good, AttemptRejected
<1>2. PICK class \in Class, retryAfter \in Nat, pc \in {"streak", "decide", "penalize"} :
        req' = [req EXCEPT ![r].class = class, ![r].retryAfter = retryAfter, ![r].pc = pc]
  <2>1. PICK class \in ResponseClasses(r) :
        \E retryAfter \in IF class = "rate_limited" THEN RetryAfters ELSE {0} :
          req' = [req EXCEPT
                   ![r].class = class, ![r].retryAfter = retryAfter,
                   ![r].pc = IF Cand(r).account # NoAccount
                             THEN IF class \in AccountEligible THEN "streak" ELSE "decide"
                             ELSE IF class \in Penalised THEN "penalize" ELSE "decide"]
    BY DEF AttemptRejected
  <2>2. class \in Class
    BY <2>1 DEF ResponseClasses, Class
  <2> QED BY <2>1, <2>2, FallbackConstants
<1> DEFINE n == [q EXCEPT !.class = class, !.retryAfter = retryAfter, !.pc = pc]
<1>3. n \in Request /\ n.pc = pc /\ n.answer = q.answer /\ SameAttempt(q, n)
  BY <1>1 DEF Request, SameAttempt, PC
<1>4. req' = [req EXCEPT ![r] = n]
  BY <1>2
<1> HIDE DEF n
<1>5. Settled(r, n)
  BY <1>1, <1>3, <1>4, AttemptGoesOn DEF Attempting, PC
<1> QED BY <1>5

LEMMA AttemptEmptySettles ==
  ASSUME IInv, NEW r \in Requests, Tallied(req[r]), PassedOver(req[r]), Bounded(req[r]),
         AttemptEmpty(r)
  PROVE  \E n : Settled(r, n)
<1> DEFINE q == req[r]
           n == [q EXCEPT !.class = "empty_response", !.retryAfter = 0, !.pc = "penalize"]
<1>1. q \in Request /\ q.pc = "calling"
  BY Current DEF Good, AttemptEmpty
<1>2. n \in Request /\ n.pc = "penalize" /\ n.answer = q.answer /\ SameAttempt(q, n)
  BY <1>1 DEF Request, SameAttempt, PC, Class
<1>3. req' = [req EXCEPT ![r] = n]
  BY DEF AttemptEmpty
<1> HIDE DEF n
<1>4. Settled(r, n)
  BY <1>1, <1>2, <1>3, AttemptGoesOn DEF Attempting, PC
<1> QED BY <1>4

LEMMA AttemptAcceptedSettles ==
  ASSUME IInv, NEW r \in Requests, Tallied(req[r]), PassedOver(req[r]), Bounded(req[r]),
         AttemptAccepted(r)
  PROVE  \E n : Settled(r, n)
<1> DEFINE q == req[r]
           n == [q EXCEPT !.pc = "streaming", !.answer = "ok"]
<1>1. q \in Request /\ q.pc = "calling"
  BY Current DEF Good, AttemptAccepted
<1>2. n \in Request /\ n.pc = "streaming" /\ n.answer = "ok" /\ SameAttempt(q, n)
  BY <1>1 DEF Request, SameAttempt, PC, Answer
<1>3. req' = [req EXCEPT ![r] = n]
  BY DEF AttemptAccepted
<1> HIDE DEF n
<1>4. Settled(r, n)
  BY <1>1, <1>2, <1>3, AttemptGoesOn DEF Attempting, PC
<1> QED BY <1>4

LEMMA ReadStreakSettles ==
  ASSUME IInv, NEW r \in Requests, Tallied(req[r]), PassedOver(req[r]), Bounded(req[r]),
         ReadStreak(r)
  PROVE  \E n : Settled(r, n)
<1> DEFINE q == req[r]
           streak == account[Cand(r).account].streak
           n == [q EXCEPT !.pc = "record", !.streak = streak, !.at = now]
<1>1. q \in Request /\ q.pc = "streak"
  BY Current DEF Good, ReadStreak
<1>2. CASE Goto(r, "decide")
  BY <1>1, <1>2, GotoSettles DEF Attempting, PC
<1>3. CASE req' = [req EXCEPT ![r].pc = "record", ![r].streak = streak, ![r].at = now]
  <2>1. streak \in Nat /\ now \in Nat
    BY <1>1, ChargedAccount DEF IInv, TypeOK
  <2>2. req' = [req EXCEPT ![r] = n]
    BY <1>3
  <2> HIDE DEF streak
  <2>3. n \in Request /\ n.pc = "record" /\ n.answer = q.answer /\ SameAttempt(q, n)
    BY <1>1, <2>1 DEF Request, SameAttempt, PC
  <2> HIDE DEF n
  <2>4. Settled(r, n)
    BY <1>1, <2>2, <2>3, AttemptGoesOn DEF Attempting, PC
  <2> QED BY <2>4
<1> QED BY <1>2, <1>3 DEF ReadStreak

LEMMA RecordFailureSettles ==
  ASSUME IInv, NEW r \in Requests, Tallied(req[r]), PassedOver(req[r]), Bounded(req[r]),
         RecordFailure(r)
  PROVE  \E n : Settled(r, n)
<1> DEFINE q == req[r]
           n == [q EXCEPT !.pc = "decide", !.streak = 0, !.at = 0]
<1>1. q \in Request /\ q.pc = "record"
  BY Current DEF Good, RecordFailure
<1>2. req' = [req EXCEPT ![r] = n]
  BY DEF RecordFailure
<1>3. n \in Request /\ n.pc = "decide" /\ n.answer = q.answer /\ SameAttempt(q, n)
  BY <1>1 DEF Request, SameAttempt, PC
<1> HIDE DEF n
<1>4. Settled(r, n)
  BY <1>1, <1>2, <1>3, AttemptGoesOn DEF Attempting, PC
<1> QED BY <1>4

\* A request that ends keeps its account.
LEMMA EndSettles ==
  ASSUME IInv, NEW r \in Requests, Tallied(req[r]), PassedOver(req[r]), Bounded(req[r]),
         req[r].pc \notin {"idle", "done"},
         NEW n \in Request, req' = [req EXCEPT ![r] = n],
         n.pc = "done", n.cands = <<>>, n.answer \in Answer,
         n.strict = req[r].strict, n.gone = req[r].gone, n.deadline = req[r].deadline,
         n.todo = req[r].todo, n.tried = req[r].tried, n.calls = req[r].calls,
         \/ n.logged = Cardinality(n.tried)
         \/ /\ n.logged = Cardinality(n.tried) - 1
            /\ n.gone \/ n.answer = "gateway_timeout",
         \/ req[r].answer = "ok" /\ n.answer = "ok"
         \/ /\ req[r].answer = "none" /\ n.answer # "ok"
            /\ n.answer = "none" => n.gone
            /\ n.answer = "all_candidates_unavailable" => n.calls = 0
  PROVE  Settled(r, n)
<1> DEFINE q == req[r]
<1>1. q.todo \in Seq(Providers) /\ q.cands \in Seq(Candidate)
  BY Current DEF Good, Request
<1>2. Len(q.cands) \in Nat /\ Len(n.cands) = 0 /\ Cardinality(Slots(q.todo)) \in Nat
  BY <1>1, LenProperties, EmptySeq, SlotsCount
<1>3. Bounded(n)
  BY <1>2, CandidatesBounded DEF Bounded
<1>4. PassedOver(n)
  BY DEF PassedOver
<1>5. Tallied(n)
  BY DEF Tallied, Waiting, Attempting
<1>6. Ended(q, n)
  BY DEF Ended
<1> QED BY <1>3, <1>4, <1>5, <1>6 DEF Settled, Noticed

\* What Return keeps of a request, and what Logged does.
LEMMA ReturnKeeps ==
  ASSUME NEW q \in Request, NEW a \in Answer
  PROVE  LET n == Return(q, a)
         IN  /\ n \in Request /\ n.pc = "done" /\ n.cands = <<>> /\ n.answer = a
             /\ n.strict = q.strict /\ n.gone = q.gone /\ n.deadline = q.deadline
             /\ n.todo = q.todo /\ n.tried = q.tried /\ n.calls = q.calls
             /\ n.logged = q.logged
<1>1. EndIteration(q).strict = q.strict /\ EndIteration(q).gone = q.gone
      /\ EndIteration(q).deadline = q.deadline /\ EndIteration(q).todo = q.todo
      /\ EndIteration(q).tried = q.tried
  BY DEF EndIteration, Request
<1>2. EndIteration(q) \in Request
  BY EndIterationType
<1> QED BY <1>1, <1>2, ReturnType DEF Return, Request

LEMMA LoggedKeeps ==
  ASSUME NEW q \in Request
  PROVE  LET n == Logged(q)
         IN  /\ n \in Request /\ n.pc = q.pc /\ n.cands = q.cands /\ n.answer = q.answer
             /\ n.strict = q.strict /\ n.gone = q.gone /\ n.deadline = q.deadline
             /\ n.todo = q.todo /\ n.tried = q.tried /\ n.calls = q.calls
             /\ n.idx = q.idx /\ n.retried = q.retried /\ n.logged = q.logged + 1
<1>1. Logged(q) \in Request
  BY LoggedType
<1> QED BY <1>1 DEF Logged, Request

LEMMA FinishSettles ==
  ASSUME IInv, NEW r \in Requests, Tallied(req[r]), PassedOver(req[r]), Bounded(req[r]),
         req[r].pc \in {"select", "errored"},
         NEW a \in Answer \ {"ok"}, Finish(r, a),
         req[r].pc = "errored" => CtxDone(r) /\ a \in {"none", "gateway_timeout"},
         a = "none" => req[r].gone,
         a = "all_candidates_unavailable" => req[r].tried = {}
  PROVE  \E n : Settled(r, n)
<1> DEFINE q == req[r]
           n == Return(q, a)
<1>1. q \in Request /\ q.calls \in Nat
  BY Current DEF Good, Request
<1>2. /\ n \in Request /\ n.pc = "done" /\ n.cands = <<>> /\ n.answer = a
      /\ n.strict = q.strict /\ n.gone = q.gone /\ n.deadline = q.deadline
      /\ n.todo = q.todo /\ n.tried = q.tried /\ n.calls = q.calls /\ n.logged = q.logged
  BY <1>1, ReturnKeeps
<1>3. req' = [req EXCEPT ![r] = n]
  BY DEF Finish
<1> HIDE DEF n
<1>4. q.answer = "none"
  BY DEF Tallied, Attempting, PC
<1>5. CASE q.pc = "select"
  <2>1. q.logged = Cardinality(q.tried) /\ q.calls <= 2 * Cardinality(q.tried)
    BY <1>5 DEF Tallied
  <2>2. q.tried = {} => q.calls = 0
    BY <1>1, <2>1, FS_EmptySet
  <2>3. Settled(r, n)
    BY <1>2, <1>3, <1>4, <1>5, <2>1, <2>2, EndSettles
  <2> QED BY <2>3
<1>6. CASE q.pc = "errored"
  <2>1. q.logged = Cardinality(q.tried) - 1
    BY <1>6 DEF Tallied, Attempting, PC
  <2>2. Settled(r, n)
    BY <1>2, <1>3, <1>4, <1>6, <2>1, EndSettles
  <2> QED BY <2>2
<1> QED BY <1>5, <1>6

\* The current attempt is logged and the request ends.
LEMMA LogAndReturnSettles ==
  ASSUME IInv, NEW r \in Requests, Tallied(req[r]), PassedOver(req[r]), Bounded(req[r]),
         NEW a \in Answer, req' = [req EXCEPT ![r] = Logged(Return(@, a))],
         \/ req[r].pc = "succeed" /\ a = "ok"
         \/ /\ req[r].pc = "decide"
            /\ a \notin {"ok", "none", "all_candidates_unavailable"}
  PROVE  \E n : Settled(r, n)
<1> DEFINE q == req[r]
           e == Return(q, a)
           n == Logged(e)
<1>1. q \in Request /\ q.idx \in Nat
  BY Current DEF Good, Request
<1>2. /\ e \in Request /\ e.pc = "done" /\ e.cands = <<>> /\ e.answer = a
      /\ e.strict = q.strict /\ e.gone = q.gone /\ e.deadline = q.deadline
      /\ e.todo = q.todo /\ e.tried = q.tried /\ e.calls = q.calls /\ e.logged = q.logged
  BY <1>1, ReturnKeeps
<1>3. req' = [req EXCEPT ![r] = n]
  OBVIOUS
<1> HIDE DEF e
<1>4. /\ n \in Request /\ n.pc = "done" /\ n.cands = <<>> /\ n.answer = a
      /\ n.strict = q.strict /\ n.gone = q.gone /\ n.deadline = q.deadline
      /\ n.todo = q.todo /\ n.tried = q.tried /\ n.calls = q.calls
      /\ n.logged = q.logged + 1
  BY <1>2, LoggedKeeps
<1> HIDE DEF n
<1>5. /\ q.logged = Cardinality(q.tried) - 1 /\ q.tried \subseteq 1..q.idx
      /\ q.answer = IF q.pc = "succeed" THEN "ok" ELSE "none"
  BY DEF Tallied, Attempting, PC
<1>6. n.logged = Cardinality(n.tried)
  BY <1>1, <1>4, <1>5, TriedCount
<1>7. Settled(r, n)
  BY <1>3, <1>4, <1>5, <1>6, EndSettles
<1> QED BY <1>7

LEMMA CheckContextSettles ==
  ASSUME IInv, NEW r \in Requests, Tallied(req[r]), PassedOver(req[r]), Bounded(req[r]),
         CheckContext(r)
  PROVE  \E n : Settled(r, n)
<1>1. req[r].pc = "errored"
  BY DEF CheckContext
<1>2. CASE CtxDone(r)
  <2> DEFINE a == IF req[r].gone THEN "none" ELSE "gateway_timeout"
  <2>1. Finish(r, a) /\ a \in Answer \ {"ok"} /\ a \in {"none", "gateway_timeout"}
    BY <1>2 DEF CheckContext, Answer
  <2>2. (a = "none" => req[r].gone) /\ a # "all_candidates_unavailable"
    OBVIOUS
  <2> HIDE DEF a
  <2> QED BY <1>1, <1>2, <2>1, <2>2, FinishSettles
<1>3. CASE ~CtxDone(r)
  <2>1. PICK pc \in {"penalize", "streak"} : Goto(r, pc)
    BY <1>3 DEF CheckContext
  <2> QED BY <1>1, <2>1, GotoSettles DEF Attempting, PC
<1> QED BY <1>2, <1>3

LEMMA LeaveLoopSettles ==
  ASSUME IInv, NEW r \in Requests, Tallied(req[r]), PassedOver(req[r]), Bounded(req[r]),
         LeaveLoop(r)
  PROVE  \E n : Settled(r, n)
<1> DEFINE a == IF CtxDone(r)
                THEN IF req[r].gone THEN "none" ELSE "gateway_timeout"
                ELSE IF req[r].tried = {} THEN "all_candidates_unavailable"
                                             ELSE "no_provider_available"
<1>1. Finish(r, a) /\ req[r].pc = "select"
  BY DEF LeaveLoop
<1>2. /\ a \in Answer \ {"ok"} /\ (a = "none" => req[r].gone)
      /\ a = "all_candidates_unavailable" => req[r].tried = {}
  BY DEF Answer
<1> HIDE DEF a
<1> QED BY <1>1, <1>2, FinishSettles

LEMMA RecordSuccessSettles ==
  ASSUME IInv, NEW r \in Requests, Tallied(req[r]), PassedOver(req[r]), Bounded(req[r]),
         RecordSuccess(r)
  PROVE  \E n : Settled(r, n)
<1>1. req' = [req EXCEPT ![r] = Logged(Return(@, "ok"))] /\ req[r].pc = "succeed"
  BY DEF RecordSuccess
<1> QED BY <1>1, LogAndReturnSettles DEF Answer

LEMMA LogAndDecideSettles ==
  ASSUME IInv, NEW r \in Requests, Tallied(req[r]), PassedOver(req[r]), Bounded(req[r]),
         LogAndDecide(r)
  PROVE  \E n : Settled(r, n)
<1> DEFINE q == req[r]
<1>1. q \in Request /\ q.pc = "decide" /\ q.idx \in Nat \ {0} /\ q.logged \in Nat
  BY Current DEF Good, LogAndDecide, Request
<1>2. CASE req' = [req EXCEPT ![r] = Continue(@)]
  <2> DEFINE i == EndIteration(q)
             e == Logged(i)
             n == [e EXCEPT !.pc = "select", !.idx = @ + 1]
  <2>1. i \in Request /\ i.cands = q.cands /\ i.calls = q.calls /\ i.idx = q.idx
        /\ i.logged = q.logged
    BY <1>1, EndIterationType
  <2>2. /\ i.strict = q.strict /\ i.gone = q.gone /\ i.deadline = q.deadline
        /\ i.todo = q.todo /\ i.tried = q.tried /\ i.answer = q.answer /\ i.retried = FALSE
    BY <1>1 DEF EndIteration, Request
  <2>3. req' = [req EXCEPT ![r] = n]
    BY <1>2 DEF Continue
  <2> HIDE DEF i
  <2>4. /\ e \in Request /\ e.cands = q.cands /\ e.calls = q.calls /\ e.idx = q.idx
        /\ e.logged = q.logged + 1 /\ e.retried = FALSE
        /\ e.strict = q.strict /\ e.gone = q.gone /\ e.deadline = q.deadline
        /\ e.todo = q.todo /\ e.tried = q.tried /\ e.answer = q.answer
    BY <2>1, <2>2, LoggedKeeps
  <2> HIDE DEF e
  <2>5. /\ n.pc = "select" /\ n.idx = q.idx + 1 /\ n.retried = FALSE
        /\ n.cands = q.cands /\ n.calls = q.calls /\ n.logged = q.logged + 1
        /\ n.strict = q.strict /\ n.gone = q.gone /\ n.deadline = q.deadline
        /\ n.todo = q.todo /\ n.tried = q.tried /\ n.answer = q.answer
    BY <2>4 DEF Request
  <2> HIDE DEF n
  <2>6. /\ q.tried \subseteq 1..q.idx /\ q.idx \in q.tried
        /\ q.logged = Cardinality(q.tried) - 1 /\ q.calls <= 2 * Cardinality(q.tried)
        /\ q.answer = "none" /\ (q.strict => Len(q.cands) <= 1)
    BY <1>1 DEF Tallied, Attempting, PC, Waiting
  <2>7. Cardinality(q.tried) \in Nat
    BY <1>1, <2>6, TriedCount
  <2>8. n.idx - 1 = q.idx
    BY <1>1, <2>5
  <2>9. Tallied(n)
    <3>1. n.logged = Cardinality(n.tried)
      BY <1>1, <2>5, <2>6, <2>7
    <3> QED BY <2>5, <2>6, <2>8, <3>1 DEF Tallied, Attempting, Waiting
  <2>10. PassedOver(n)
    <3>1. q.deadline - Timeout <= now
      BY <1>1 DEF PassedOver
    <3>2. ASSUME NEW j \in DOMAIN n.cands, j < n.idx
          PROVE  j \in n.tried \/ cooldown[n.cands[j].provider] > n.deadline - Timeout
      <4>1. j \in Nat /\ j \in DOMAIN q.cands
        <5>1. q.cands \in Seq(Candidate)
          BY <1>1 DEF Request
        <5> QED BY <2>5, <5>1, LenProperties
      <4>2. j < q.idx \/ j = q.idx
        BY <1>1, <2>5, <3>2, <4>1
      <4> QED BY <1>1, <2>5, <2>6, <4>1, <4>2 DEF PassedOver
    <3> QED BY <2>5, <3>1, <3>2 DEF PassedOver
  <2>11. Bounded(n)
    BY <2>5 DEF Bounded
  <2>12. Unseen(q, n)
    BY <1>1, <2>5 DEF Unseen, PhaseOf
  <2> QED BY <2>3, <2>9, <2>10, <2>11, <2>12 DEF Settled, Noticed
<1>3. CASE req' = [req EXCEPT ![r] = Logged(Return(@, PublicError(req[r].class)))]
  <2> DEFINE a == PublicError(q.class)
  <2>1. a \in Answer
    BY <1>1, AnswerType DEF Request
  <2>2. a \notin {"ok", "none", "all_candidates_unavailable"}
    BY <1>1 DEF PublicError, Request, Class
  <2>3. req' = [req EXCEPT ![r] = Logged(Return(@, a))]
    BY <1>3
  <2> HIDE DEF a
  <2> QED BY <1>1, <2>1, <2>2, <2>3, LogAndReturnSettles
<1> QED BY <1>2, <1>3 DEF LogAndDecide

LEMMA SkipCandidateSettles ==
  ASSUME IInv, NEW r \in Requests, Tallied(req[r]), PassedOver(req[r]), Bounded(req[r]),
         SkipCandidate(r)
  PROVE  \E n : Settled(r, n)
<1> DEFINE q == req[r]
           n == [q EXCEPT !.idx = @ + 1]
<1>1. /\ q \in Request /\ q.pc = "select" /\ q.idx \in Nat \ {0}
      /\ q.cands \in Seq(Candidate) /\ q.deadline \in Nat /\ now \in Nat
      /\ q.idx <= Len(q.cands)
  BY Current DEF Good, SkipCandidate, Request, IInv, TypeOK
<1>2. /\ n.pc = "select" /\ n.idx = q.idx + 1 /\ n.retried = q.retried
      /\ n.cands = q.cands /\ n.calls = q.calls /\ n.logged = q.logged
      /\ n.strict = q.strict /\ n.gone = q.gone /\ n.deadline = q.deadline
      /\ n.todo = q.todo /\ n.tried = q.tried /\ n.answer = q.answer
  BY <1>1 DEF Request
<1>3. req' = [req EXCEPT ![r] = n] /\ ~Available(Cand(r).provider)
  BY DEF SkipCandidate
<1> HIDE DEF n
<1>4. Tallied(n)
  <2>1. q.tried \subseteq 1..(n.idx - 1)
    BY <1>1, <1>2 DEF Tallied
  <2> QED BY <1>1, <1>2, <2>1 DEF Tallied, Attempting, Waiting
<1>5. PassedOver(n)
  <2>1. q.deadline - Timeout <= now
    BY <1>1 DEF PassedOver
  <2>2. cooldown[q.cands[q.idx].provider] > q.deadline - Timeout
    <3>1. q.idx \in DOMAIN q.cands
      BY <1>1, LenProperties
    <3>2. cooldown[Cand(r).provider] \in Nat
      BY <3>1, CandType DEF Candidate, IInv, TypeOK
    <3>3. cooldown[Cand(r).provider] > now
      BY <1>1, <1>3, <3>2 DEF Available
    <3>4. Timeout \in Nat
      BY FallbackConstants
    <3>5. cooldown[Cand(r).provider] > q.deadline - Timeout
      BY <1>1, <2>1, <3>2, <3>3, <3>4
    <3> QED BY <3>5 DEF Cand
  <2>3. ASSUME NEW j \in DOMAIN n.cands, j < n.idx
        PROVE  j \in n.tried \/ cooldown[n.cands[j].provider] > n.deadline - Timeout
    <3>1. j \in Nat /\ j \in DOMAIN q.cands
      BY <1>1, <1>2, LenProperties
    <3>2. j < q.idx \/ j = q.idx
      BY <1>1, <1>2, <2>3, <3>1
    <3> QED BY <1>1, <1>2, <2>2, <3>1, <3>2 DEF PassedOver
  <2> QED BY <1>2, <2>1, <2>3 DEF PassedOver
<1>6. Bounded(n)
  BY <1>2 DEF Bounded
<1>7. Unseen(q, n)
  BY <1>1, <1>2 DEF Unseen, PhaseOf
<1>8. Settled(r, n)
  BY <1>3, <1>4, <1>5, <1>6, <1>7 DEF Settled, Noticed
<1> QED BY <1>8

LEMMA CallCandidateSettles ==
  ASSUME IInv, NEW r \in Requests, Tallied(req[r]), PassedOver(req[r]), Bounded(req[r]),
         CallCandidate(r)
  PROVE  \E n : Settled(r, n)
<1> DEFINE q == req[r]
           n == [q EXCEPT !.pc = "calling", !.tried = @ \cup {q.idx},
                          !.calls = @ + 1, !.since = now]
<1>1. /\ q \in Request /\ q.pc = "select" /\ q.idx \in Nat \ {0} /\ q.calls \in Nat
      /\ q.cands \in Seq(Candidate) /\ q.todo \in Seq(Providers)
      /\ q.idx <= Len(q.cands)
  BY Current DEF Good, CallCandidate, Request, IInv, TypeOK
<1>2. /\ n.pc = "calling" /\ n.idx = q.idx /\ n.retried = q.retried
      /\ n.cands = q.cands /\ n.calls = q.calls + 1 /\ n.logged = q.logged
      /\ n.strict = q.strict /\ n.gone = q.gone /\ n.deadline = q.deadline
      /\ n.todo = q.todo /\ n.tried = q.tried \cup {q.idx} /\ n.answer = q.answer
  BY <1>1 DEF Request
<1>3. req' = [req EXCEPT ![r] = n] /\ ~q.gone
  BY DEF CallCandidate, HasBudget, CtxDone
<1> HIDE DEF n
<1>4. /\ q.tried \subseteq 1..(q.idx - 1) /\ q.logged = Cardinality(q.tried)
      /\ q.calls <= 2 * Cardinality(q.tried) /\ ~q.retried /\ q.answer = "none"
      /\ q.strict => Len(q.cands) <= 1
  BY <1>1 DEF Tallied, Waiting
<1>5. /\ IsFiniteSet(q.tried) /\ Cardinality(q.tried) \in Nat
      /\ Cardinality(q.tried) <= q.idx - 1
  <2>1. q.idx - 1 \in Nat
    BY <1>1
  <2> QED BY <1>4, <2>1, TriedCount
<1>6. Cardinality(n.tried) = Cardinality(q.tried) + 1
  <2>1. q.idx \notin q.tried
    BY <1>1, <1>4
  <2>2. Cardinality(q.tried \cup {q.idx}) = Cardinality(q.tried) + 1
    BY <1>5, <2>1, FS_AddElement
  <2> QED BY <1>2, <2>2
<1>7. Len(q.cands) \in Nat /\ Len(q.cands) <= MaxCandidates
  <2>1. Len(q.cands) \in Nat /\ Cardinality(Slots(q.todo)) \in Nat
    BY <1>1, LenProperties, SlotsCount
  <2> QED BY <2>1, CandidatesBounded DEF Bounded
<1>8. q.calls < IF q.strict THEN 1 ELSE 2 * MaxCandidates
  BY <1>1, <1>4, <1>5, <1>7, CandidatesBounded
<1>9. Called(q, n)
  BY <1>1, <1>2, <1>3, <1>4, <1>8 DEF Called
<1>10. Tallied(n)
  <2>1. n.tried \subseteq 1..n.idx /\ n.idx \in n.tried
    BY <1>1, <1>2, <1>4
  <2>2. n.logged = Cardinality(n.tried) - 1 /\ n.calls > 0
        /\ n.calls < 2 * Cardinality(n.tried) /\ n.calls <= 2 * Cardinality(n.tried)
    <3> DEFINE c == Cardinality(q.tried)
    <3>1. c \in Nat /\ q.calls <= 2 * c /\ q.logged = c /\ Cardinality(n.tried) = c + 1
      BY <1>4, <1>5, <1>6
    <3> HIDE DEF c
    <3> QED BY <1>1, <1>2, <3>1
  <2> QED BY <1>2, <1>4, <2>1, <2>2 DEF Tallied, Attempting, Waiting
<1>11. PassedOver(n) /\ Bounded(n)
  BY <1>1, <1>2 DEF PassedOver, Bounded
<1>12. Settled(r, n)
  BY <1>3, <1>9, <1>10, <1>11 DEF Settled, Noticed
<1> QED BY <1>12

LEMMA ClientDisconnectsSettles ==
  ASSUME IInv, NEW r \in Requests, Tallied(req[r]), PassedOver(req[r]), Bounded(req[r]),
         ClientDisconnects(r)
  PROVE  \E n : Settled(r, n)
<1> DEFINE q == req[r]
           n == [q EXCEPT !.gone = TRUE]
<1>1. q \in Request /\ q.pc \notin {"idle", "done"} /\ ~q.gone
  BY Current DEF Good, ClientDisconnects
<1>2. /\ n.pc = q.pc /\ n.idx = q.idx /\ n.retried = q.retried
      /\ n.cands = q.cands /\ n.calls = q.calls /\ n.logged = q.logged
      /\ n.strict = q.strict /\ n.gone = TRUE /\ n.deadline = q.deadline
      /\ n.todo = q.todo /\ n.tried = q.tried /\ n.answer = q.answer
  BY <1>1 DEF Request
<1>3. req' = [req EXCEPT ![r] = n]
  BY DEF ClientDisconnects
<1> HIDE DEF n
<1>4. Tallied(n)
  BY <1>1, <1>2 DEF Tallied
<1>5. PassedOver(n) /\ Bounded(n) /\ Left(q, n)
  BY <1>1, <1>2 DEF PassedOver, Bounded, Left
<1>6. Settled(r, n)
  BY <1>3, <1>4, <1>5 DEF Settled, Noticed
<1> QED BY <1>6

LEMMA ArriveSettles ==
  ASSUME IInv, NEW r \in Requests, Tallied(req[r]), PassedOver(req[r]), Bounded(req[r]),
         Arrive(r)
  PROVE  \E n : Settled(r, n)
<1> DEFINE q == req[r]
<1>1. q.pc = "idle" /\ now \in Nat /\ Timeout \in Nat /\ q.gone \in BOOLEAN
  BY FallbackConstants DEF Arrive, IInv, TypeOK, Request
<1>2. PICK route \in Routes, strict \in StrictModes :
        req' = [req EXCEPT ![r] = [Fresh EXCEPT
                  !.pc = "expand", !.strict = strict,
                  !.deadline = now + Timeout, !.todo = route]]
  BY DEF Arrive
<1> DEFINE n == [Fresh EXCEPT !.pc = "expand", !.strict = strict,
                              !.deadline = now + Timeout, !.todo = route]
<1>3. /\ n.pc = "expand" /\ n.idx = 1 /\ n.retried = FALSE
      /\ n.cands = <<>> /\ n.calls = 0 /\ n.logged = 0
      /\ n.strict \in BOOLEAN /\ n.gone = FALSE /\ n.deadline = now + Timeout
      /\ n.todo = route /\ n.tried = {} /\ n.answer = "none"
  BY FallbackConstants DEF Fresh
<1>4. req' = [req EXCEPT ![r] = n]
  BY <1>2
<1> HIDE DEF n
<1>5. Tallied(n)
  BY <1>3 DEF Tallied, Waiting, Attempting
<1>6. PassedOver(n)
  <2>1. n.deadline - Timeout <= now
    BY <1>1, <1>3
  <2>2. DOMAIN n.cands = {}
    BY <1>3
  <2> QED BY <2>1, <2>2 DEF PassedOver
<1>7. Bounded(n)
  <2>1. Cardinality(Slots(route)) \in Nat
    BY SlotsCount, FallbackConstants
  <2>2. Len(n.cands) = 0 /\ Cardinality(Slots(n.todo)) <= MaxCandidates
    BY <1>3, CandidatesBounded
  <2> QED BY <1>3, <2>1, <2>2 DEF Bounded
<1>8. Accepted(q, n)
  <2>1. q.calls = 0 /\ q.answer = "none" /\ ~q.gone
    BY <1>1 DEF Tallied, Waiting
  <2> QED BY <1>1, <1>3, <2>1 DEF Accepted
<1>9. Settled(r, n)
  BY <1>4, <1>5, <1>6, <1>7, <1>8 DEF Settled, Noticed
<1> QED BY <1>9

\* One provider contributes as many candidates as its width at most.
LEMMA AccountCandidatesLength ==
  ASSUME NEW p \in Providers, NEW open, NEW cs \in AccountCandidates(p, open)
  PROVE  Len(cs) \in Nat /\ Len(cs) <= Width(p)
<1> DEFINE I == {i \in DOMAIN AccountsOf[p] : AccountsOf[p][i] \in open}
           m == Len(AccountsOf[p])
<1>1. DOMAIN AccountsOf[p] = 1..m /\ m \in Nat /\ m <= Width(p) /\ Width(p) \in Nat
  BY FallbackConstants, LenProperties, WidthType
<1>2. Cardinality(I) \in Nat /\ Cardinality(I) <= m
  BY <1>1, TriedCount
<1>3. PICK f \in Ascending(I) :
        cs = [i \in DOMAIN f |-> [provider |-> p, account |-> AccountsOf[p][f[i]]]]
  BY DEF AccountCandidates
<1>4. DOMAIN cs = 1..Cardinality(I)
  BY <1>3 DEF Ascending
<1>5. cs \in Seq(Candidate)
  BY AccountCandidatesType
<1>6. Len(cs) = Cardinality(I)
  <2> HIDE DEF I
  <2>1. DOMAIN cs = 1..Len(cs) /\ Len(cs) \in Nat
    BY <1>5, LenProperties
  <2> QED BY <1>2, <1>4, <2>1
<1> HIDE DEF I, m
<1> QED BY <1>1, <1>2, <1>6

LEMMA ExpandProviderSettles ==
  ASSUME IInv, NEW r \in Requests, Tallied(req[r]), PassedOver(req[r]), Bounded(req[r]),
         ExpandProvider(r)
  PROVE  \E n : Settled(r, n)
<1> DEFINE q == req[r]
           p == Head(q.todo)
           own == <<[provider |-> p, account |-> NoAccount]>>
<1>1. /\ q \in Request /\ q.pc = "expand" /\ q.cands \in Seq(Candidate)
      /\ q.todo \in Seq(Providers) /\ q.todo # <<>>
  BY Current DEF ExpandProvider, Good, Request
<1>2. p \in Providers /\ Tail(q.todo) \in Seq(Providers)
  BY <1>1, HeadTailProperties
<1>3. PICK cs \in Seq(Candidate) :
        /\ Len(cs) <= Width(p)
        /\ req' = [req EXCEPT ![r].todo = Tail(@), ![r].cands = @ \o cs]
  <2>1. CASE req' = [req EXCEPT ![r].todo = Tail(@), ![r].cands = @ \o own]
    <3>1. own \in Seq(Candidate) /\ Len(own) = 1
      BY <1>2 DEF Candidate
    <3>2. Len(own) <= Width(p)
      BY <1>2, <3>1, WidthType
    <3> QED BY <2>1, <3>1, <3>2
  <2>2. CASE \E open : \E cs \in AccountCandidates(p, open) :
               req' = [req EXCEPT ![r].todo = Tail(@), ![r].cands = @ \o cs]
    BY <1>2, <2>2, AccountCandidatesType, AccountCandidatesLength
  <2> QED BY <2>1, <2>2 DEF ExpandProvider
<1> DEFINE all == q.cands \o cs
           rest == Tail(q.todo)
           n == [q EXCEPT !.todo = rest, !.cands = all]
<1>4. req' = [req EXCEPT ![r] = n]
  BY <1>3
<1>5. /\ Len(q.cands) \in Nat /\ Len(cs) \in Nat /\ all \in Seq(Candidate)
      /\ Len(all) = Len(q.cands) + Len(cs)
  BY <1>1, ConcatProperties, LenProperties
<1>6. Cardinality(Slots(q.todo)) = Width(p) + Cardinality(Slots(rest))
  BY <1>1, SlotsAdd
<1>7. Cardinality(Slots(rest)) \in Nat /\ Width(p) \in Nat
  BY <1>2, SlotsCount, WidthType
<1> HIDE DEF all, rest, p
<1>8. /\ n.pc = "expand" /\ n.idx = q.idx /\ n.retried = q.retried
      /\ n.cands = all /\ n.calls = q.calls /\ n.logged = q.logged
      /\ n.strict = q.strict /\ n.gone = q.gone /\ n.deadline = q.deadline
      /\ n.todo = rest /\ n.tried = q.tried /\ n.answer = q.answer
  BY <1>1 DEF Request
<1> HIDE DEF n
<1>9. Tallied(n)
  BY <1>1, <1>8 DEF Tallied, Waiting, Attempting
<1>10. PassedOver(n)
  <2>1. n.idx = 1 /\ n.deadline - Timeout <= now
    BY <1>1, <1>8 DEF Tallied, Waiting, PassedOver
  <2>2. \A j \in DOMAIN n.cands : ~(j < n.idx)
    BY <1>5, <1>8, <2>1, LenProperties
  <2> QED BY <2>1, <2>2 DEF PassedOver
<1>11. Bounded(n)
  BY <1>3, <1>5, <1>6, <1>7, <1>8, CandidatesBounded DEF Bounded
<1>12. Unseen(q, n)
  BY <1>1, <1>8 DEF Unseen, PhaseOf
<1>13. Settled(r, n)
  BY <1>4, <1>9, <1>10, <1>11, <1>12 DEF Settled, Noticed
<1> QED BY <1>13

LEMMA ExpandDoneSettles ==
  ASSUME IInv, NEW r \in Requests, Tallied(req[r]), PassedOver(req[r]), Bounded(req[r]),
         ExpandDone(r)
  PROVE  \E n : Settled(r, n)
<1> DEFINE q == req[r]
           cands == IF q.strict /\ Len(q.cands) > 1 THEN <<q.cands[1]>> ELSE q.cands
           n == [q EXCEPT !.pc = "select", !.cands = cands]
<1>1. /\ q \in Request /\ q.pc = "expand" /\ q.cands \in Seq(Candidate)
      /\ Len(q.cands) \in Nat /\ q.todo \in Seq(Providers)
  BY Current DEF ExpandDone, Good, Request
<1>2. /\ Len(cands) \in Nat /\ Len(cands) <= Len(q.cands)
      /\ q.strict => Len(cands) <= 1
      /\ DOMAIN cands = 1..Len(cands)
  <2>1. CASE q.strict /\ Len(q.cands) > 1
    <3>1. Len(cands) = 1 /\ DOMAIN cands = 1..1
      BY <2>1
    <3> HIDE DEF cands
    <3> QED BY <1>1, <2>1, <3>1
  <2>2. CASE ~(q.strict /\ Len(q.cands) > 1)
    BY <1>1, <2>2, LenProperties
  <2> QED BY <2>1, <2>2
<1>3. req' = [req EXCEPT ![r] = n]
  BY DEF ExpandDone
<1> HIDE DEF cands
<1>4. /\ n.pc = "select" /\ n.idx = q.idx /\ n.retried = q.retried
      /\ n.cands = cands /\ n.calls = q.calls /\ n.logged = q.logged
      /\ n.strict = q.strict /\ n.gone = q.gone /\ n.deadline = q.deadline
      /\ n.todo = q.todo /\ n.tried = q.tried /\ n.answer = q.answer
  BY <1>1 DEF Request
<1> HIDE DEF n
<1>5. /\ q.tried = {} /\ q.calls = 0 /\ q.logged = 0 /\ q.idx = 1
      /\ ~q.retried /\ q.answer = "none" /\ Cardinality({}) = 0
  BY <1>1, FS_EmptySet DEF Tallied, Waiting
<1>6. Tallied(n)
  BY <1>2, <1>4, <1>5 DEF Tallied, Waiting, Attempting
<1>7. PassedOver(n)
  <2>1. n.deadline - Timeout <= now
    BY <1>1, <1>4 DEF PassedOver
  <2>2. \A j \in DOMAIN n.cands : ~(j < n.idx)
    BY <1>2, <1>4, <1>5
  <2> QED BY <2>1, <2>2 DEF PassedOver
<1>8. Bounded(n)
  <2>1. Cardinality(Slots(q.todo)) \in Nat
    BY <1>1, SlotsCount
  <2> QED BY <1>1, <1>2, <1>4, <2>1, CandidatesBounded DEF Bounded
<1>9. Unseen(q, n)
  BY <1>1, <1>4 DEF Unseen, PhaseOf
<1>10. Settled(r, n)
  BY <1>3, <1>6, <1>7, <1>8, <1>9 DEF Settled, Noticed
<1> QED BY <1>10

LEMMA Settles ==
  ASSUME IInv, AccountInv, NEW r \in Requests, RequestStep(r)
  PROVE  \E n : Settled(r, n)
<1>1. Tallied(req[r]) /\ PassedOver(req[r]) /\ Bounded(req[r])
  BY DEF AccountInv
<1>2. CASE Arrive(r)
  BY <1>1, <1>2, ArriveSettles
<1>3. CASE AttemptTimesOut(r) \/ AttemptCut(r) \/ AttemptErrors(r)
  BY <1>1, <1>3, AttemptFailsSettles DEF AttemptTimesOut, AttemptCut, AttemptErrors
<1>4. CASE PenalizeProvider(r) \/ RecordFailure(r)
  <2>1. CASE PenalizeProvider(r)
    <3>1. req[r].pc = "penalize" /\ Goto(r, "decide")
      BY <2>1 DEF PenalizeProvider
    <3> QED BY <1>1, <3>1, GotoSettles DEF Attempting, PC
  <2>2. CASE RecordFailure(r)
    BY <1>1, <2>2, RecordFailureSettles
  <2> QED BY <1>4, <2>1, <2>2
<1>5. CASE StreamEnds(r) \/ StreamCut(r)
  <2>1. req[r].pc = "streaming" /\ Goto(r, "succeed")
    BY <1>5 DEF StreamEnds, StreamCut
  <2> QED BY <1>1, <2>1, GotoSettles DEF Attempting, PC
<1>6. CASE ExpandProvider(r) \/ ExpandDone(r) \/ SkipCandidate(r) \/ CallCandidate(r)
             \/ LeaveLoop(r) \/ CheckContext(r) \/ ReadStreak(r) \/ LogAndDecide(r)
             \/ RecordSuccess(r)
  BY <1>1, <1>6, ExpandProviderSettles, ExpandDoneSettles, SkipCandidateSettles,
     CallCandidateSettles, LeaveLoopSettles, CheckContextSettles, ReadStreakSettles,
     LogAndDecideSettles, RecordSuccessSettles
<1>7. CASE AttemptRejected(r) \/ AttemptEmpty(r) \/ AttemptAccepted(r)
  BY <1>1, <1>7, AttemptRejectedSettles, AttemptEmptySettles, AttemptAcceptedSettles
<1>8. CASE ClientDisconnects(r)
  BY <1>1, <1>8, ClientDisconnectsSettles
<1> QED BY <1>2, <1>3, <1>4, <1>5, <1>6, <1>7, <1>8
        DEF RequestStep, HandlerStep, UpstreamStep

--------------------------------------------------------------------------------
(***************************************************************************)
(* The account invariant, and what follows from it.                        *)
(***************************************************************************)
\* No step moves the end of a cooldown back, and none but Tick moves the clock.
LEMMA CooldownStep ==
  ASSUME IInv, [Next]_vars
  PROVE  /\ \A p \in Providers : cooldown[p] \in Nat /\ cooldown'[p] \in Nat
         /\ \A p \in Providers : cooldown'[p] >= cooldown[p]
         /\ now \in Nat /\ now' \in Nat /\ now' >= now
<1>1. IInv'
  BY Invariant_Step
<1>2. /\ \A p \in Providers : cooldown[p] \in Nat /\ cooldown'[p] \in Nat
      /\ now \in Nat /\ now' \in Nat
  BY <1>1 DEF IInv, TypeOK
<1>3. CASE UNCHANGED vars
  BY <1>2, <1>3 DEF vars
<1>4. CASE Tick
  BY <1>2, <1>4 DEF Tick
<1>5. ASSUME NEW r \in Requests, RequestStep(r)
      PROVE  /\ \A p \in Providers : cooldown'[p] >= cooldown[p]
             /\ now' = now
  BY <1>2, <1>5, SharedState, PenaltyStep
<1> QED BY <1>2, <1>3, <1>4, <1>5 DEF Next, RequestStep

\* What was passed over stays so while time passes and cooldowns grow.
LEMMA PassedOverStays ==
  ASSUME IInv, [Next]_vars, NEW n \in Request, PassedOver(n)
  PROVE  /\ n.pc # "idle" =>
              /\ n.deadline - Timeout <= now'
              /\ \A j \in DOMAIN n.cands : j < n.idx =>
                   j \in n.tried \/ cooldown'[n.cands[j].provider] > n.deadline - Timeout
<1> SUFFICES ASSUME n.pc # "idle"
             PROVE  /\ n.deadline - Timeout <= now'
                    /\ \A j \in DOMAIN n.cands : j < n.idx =>
                         \/ j \in n.tried
                         \/ cooldown'[n.cands[j].provider] > n.deadline - Timeout
  OBVIOUS
<1> DEFINE begun == n.deadline - Timeout
<1>1. begun \in Int /\ begun <= now
  <2>1. n.deadline \in Nat
    BY DEF Request
  <2>2. n.deadline - Timeout <= now
    BY DEF PassedOver
  <2> QED BY <2>1, <2>2, FallbackConstants
<1>2. \A j \in DOMAIN n.cands : n.cands[j].provider \in Providers
  <2>1. n.cands \in Seq(Candidate)
    BY DEF Request
  <2>2. \A j \in DOMAIN n.cands : n.cands[j] \in Candidate
    BY <2>1, LenProperties, ElementOfSeq
  <2> QED BY <2>2 DEF Candidate
<1>3. \A j \in DOMAIN n.cands : j < n.idx =>
        j \in n.tried \/ cooldown[n.cands[j].provider] > begun
  BY DEF PassedOver
<1> HIDE DEF begun
<1>4. begun <= now'
  BY <1>1, CooldownStep
<1>5. \A j \in DOMAIN n.cands : j < n.idx =>
        j \in n.tried \/ cooldown'[n.cands[j].provider] > begun
  BY <1>1, <1>2, <1>3, CooldownStep
<1> QED BY <1>4, <1>5 DEF begun

LEMMA AccountInit == Init => AccountInv
<1> SUFFICES ASSUME Init, NEW r \in Requests
             PROVE  Tallied(req[r]) /\ PassedOver(req[r]) /\ Bounded(req[r])
  BY DEF AccountInv
<1> DEFINE q == req[r]
<1>1. /\ q.pc = "idle" /\ q.idx = 1 /\ q.retried = FALSE /\ q.cands = <<>>
      /\ q.calls = 0 /\ q.logged = 0 /\ q.gone = FALSE /\ q.todo = <<>>
      /\ q.tried = {} /\ q.answer = "none"
  BY DEF Init, Fresh
<1> HIDE DEF q
<1>2. Tallied(q) /\ PassedOver(q)
  BY <1>1 DEF Tallied, PassedOver, Waiting, Attempting
<1>3. Slots(q.todo) = {}
  BY <1>1 DEF Slots
<1>4. Cardinality(Slots(q.todo)) = 0 /\ Len(q.cands) = 0
  BY <1>1, <1>3, FS_EmptySet
<1>5. Bounded(q)
  BY <1>4, CandidatesBounded DEF Bounded
<1> QED BY <1>2, <1>5 DEF q

LEMMA AccountStep == IInv /\ AccountInv /\ [Next]_vars => AccountInv'
<1> SUFFICES ASSUME IInv, AccountInv, [Next]_vars, NEW s \in Requests
             PROVE  Tallied(req'[s]) /\ PassedOver(req[s])' /\ Bounded(req'[s])
  BY DEF AccountInv, Tallied, Bounded
<1>1. /\ Tallied(req'[s]) /\ PassedOver(req'[s]) /\ Bounded(req'[s])
      /\ req'[s] \in Request
  <2>1. req[s] \in Request /\ Tallied(req[s]) /\ PassedOver(req[s]) /\ Bounded(req[s])
    BY Current DEF Good, AccountInv
  <2>2. req'[s] \in Request
    BY Invariant_Step DEF IInv, TypeOK
  <2>3. CASE UNCHANGED vars \/ Tick
    BY <2>1, <2>3 DEF vars, Tick
  <2>4. ASSUME NEW r \in Requests, RequestStep(r)
        PROVE  Tallied(req'[s]) /\ PassedOver(req'[s]) /\ Bounded(req'[s])
    <3>1. PICK n : Settled(r, n)
      BY <2>4, Settles
    <3>2. req' = [req EXCEPT ![r] = n] /\ req \in [Requests -> Request]
      BY <3>1 DEF Settled, IInv, TypeOK
    <3>3. req'[s] = IF s = r THEN n ELSE req[s]
      BY <3>2
    <3> QED BY <2>1, <3>1, <3>3 DEF Settled
  <2> QED BY <2>2, <2>3, <2>4 DEF Next, RequestStep
<1>2. PassedOver(req[s])'
  BY <1>1, PassedOverStays DEF PassedOver
<1> QED BY <1>1, <1>2

LEMMA Account == Spec => [](IInv /\ AccountInv)
<1>1. Init => IInv /\ AccountInv
  BY Invariant_Init, AccountInit
<1>2. IInv /\ AccountInv /\ [Next]_vars => (IInv /\ AccountInv)'
  BY Invariant_Step, AccountStep
<1> QED BY <1>1, <1>2, PTL DEF Spec

\* Whatever its fate, a request has logged every candidate it called exactly once,
\* except perhaps the last one when its deadline or its client cut it short.
THEOREM AttemptsAreAccounted == Spec => []EveryAttemptAccounted
<1>1. AccountInv => EveryAttemptAccounted
  BY DEF AccountInv, Tallied, EveryAttemptAccounted
<1> QED BY <1>1, Account, PTL

\* A request that ends unserved with budget left, after failures that permit
\* fallback, has called every candidate whose provider was in no cooldown at any time
\* since the request began, whatever concurrent requests did to the cooldowns.
THEOREM HealthyProvidersAreTried == Spec => HealthyProviderIsTried
<1> DEFINE Untried(r) ==
             (/\ req[r].pc # "done" /\ req'[r].pc = "done" /\ req'[r].answer # "ok"
              /\ HasBudget(r)
              /\ req[r].pc = "decide" => req[r].class \in Fallback)
             => \A j \in DOMAIN req[r].cands :
                  \/ cooldown[req[r].cands[j].provider] > req[r].deadline - Timeout
                  \/ j \in req[r].tried
<1>1. IInv /\ AccountInv /\ [Next]_vars => [\A r \in Requests : Untried(r)]_vars
  <2> SUFFICES ASSUME IInv, AccountInv, Next, NEW r \in Requests,
                      req[r].pc # "done", req'[r].pc = "done", req'[r].answer # "ok",
                      HasBudget(r), req[r].pc = "decide" => req[r].class \in Fallback,
                      NEW j \in DOMAIN req[r].cands
               PROVE  \/ cooldown[req[r].cands[j].provider] > req[r].deadline - Timeout
                      \/ j \in req[r].tried
    OBVIOUS
  <2> DEFINE q == req[r]
  <2>1. /\ q \in Request /\ Tallied(q) /\ PassedOver(q) /\ q.idx \in Nat \ {0}
        /\ q.cands \in Seq(Candidate) /\ q.deadline \in Nat /\ now \in Nat
        /\ Timeout \in Nat /\ req \in [Requests -> Request]
    BY Current, FallbackConstants DEF Good, AccountInv, Request, IInv, TypeOK
  <2>2. RequestStep(r)
    <3>1. CASE Tick
      BY <2>1, <3>1 DEF Tick
    <3>2. ASSUME NEW s \in Requests, RequestStep(s) PROVE s = r
      <4>1. PICK n : req' = [req EXCEPT ![s] = n]
        BY <3>2, BecomesGood DEF Becomes
      <4> QED BY <2>1, <4>1
    <3> QED BY <3>1, <3>2 DEF Next, RequestStep
  <2>3. j \in Nat /\ j <= Len(q.cands) /\ Len(q.cands) \in Nat
    BY <2>1, LenProperties
  <2>4. \/ /\ q.pc = "select" /\ q.idx > Len(q.cands)
        \/ /\ q.pc = "decide" /\ ~HasAvailableAfter(r)
    <3>1. CASE LeaveLoop(r)
      BY <3>1 DEF LeaveLoop
    <3>2. CASE LogAndDecide(r)
      <4>1. ASSUME req' = [req EXCEPT ![r] = Continue(@)] PROVE FALSE
        <5> DEFINE e == Logged(EndIteration(q))
        <5>1. e \in Request
          BY <2>1, EndIterationType, LoggedType
        <5>2. req'[r] = [e EXCEPT !.pc = "select", !.idx = @ + 1]
          BY <2>1, <4>1 DEF Continue
        <5> HIDE DEF e
        <5>3. req'[r].pc = "select"
          BY <5>1, <5>2 DEF Request
        <5> QED BY <5>3
      <4> QED BY <3>2, <4>1 DEF LogAndDecide
    <3>3. CASE CheckContext(r)
      BY <2>1, <3>3 DEF CheckContext, Goto, HasBudget, PC, Request
    <3>4. CASE RecordSuccess(r)
      <4> DEFINE e == Return(q, "ok")
      <4>1. e \in Request /\ e.answer = "ok"
        BY <2>1, ReturnKeeps DEF Answer
      <4>2. req'[r] = Logged(e)
        BY <2>1, <3>4 DEF RecordSuccess
      <4> HIDE DEF e
      <4>3. req'[r].answer = "ok"
        BY <4>1, <4>2, LoggedKeeps
      <4> QED BY <4>3
    <3>5. CASE Arrive(r)
      BY <2>1, <3>5 DEF Arrive, Fresh
    <3>6. CASE SkipCandidate(r) \/ CallCandidate(r) \/ ClientDisconnects(r)
      BY <2>1, <3>6 DEF SkipCandidate, CallCandidate, ClientDisconnects, Request
    <3>7. CASE PenalizeProvider(r) \/ RecordFailure(r) \/ StreamEnds(r) \/ StreamCut(r)
      BY <2>1, <3>7 DEF PenalizeProvider, RecordFailure, StreamEnds, StreamCut, Goto, Request
    <3>8. CASE ReadStreak(r)
      BY <2>1, <3>8 DEF ReadStreak, Goto, Request
    <3>9. CASE ExpandDone(r)
      BY <2>1, <3>9 DEF ExpandDone, Request
    <3>10. CASE ExpandProvider(r)
      <4> DEFINE own == <<[provider |-> Head(q.todo), account |-> NoAccount]>>
      <4>1. PICK cs : req' = [req EXCEPT ![r].todo = Tail(@), ![r].cands = @ \o cs]
        <5>1. CASE req' = [req EXCEPT ![r].todo = Tail(@), ![r].cands = @ \o own]
          BY <5>1
        <5>2. CASE \E open : \E cs \in AccountCandidates(Head(q.todo), open) :
                     req' = [req EXCEPT ![r].todo = Tail(@), ![r].cands = @ \o cs]
          BY <5>2
        <5> QED BY <3>10, <5>1, <5>2 DEF ExpandProvider
      <4>2. req'[r].pc = q.pc
        BY <2>1, <4>1 DEF Request
      <4> QED BY <3>10, <4>2 DEF ExpandProvider
    <3>11. CASE AttemptTimesOut(r) \/ AttemptCut(r) \/ AttemptErrors(r)
      <4>1. PICK class : AttemptFails(r, class)
        BY <3>11 DEF AttemptTimesOut, AttemptCut, AttemptErrors
      <4>2. CASE req' = [req EXCEPT ![r].retried = TRUE, ![r].calls = @ + 1, ![r].since = now]
        BY <2>1, <4>1, <4>2 DEF AttemptFails, Request
      <4>3. CASE req' = [req EXCEPT ![r].pc = "errored", ![r].class = class,
                                    ![r].retryAfter = 0]
        BY <2>1, <4>3 DEF Request
      <4> QED BY <4>1, <4>2, <4>3 DEF AttemptFails
    <3>12. CASE AttemptEmpty(r) \/ AttemptAccepted(r)
      BY <2>1, <3>12 DEF AttemptEmpty, AttemptAccepted, Request
    <3>13. CASE AttemptRejected(r)
      <4>1. PICK pc \in {"streak", "decide", "penalize"} :
              \E class, retryAfter :
                req' = [req EXCEPT ![r].class = class, ![r].retryAfter = retryAfter,
                                   ![r].pc = pc]
        <5>1. PICK class \in ResponseClasses(r) :
              \E retryAfter \in IF class = "rate_limited" THEN RetryAfters ELSE {0} :
                req' = [req EXCEPT
                   ![r].class = class, ![r].retryAfter = retryAfter,
                   ![r].pc = IF Cand(r).account # NoAccount
                             THEN IF class \in AccountEligible THEN "streak" ELSE "decide"
                             ELSE IF class \in Penalised THEN "penalize" ELSE "decide"]
          BY <3>13 DEF AttemptRejected
        <5> DEFINE pc == IF Cand(r).account # NoAccount
                         THEN IF class \in AccountEligible THEN "streak" ELSE "decide"
                         ELSE IF class \in Penalised THEN "penalize" ELSE "decide"
        <5>2. pc \in {"streak", "decide", "penalize"}
          OBVIOUS
        <5>3. PICK retryAfter \in IF class = "rate_limited" THEN RetryAfters ELSE {0} :
                req' = [req EXCEPT ![r].class = class, ![r].retryAfter = retryAfter,
                                   ![r].pc = pc]
          BY <5>1
        <5> HIDE DEF pc
        <5> QED BY <5>2, <5>3
      <4>2. req'[r].pc = pc
        BY <2>1, <4>1 DEF Request
      <4> QED BY <4>2
    <3> QED BY <2>2, <3>1, <3>2, <3>3, <3>4, <3>5, <3>6, <3>7, <3>8, <3>9, <3>10, <3>11,
               <3>12, <3>13
            DEF RequestStep, HandlerStep, UpstreamStep
  <2>5. CASE j < q.idx
    BY <2>1, <2>4, <2>5 DEF PassedOver
  <2>6. CASE j >= q.idx
    <3>1. q.pc = "decide" /\ ~HasAvailableAfter(r)
      BY <2>1, <2>3, <2>4, <2>6
    <3>2. CASE j = q.idx
      BY <2>1, <3>1, <3>2 DEF Tallied, Attempting, PC
    <3>3. CASE j > q.idx
      <4> DEFINE c == cooldown[q.cands[j].provider]
      <4>1. ~(c <= now)
        BY <3>1, <3>3 DEF HasAvailableAfter, Available
      <4>2. c \in Nat
        <5>1. q.cands[j] \in Candidate
          BY <2>1, <2>3, LenProperties, ElementOfSeq
        <5> QED BY <5>1 DEF Candidate, IInv, TypeOK
      <4>3. q.deadline - Timeout <= now
        BY <3>1 DEF PassedOver, AccountInv
      <4> HIDE DEF c
      <4>4. c > q.deadline - Timeout
        BY <2>1, <4>1, <4>2, <4>3
      <4> QED BY <4>4 DEF c
    <3> QED BY <2>1, <2>3, <2>6, <3>2, <3>3
  <2> QED BY <2>1, <2>3, <2>5, <2>6
<1> QED BY <1>1, Account, PTL DEF Spec, HealthyProviderIsTried

\* A step that the client can notice is a step of the promise.
LEMMA NoticedIsPromised ==
  ASSUME IInv, NEW r \in Requests, NEW n, req' = [req EXCEPT ![r] = n],
         Noticed(req[r], n)
  PROVE  Promise!PromiseNext \/ UNCHANGED Promise!promiseVars
<1> DEFINE q == req[r]
           phase   == [s \in Requests |-> PhaseOf(req[s])]
           strict  == [s \in Requests |-> req[s].strict]
           gone    == [s \in Requests |-> req[s].gone]
           calls   == [s \in Requests |-> req[s].calls]
           verdict == [s \in Requests |-> VerdictOf(req[s])]
<1>1. /\ phase' = [phase EXCEPT ![r] = PhaseOf(n)]
      /\ strict' = [strict EXCEPT ![r] = n.strict]
      /\ gone' = [gone EXCEPT ![r] = n.gone]
      /\ calls' = [calls EXCEPT ![r] = n.calls]
      /\ verdict' = [verdict EXCEPT ![r] = VerdictOf(n)]
  BY DEF IInv, TypeOK, PhaseOf, VerdictOf
<1>2. /\ phase[r] = PhaseOf(q) /\ strict[r] = q.strict /\ gone[r] = q.gone
      /\ calls[r] = q.calls /\ verdict[r] = VerdictOf(q)
      /\ q.strict \in BOOLEAN /\ q.gone \in BOOLEAN /\ q.calls \in Nat
      /\ q.answer \in Answer /\ q.pc \in PC
  BY DEF IInv, TypeOK, Request
<1>4. CASE Unseen(q, n)
  <2>1. /\ phase' = phase /\ strict' = strict /\ gone' = gone /\ calls' = calls
        /\ verdict' = verdict
    BY <1>1, <1>4 DEF Unseen, VerdictOf
  <2> QED BY <2>1 DEF Promise!promiseVars
<1>5. CASE Accepted(q, n)
  <2>1. /\ phase[r] = "new" /\ phase' = [phase EXCEPT ![r] = "serving"]
        /\ strict' = [strict EXCEPT ![r] = n.strict] /\ n.strict \in BOOLEAN
        /\ gone' = gone /\ calls' = calls /\ verdict' = verdict
    BY <1>1, <1>2, <1>5 DEF Accepted, PhaseOf, VerdictOf
  <2>2. Promise!Accept(r)
    BY <2>1 DEF Promise!Accept
  <2> QED BY <2>2 DEF Promise!PromiseNext
<1>6. CASE Called(q, n)
  <2>1. /\ phase[r] = "serving" /\ verdict[r] = "none" /\ ~gone[r]
        /\ calls[r] < (IF strict[r] THEN 1 ELSE 2 * MaxCandidates)
        /\ calls' = [calls EXCEPT ![r] = calls[r] + 1]
        /\ phase' = phase /\ strict' = strict /\ gone' = gone /\ verdict' = verdict
    BY <1>1, <1>2, <1>6 DEF Called, PhaseOf, VerdictOf
  <2>2. Promise!Call(r)
    BY <2>1 DEF Promise!Call
  <2> QED BY <2>2 DEF Promise!PromiseNext
<1>7. CASE Served(q, n)
  <2>1. /\ phase[r] = "serving" /\ verdict[r] = "none" /\ calls[r] > 0
        /\ verdict' = [verdict EXCEPT ![r] = "served"]
        /\ phase' = phase /\ strict' = strict /\ gone' = gone /\ calls' = calls
    BY <1>1, <1>2, <1>7 DEF Served, PhaseOf, VerdictOf
  <2>2. Promise!Serve(r)
    BY <2>1 DEF Promise!Serve
  <2> QED BY <2>2 DEF Promise!PromiseNext
<1>8. CASE Ended(q, n)
  <2>1. /\ phase[r] = "serving" /\ phase' = [phase EXCEPT ![r] = "ended"]
        /\ strict' = strict /\ gone' = gone /\ calls' = calls
    BY <1>1, <1>2, <1>8 DEF Ended, PhaseOf
  <2>2. CASE q.answer = "ok" /\ n.answer = "ok"
    <3>1. verdict[r] = "served" /\ verdict' = verdict
      BY <1>1, <1>2, <2>2 DEF VerdictOf
    <3>2. Promise!End(r)
      BY <2>1, <3>1 DEF Promise!End
    <3> QED BY <3>2 DEF Promise!PromiseNext
  <2>3. CASE /\ q.answer = "none" /\ n.answer \in Answer \ {"ok"}
             /\ n.answer = "none" => q.gone
             /\ n.answer = "all_candidates_unavailable" => q.calls = 0
    <3> DEFINE v == VerdictOf(n)
    <3>1. /\ verdict[r] = "none" /\ v \in Promise!Verdict \ {"served"}
          /\ v = "none" => gone[r]
          /\ v = "unavailable" => calls[r] = 0
      BY <1>2, <2>3 DEF VerdictOf, Promise!Verdict
    <3>2. verdict' = [verdict EXCEPT ![r] = v]
      BY <1>1
    <3> HIDE DEF v
    <3>3. Promise!End(r)
      BY <2>1, <3>1, <3>2 DEF Promise!End
    <3> QED BY <3>3 DEF Promise!PromiseNext
  <2> QED BY <1>8, <2>2, <2>3 DEF Ended
<1>9. CASE Left(q, n)
  <2>1. /\ phase[r] = "serving" /\ ~gone[r] /\ gone' = [gone EXCEPT ![r] = TRUE]
        /\ phase' = phase /\ strict' = strict /\ calls' = calls /\ verdict' = verdict
    BY <1>1, <1>2, <1>9 DEF Left, PhaseOf, VerdictOf
  <2>2. Promise!Disconnect(r)
    BY <2>1 DEF Promise!Disconnect
  <2> QED BY <2>2 DEF Promise!PromiseNext
<1> QED BY <1>4, <1>5, <1>6, <1>7, <1>8, <1>9 DEF Noticed

LEMMA PromiseStarts == Init => Promise!PromiseInit
<1> SUFFICES ASSUME Init PROVE Promise!PromiseInit
  OBVIOUS
<1>1. \A r \in Requests : /\ req[r].pc = "idle" /\ req[r].strict = FALSE
                          /\ req[r].gone = FALSE /\ req[r].calls = 0
                          /\ req[r].answer = "none"
  BY DEF Init, Fresh
<1>2. \A r \in Requests : PhaseOf(req[r]) = "new" /\ VerdictOf(req[r]) = "none"
  BY <1>1 DEF PhaseOf, VerdictOf
<1> QED BY <1>1, <1>2 DEF Promise!PromiseInit

LEMMA PromiseStep ==
  IInv /\ AccountInv /\ [Next]_vars => [Promise!PromiseNext]_Promise!promiseVars
<1> SUFFICES ASSUME IInv, AccountInv, [Next]_vars
             PROVE  Promise!PromiseNext \/ UNCHANGED Promise!promiseVars
  OBVIOUS
<1>1. CASE UNCHANGED vars \/ Tick
  <2>1. req' = req
    BY <1>1 DEF vars, Tick
  <2> QED BY <2>1 DEF Promise!promiseVars, PhaseOf, VerdictOf
<1>2. ASSUME NEW r \in Requests, RequestStep(r)
      PROVE  Promise!PromiseNext \/ UNCHANGED Promise!promiseVars
  <2>1. PICK n : Settled(r, n)
    BY <1>2, Settles
  <2> QED BY <2>1, NoticedIsPromised DEF Settled
<1> QED BY <1>1, <1>2 DEF Next, RequestStep

\* The safety of GatewayPromise is implemented: every step of the engine is, for its
\* clients, a step of the promise or none at all.  (That a request ends, the rest of
\* KeepsPromise, needs fairness.)
THEOREM PromiseIsKept == Spec => Promise!PromiseSafety
BY PromiseStarts, PromiseStep, Account, PTL DEF Spec, Promise!PromiseSafety
================================================================================
