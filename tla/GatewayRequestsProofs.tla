-------------------------- MODULE GatewayRequestsProofs --------------------------
(***************************************************************************)
(* The keys of a provider, for any number of keys, calls and forms: a call *)
(* that reports them exhausted is right, and their rotation is fair.  And  *)
(* an answer, for any tool calls, any number of fragments and every route: *)
(* the client of a stream sees blocks open and close in order, every tool  *)
(* call gets its own arguments, and what came to its end is billed.        *)
(***************************************************************************)
EXTENDS KeyPool, Streams, FiniteSetTheorems, WellFoundedInduction, TLAPS

KeySpec == KeyInit /\ [][KeyNext]_keyVars

--------------------------------------------------------------------------------
\* Sets of numbers: the least element, and induction.
LEMMA Smallest ==
  ASSUME NEW T \in SUBSET Nat, T # {} PROVE \E n \in T : \A m \in T : n <= m
<1>1. \E R : IsWellFoundedOn(R, Nat) /\ \A m, n \in Nat : m < n => <<m, n>> \in R
  <2> DEFINE R == OpToRel(<, Nat)
  <2>1. IsWellFoundedOn(R, Nat)
    BY NatLessThanWellFounded
  <2>2. \A m, n \in Nat : m < n => <<m, n>> \in R
    BY DEF OpToRel
  <2> HIDE DEF R
  <2> QED BY <2>1, <2>2
<1>2. PICK R : IsWellFoundedOn(R, Nat) /\ \A m, n \in Nat : m < n => <<m, n>> \in R
  BY <1>1
<1> HIDE DEF IsWellFoundedOn
<1>3. T \subseteq Nat /\ T # {} /\ IsWellFoundedOn(R, Nat)
  BY <1>2
<1>4. \E n \in T : \A m \in T : ~(<<m, n>> \in R)
  BY <1>3, WFMin, Zenon
<1>5. PICK n \in T : \A m \in T : ~(<<m, n>> \in R)
  BY <1>4
<1>6. ASSUME NEW m \in T PROVE n <= m
  <2>1. ~(m < n)
    BY <1>2, <1>5
  <2> QED BY <2>1
<1> QED BY <1>6

LEMMA Induction ==
  ASSUME NEW S \in SUBSET Nat, 0 \in S, \A n \in S : n + 1 \in S
  PROVE  S = Nat
<1> SUFFICES ASSUME S # Nat PROVE FALSE
  OBVIOUS
<1>1. Nat \ S # {} /\ Nat \ S \in SUBSET Nat
  OBVIOUS
<1>2. PICK n \in Nat \ S : \A m \in Nat \ S : n <= m
  BY <1>1, Smallest
<1>3. n # 0 /\ n - 1 \in Nat
  BY <1>2
<1>4. n - 1 \in S
  BY <1>2, <1>3
<1> QED BY <1>2, <1>3, <1>4

LEMMA MinIs ==
  ASSUME NEW S \in SUBSET Nat, S # {}
  PROVE  Min(S) \in S /\ \A x \in S : Min(S) <= x
<1>1. \E x \in S : \A y \in S : x <= y
  BY Smallest
<1> QED BY <1>1 DEF Min

--------------------------------------------------------------------------------
\* The list of available keys.
LEMMA KeyFacts ==
  /\ Len(Keys) \in Nat /\ DOMAIN Keys = 1..Len(Keys)
  /\ \A i \in 1..Len(Keys) : Keys[i] \in KeyIds
  /\ \A k \in KeyIds : \E i \in 1..Len(Keys) : k = Keys[i]
  /\ \A i, j \in 1..Len(Keys) : Keys[i] = Keys[j] => i = j
<1>1. Len(Keys) \in Nat /\ DOMAIN Keys = 1..Len(Keys)
  BY KeysAssumption
<1> QED BY <1>1, KeysAssumption DEF KeyIds, Range

LEMMA KeysFinite == IsFiniteSet(KeyIds)
<1>1. Keys \in Surjection(1..Len(Keys), KeyIds)
  <2>1. Keys \in [1..Len(Keys) -> STRING]
    BY KeysAssumption
  <2>2. Keys \in [1..Len(Keys) -> KeyIds]
    BY <2>1, KeyFacts
  <2> QED BY <2>2, KeyFacts DEF Surjection
<1>2. IsFiniteSet(1..Len(Keys))
  BY KeyFacts, FS_Interval
<1> QED BY <1>1, <1>2, FS_Surjection

\* The loop over the keys of which those in P are kept: there is one such function,
\* and it lists the keys of P, each once.
Loop(n, P, f) ==
  f = [i \in 0..n |-> IF i = 0 THEN <<>>
                      ELSE IF Keys[i] \in P THEN Append(f[i - 1], Keys[i]) ELSE f[i - 1]]

LEMMA LoopExists ==
  ASSUME NEW P
  PROVE  \E f : Loop(Len(Keys), P, f)
<1> DEFINE S == {n \in Nat : \E f : Loop(n, P, f)}
<1>1. 0 \in S
  <2> DEFINE f == [i \in 0..0 |-> <<>>]
  <2>1. Loop(0, P, f)
    BY DEF Loop
  <2> QED BY <2>1
<1>2. ASSUME NEW n \in S PROVE n + 1 \in S
  <2>1. PICK f : Loop(n, P, f)
    OBVIOUS
  <2>2. n \in Nat
    OBVIOUS
  <2> DEFINE last == IF Keys[n + 1] \in P THEN Append(f[n], Keys[n + 1]) ELSE f[n]
             g == [i \in 0..(n + 1) |-> IF i = n + 1 THEN last ELSE f[i]]
  <2>3. \A i \in 0..n : g[i] = f[i]
    BY <2>2
  <2>4. g[n + 1] = last
    BY <2>2
  <2>5. \A i \in 0..n : f[i] = IF i = 0 THEN <<>>
                               ELSE IF Keys[i] \in P THEN Append(f[i - 1], Keys[i]) ELSE f[i - 1]
    BY <2>1 DEF Loop
  <2> DEFINE h == [i \in 0..(n + 1) |-> IF i = 0 THEN <<>>
                     ELSE IF Keys[i] \in P THEN Append(g[i - 1], Keys[i]) ELSE g[i - 1]]
  <2>6. ASSUME NEW i \in 0..(n + 1) PROVE g[i] = h[i]
    <3>1. CASE i = n + 1
      <4>1. g[n] = f[n]
        BY <2>2, <2>3
      <4> QED BY <2>2, <2>4, <3>1, <4>1
    <3>2. CASE i # n + 1
      <4>1. i \in 0..n /\ (i # 0 => i - 1 \in 0..n)
        BY <2>2, <3>2
      <4> QED BY <2>3, <2>5, <4>1
    <3> QED BY <3>1, <3>2
  <2>7. DOMAIN g = 0..(n + 1) /\ DOMAIN h = 0..(n + 1)
    OBVIOUS
  <2>8. g = h
    BY <2>6, <2>7
  <2>9. Loop(n + 1, P, g)
    <3>1. g = h
      BY <2>8
    <3> QED BY <3>1 DEF Loop
  <2> HIDE DEF g
  <2> QED BY <2>2, <2>9
<1> HIDE DEF S
<1>3. S = Nat
  BY <1>1, <1>2, Induction DEF S
<1> QED BY <1>3, KeyFacts DEF S

LEMMA LoopLists ==
  ASSUME NEW P, NEW f, Loop(Len(Keys), P, f)
  PROVE  LET list == f[Len(Keys)]
         IN  /\ list \in Seq(KeyIds)
             /\ \A k \in KeyIds : k \in P <=> \E i \in 1..Len(list) : list[i] = k
             /\ \A i, j \in 1..Len(list) : list[i] = list[j] => i = j
<1> DEFINE N == Len(Keys)
           Lists(n) ==
             /\ f[n] \in Seq(KeyIds)
             /\ \A i \in 1..Len(f[n]) : \E m \in 1..n : f[n][i] = Keys[m] /\ Keys[m] \in P
             /\ \A m \in 1..n : Keys[m] \in P => \E i \in 1..Len(f[n]) : f[n][i] = Keys[m]
             /\ \A i, j \in 1..Len(f[n]) : f[n][i] = f[n][j] => i = j
           S == {n \in Nat : n <= N => Lists(n)}
<1>0. /\ N \in Nat
      /\ \A i \in 0..N : f[i] = IF i = 0 THEN <<>>
                                ELSE IF Keys[i] \in P THEN Append(f[i - 1], Keys[i]) ELSE f[i - 1]
  BY KeyFacts DEF Loop
<1>1. 0 \in S
  <2>1. f[0] = <<>>
    BY <1>0
  <2>2. f[0] \in Seq(KeyIds) /\ Len(f[0]) = 0
    BY <2>1
  <2>3. 1..Len(f[0]) = {} /\ 1..0 = {}
    BY <2>2
  <2>4. Lists(0)
    BY <2>2, <2>3
  <2> QED BY <2>4
<1>2. ASSUME NEW n \in S PROVE n + 1 \in S
  <2> SUFFICES ASSUME n + 1 <= N PROVE Lists(n + 1)
    OBVIOUS
  <2>1. n \in Nat /\ n + 1 \in 1..N /\ Lists(n)
    BY <1>0
  <2> DEFINE key == Keys[n + 1]
  <2>2. f[n + 1] = IF key \in P THEN Append(f[n], key) ELSE f[n]
    BY <1>0, <2>1
  <2>3. key \in KeyIds /\ \A m \in 1..n : Keys[m] # key
    BY <2>1, KeyFacts
  <2>4. CASE key \notin P
    <3>1. f[n + 1] = f[n]
      BY <2>2, <2>4
    <3>2. \A m \in 1..(n + 1) : m \in 1..n \/ m = n + 1
      BY <2>1
    <3>3. 1..n \subseteq 1..(n + 1)
      BY <2>1
    <3> QED BY <2>1, <2>4, <3>1, <3>2, <3>3
  <2>5. CASE key \in P
    <3> DEFINE s == f[n]
               t == Append(s, key)
    <3>1. f[n + 1] = t
      BY <2>2, <2>5
    <3>2. /\ s \in Seq(KeyIds) /\ t \in Seq(KeyIds) /\ Len(s) \in Nat /\ Len(t) = Len(s) + 1
          /\ \A i \in 1..Len(s) : t[i] = s[i]
          /\ t[Len(s) + 1] = key
      BY <2>1, <2>3
    <3>3. \A i \in 1..Len(s) : \E m \in 1..n : s[i] = Keys[m] /\ Keys[m] \in P
      BY <2>1
    <3>4. \A m \in 1..n : Keys[m] \in P => \E i \in 1..Len(s) : s[i] = Keys[m]
      BY <2>1
    <3>5. \A i, j \in 1..Len(s) : s[i] = s[j] => i = j
      BY <2>1
    <3> HIDE DEF s, t, S
    <3>6. \A i \in 1..Len(t) : i \in 1..Len(s) \/ i = Len(s) + 1
      BY <3>2
    <3>7. \A i \in 1..Len(s) : t[i] = s[i] /\ s[i] # key
      BY <2>3, <3>2, <3>3
    <3>8. \A i, j \in 1..Len(t) : t[i] = t[j] => i = j
      BY <3>2, <3>5, <3>6, <3>7
    <3>9. ASSUME NEW i \in 1..Len(t) PROVE \E m \in 1..(n + 1) : t[i] = Keys[m] /\ Keys[m] \in P
      <4>1. CASE i \in 1..Len(s)
        <5>1. PICK m \in 1..n : s[i] = Keys[m] /\ Keys[m] \in P
          BY <3>3, <4>1
        <5>2. m \in 1..(n + 1)
          BY <2>1
        <5> QED BY <3>7, <4>1, <5>1, <5>2
      <4>2. CASE i = Len(s) + 1
        <5>1. n + 1 \in 1..(n + 1)
          BY <2>1
        <5> QED BY <2>5, <3>2, <4>2, <5>1
      <4> QED BY <3>6, <4>1, <4>2
    <3>10. ASSUME NEW m \in 1..(n + 1), Keys[m] \in P PROVE \E i \in 1..Len(t) : t[i] = Keys[m]
      <4>1. CASE m \in 1..n
        <5>1. PICK i \in 1..Len(s) : s[i] = Keys[m]
          BY <3>4, <3>10, <4>1
        <5>2. i \in 1..Len(t)
          BY <3>2
        <5> QED BY <3>7, <5>1, <5>2
      <4>2. CASE m = n + 1
        <5>1. Len(s) + 1 \in 1..Len(t)
          BY <3>2
        <5> QED BY <3>2, <4>2, <5>1
      <4> QED BY <2>1, <4>1, <4>2
    <3> QED BY <3>1, <3>2, <3>8, <3>9, <3>10
  <2> QED BY <2>4, <2>5
<1> HIDE DEF S
<1>3. S = Nat
  BY <1>1, <1>2, Induction DEF S
<1>4. Lists(N)
  BY <1>0, <1>3 DEF S
<1> HIDE DEF N
<1>5. ASSUME NEW k \in KeyIds PROVE k \in P <=> \E i \in 1..Len(f[N]) : f[N][i] = k
  <2>1. PICK m \in 1..N : k = Keys[m]
    BY KeyFacts DEF N
  <2> QED BY <1>4, <2>1
<1> QED BY <1>4, <1>5 DEF N

\* AvailableKeys: the enabled keys that are not in cooldown, each once.
LEMMA AvailableIs ==
  ASSUME NEW row
  PROVE  LET list == AvailableKeys(row)
         IN  /\ list \in Seq(KeyIds)
             /\ \A k \in KeyIds : (k \in EnabledKeys(row) /\ ~Cooling(k))
                                    <=> \E i \in 1..Len(list) : list[i] = k
             /\ \A i, j \in 1..Len(list) : list[i] = list[j] => i = j
<1> DEFINE P == {k \in KeyIds : k \in EnabledKeys(row) /\ ~Cooling(k)}
           available[i \in 0..Len(Keys)] ==
             IF i = 0 THEN <<>>
             ELSE IF Keys[i] \in EnabledKeys(row) /\ ~Cooling(Keys[i])
                  THEN Append(available[i - 1], Keys[i])
                  ELSE available[i - 1]
           Is(f) == f = [i \in 0..Len(Keys) |->
             IF i = 0 THEN <<>>
             ELSE IF Keys[i] \in EnabledKeys(row) /\ ~Cooling(Keys[i])
                  THEN Append(f[i - 1], Keys[i])
                  ELSE f[i - 1]]
<1>1. AvailableKeys(row) = available[Len(Keys)]
  BY DEF AvailableKeys
<1>2. ASSUME NEW f PROVE Loop(Len(Keys), P, f) <=> Is(f)
  <2>1. \A i \in 0..Len(Keys) : i # 0 =>
          (Keys[i] \in P <=> Keys[i] \in EnabledKeys(row) /\ ~Cooling(Keys[i]))
    BY KeyFacts
  <2> HIDE DEF P
  <2> QED BY <2>1 DEF Loop
<1>3. \E f : Is(f)
  BY <1>2, LoopExists
<1>4. Is(CHOOSE f : Is(f))
  <2> HIDE DEF Is
  <2> QED BY <1>3
<1>5. available = CHOOSE f : Is(f)
  OBVIOUS
<1> HIDE DEF available, Is
<1>6. Loop(Len(Keys), P, available)
  BY <1>2, <1>4, <1>5
<1> HIDE DEF P
<1>7. LET list == available[Len(Keys)]
      IN  /\ list \in Seq(KeyIds)
          /\ \A k \in KeyIds : k \in P <=> \E i \in 1..Len(list) : list[i] = k
          /\ \A i, j \in 1..Len(list) : list[i] = list[j] => i = j
  BY <1>6, LoopLists
<1> QED BY <1>1, <1>7 DEF P

(***************************************************************************)
(* Turns.  The rotation goes round the list: since it came to the list,    *)
(* at its key s with c0 turns, every key had m turns and those of the      *)
(* round under way.                                                        *)
(***************************************************************************)
LEMMA KeyConstants ==
  /\ Keys[1] \in KeyIds /\ Legacy \notin KeyIds /\ NoKey \notin KeyIds /\ NoKey # Legacy
  /\ MaxKeyRetries \in Nat \ {0} /\ StickyLimit \in Nat \ {0}
<1>1. Len(Keys) \in Nat /\ Len(Keys) # 0
  BY KeysAssumption
<1>2. Keys[1] \in KeyIds
  BY <1>1, KeyFacts
<1> QED BY <1>2, KeysAssumption, RetriesAssumption, StickyAssumption DEF NoKey, Legacy

\* What the key at place j has had in the round under way, at place i with c turns.
Had(j, s, i, c) ==
    IF j = i THEN c
    ELSE IF (IF s <= i THEN s <= j /\ j < i ELSE s <= j \/ j < i) THEN StickyLimit ELSE 0

GoesRound(list, taken, i, c) ==
    \E s \in 0..(Len(list) - 1), c0 \in 0..StickyLimit, m \in Int :
        \A j \in 0..(Len(list) - 1) :
            taken[list[j + 1]] = Had(j, s, i, c) - (IF j = s THEN c0 ELSE 0) + m

Distinct(list) == \A i, j \in 1..Len(list) : list[i] = list[j] => i = j

TurnInv ==
    /\ rotation \in [index : Nat, count : 0..StickyLimit]
    /\ turns \in [list : Seq(KeyIds), taken : [KeyIds -> Nat]]
    /\ Distinct(turns.list)
    /\ turns.list # <<>> =>
        /\ rotation.index < Len(turns.list)
        /\ GoesRound(turns.list, turns.taken, rotation.index, rotation.count)
        /\ \E j \in 1..Len(turns.list) : turns.taken[turns.list[j]] = 0
    /\ \A k \in KeyIds \ Range(turns.list) : turns.taken[k] = 0

LEMMA TurnsStart == rotation = NoRotation /\ turns = NoTurns => TurnInv
<1> SUFFICES ASSUME rotation = NoRotation, turns = NoTurns PROVE TurnInv
  OBVIOUS
<1>1. rotation \in [index : Nat, count : 0..StickyLimit]
  BY KeyConstants DEF NoRotation
<1>2. turns \in [list : Seq(KeyIds), taken : [KeyIds -> Nat]] /\ turns.list = <<>>
      /\ \A k \in KeyIds : turns.taken[k] = 0
  BY DEF NoTurns
<1>3. Distinct(turns.list)
  BY <1>2 DEF Distinct
<1> QED BY <1>1, <1>2, <1>3 DEF TurnInv

\* One turn: either the key goes on, or the next one takes over, and when that is
\* the key the round began with, every key has had one round more.
Place(n, s, i, c) ==
    n \in Nat \ {0} /\ s \in 0..(n - 1) /\ i \in 0..(n - 1) /\ c \in 0..StickyLimit

OneTurn(n, i, c, i2, c2) ==
    IF c < StickyLimit THEN i2 = i /\ c2 = c + 1 ELSE i2 = (i + 1) % n /\ c2 = 1

LEMMA RoundStep ==
  ASSUME NEW n, NEW s, NEW i, NEW c, NEW i2, NEW c2, Place(n, s, i, c), OneTurn(n, i, c, i2, c2)
  PROVE  /\ i2 \in 0..(n - 1) /\ c2 \in 0..StickyLimit
         /\ \E lift \in Int : \A j \in 0..(n - 1) :
              Had(j, s, i2, c2) + lift = Had(j, s, i, c) + (IF j = i2 THEN 1 ELSE 0)
<1>0. StickyLimit \in Nat \ {0}
  BY KeyConstants
<1> USE DEF Place, OneTurn
<1>1. CASE c < StickyLimit
  <2>1. \A j \in 0..(n - 1) :
          Had(j, s, i2, c2) + 0 = Had(j, s, i, c) + (IF j = i2 THEN 1 ELSE 0)
    BY <1>0, <1>1 DEF Had
  <2> QED BY <1>0, <1>1, <2>1
<1>2. CASE ~(c < StickyLimit) /\ i + 1 < n
  <2>1. (i + 1) % n = i + 1
    BY <1>2
  <2>2. i2 = i + 1 /\ c2 = 1 /\ c = StickyLimit
    BY <1>0, <1>2, <2>1
  <2>3. CASE s = i + 1
    <3>1. \A j \in 0..(n - 1) :
            Had(j, s, i2, c2) + StickyLimit = Had(j, s, i, c) + (IF j = i2 THEN 1 ELSE 0)
      BY <1>0, <1>2, <2>2, <2>3 DEF Had
    <3> QED BY <1>0, <1>2, <2>2, <3>1
  <2>4. CASE s # i + 1
    <3>1. \A j \in 0..(n - 1) :
            Had(j, s, i2, c2) + 0 = Had(j, s, i, c) + (IF j = i2 THEN 1 ELSE 0)
      BY <1>0, <1>2, <2>2, <2>4 DEF Had
    <3> QED BY <1>0, <1>2, <2>2, <3>1
  <2> QED BY <2>3, <2>4
<1>3. CASE ~(c < StickyLimit) /\ ~(i + 1 < n)
  <2>0. i + 1 = n
    BY <1>3
  <2>1. n % n = 0
    OBVIOUS
  <2>2. i2 = 0 /\ c2 = 1 /\ c = StickyLimit
    BY <1>0, <1>3, <2>0, <2>1
  <2>3. CASE s = 0
    <3>1. \A j \in 0..(n - 1) :
            Had(j, s, i2, c2) + StickyLimit = Had(j, s, i, c) + (IF j = i2 THEN 1 ELSE 0)
      BY <1>0, <2>0, <2>2, <2>3 DEF Had
    <3> QED BY <1>0, <2>2, <3>1
  <2>4. CASE s # 0
    <3>1. \A j \in 0..(n - 1) :
            Had(j, s, i2, c2) + 0 = Had(j, s, i, c) + (IF j = i2 THEN 1 ELSE 0)
      BY <1>0, <2>0, <2>2, <2>4 DEF Had
    <3> QED BY <1>0, <2>2, <3>1
  <2> QED BY <2>3, <2>4
<1> QED BY <1>1, <1>2, <1>3

LEMMA TurnStep ==
  ASSUME TurnInv, NEW list \in Seq(KeyIds), list # <<>>, Distinct(list),
         rotation' = Turn(list), turns' = Taken(list, list[rotation'.index + 1])
  PROVE  TurnInv' /\ list[rotation'.index + 1] \in Range(list)
<1> DEFINE n == Len(list)
<1>0. n \in Nat \ {0} /\ \A j \in 1..n : list[j] \in KeyIds
  OBVIOUS
<1>01. StickyLimit \in Nat \ {0} /\ rotation.index \in Nat /\ rotation.count \in 0..StickyLimit
  BY KeyConstants DEF TurnInv
<1>1. PICK i \in 0..(n - 1), c \in 0..StickyLimit, before \in [KeyIds -> Nat] :
        /\ GoesRound(list, before, i, c)
        /\ rotation' = (IF c < StickyLimit THEN [index |-> i, count |-> c + 1]
                        ELSE [index |-> (i + 1) % n, count |-> 1])
        /\ before = IF turns.list = list THEN turns.taken ELSE [k \in KeyIds |-> 0]
  <2> DEFINE entry == IF rotation.index < n THEN rotation ELSE NoRotation
             taken == IF turns.list = list THEN turns.taken ELSE [k \in KeyIds |-> 0]
  <2>1. /\ entry = [index |-> entry.index, count |-> entry.count]
        /\ entry.index \in 0..(n - 1) /\ entry.count \in 0..StickyLimit
    BY <1>0, <1>01 DEF NoRotation, TurnInv
  <2>2. taken \in [KeyIds -> Nat]
    BY DEF TurnInv
  <2>3. rotation' = (IF entry.count < StickyLimit THEN [index |-> entry.index, count |-> entry.count + 1]
                     ELSE [index |-> (entry.index + 1) % n, count |-> 1])
    BY <2>1 DEF Turn
  <2>4. CASE turns.list = list
    <3>1. rotation.index < n /\ GoesRound(list, taken, rotation.index, rotation.count)
      BY <2>4 DEF TurnInv
    <3> QED BY <2>1, <2>2, <2>3, <3>1
  <2>5. CASE turns.list # list
    <3>1. \A j \in 0..(n - 1) : list[j + 1] \in KeyIds
      BY <1>0
    <3>2. \A j \in 0..(n - 1) : taken[list[j + 1]] = 0
      BY <2>5, <3>1
    <3> HIDE DEF taken
    <3>3. PICK x, y : x = entry.index /\ y = entry.count
      OBVIOUS
    <3>4. x \in 0..(n - 1) /\ y \in 0..StickyLimit
      BY <2>1, <3>3
    <3>5. \A j \in 0..(n - 1) :
            taken[list[j + 1]] = Had(j, x, x, y) - (IF j = x THEN y ELSE 0) + 0
      BY <1>01, <3>2, <3>4 DEF Had
    <3>6. GoesRound(list, taken, x, y)
      <4>1. PICK m \in Int : m = 0
        OBVIOUS
      <4>2. \A j \in 0..(Len(list) - 1) :
              taken[list[j + 1]] = Had(j, x, x, y) - (IF j = x THEN y ELSE 0) + m
        BY <3>5, <4>1
      <4>3. x \in 0..(Len(list) - 1)
        BY <3>4
      <4> QED BY <3>4, <4>2, <4>3 DEF GoesRound
    <3> QED BY <2>1, <2>2, <2>3, <3>3, <3>6 DEF taken
  <2> QED BY <2>4, <2>5
<1> DEFINE i2 == rotation'.index
           c2 == rotation'.count
<1>2. rotation' = [index |-> i2, count |-> c2]
      /\ IF c < StickyLimit THEN i2 = i /\ c2 = c + 1 ELSE i2 = (i + 1) % n /\ c2 = 1
  BY <1>1
<1>3. PICK x, y : x = i2 /\ y = c2
  OBVIOUS
<1>4. rotation' = [index |-> x, count |-> y]
      /\ IF c < StickyLimit THEN x = i /\ y = c + 1 ELSE x = (i + 1) % n /\ y = 1
  BY <1>2, <1>3
<1> HIDE DEF i2, c2
<1>5. PICK s \in 0..(n - 1), c0 \in 0..StickyLimit, m \in Int :
        \A j \in 0..(n - 1) :
          before[list[j + 1]] = Had(j, s, i, c) - (IF j = s THEN c0 ELSE 0) + m
  BY <1>1 DEF GoesRound
<1>6. /\ x \in 0..(n - 1) /\ y \in 0..StickyLimit
      /\ \E lift \in Int : \A j \in 0..(n - 1) :
           Had(j, s, x, y) + lift = Had(j, s, i, c) + (IF j = x THEN 1 ELSE 0)
  <2>1. Place(n, s, i, c) /\ OneTurn(n, i, c, x, y)
    BY <1>0, <1>4 DEF Place, OneTurn
  <2> HIDE DEF n
  <2> QED BY <2>1, RoundStep
<1>7. PICK lift \in Int : \A j \in 0..(n - 1) :
        Had(j, s, x, y) + lift = Had(j, s, i, c) + (IF j = x THEN 1 ELSE 0)
  BY <1>6
<1> DEFINE key == list[x + 1]
           after == [before EXCEPT ![key] = @ + 1]
           fewest == Min({after[k] : k \in Range(list)})
           taken == [k \in KeyIds |-> IF k \in Range(list) THEN after[k] - fewest ELSE 0]
<1>8. key \in KeyIds /\ key \in Range(list)
  <2>1. x + 1 \in 1..n
    BY <1>0, <1>6
  <2> QED BY <1>0, <2>1 DEF Range
<1>9. turns' = [list |-> list, taken |-> taken]
  <2> DEFINE start == IF turns.list = list THEN turns ELSE [NoTurns EXCEPT !.list = list]
  <2>1. start.taken = before
    BY <1>1 DEF NoTurns
  <2>2. list[rotation'.index + 1] = key
    BY <1>4
  <2>3. Taken(list, key) =
          LET new == [start.taken EXCEPT ![key] = @ + 1]
          IN  [list |-> list,
               taken |-> [j \in KeyIds |-> IF j \in Range(list)
                                           THEN new[j] - Min({new[h] : h \in Range(list)}) ELSE 0]]
    BY DEF Taken
  <2> HIDE DEF start, key
  <2> QED BY <2>1, <2>2, <2>3
<1>10. after \in [KeyIds -> Nat] /\ \A j \in 0..(n - 1) :
          after[list[j + 1]] = before[list[j + 1]] + (IF j = x THEN 1 ELSE 0)
  <2>1. after \in [KeyIds -> Nat]
    BY <1>8
  <2>2. ASSUME NEW j \in 0..(n - 1)
        PROVE  after[list[j + 1]] = before[list[j + 1]] + (IF j = x THEN 1 ELSE 0)
    <3>1. list[j + 1] \in KeyIds /\ j + 1 \in 1..n /\ x + 1 \in 1..n
      BY <1>0, <1>6
    <3>2. list[j + 1] = key <=> j = x
      BY <1>0, <1>6, <3>1 DEF Distinct
    <3> QED BY <3>1, <3>2, <1>8
  <2> QED BY <2>1, <2>2
<1>11. \A k \in Range(list) : k \in KeyIds /\ \E j \in 0..(n - 1) : k = list[j + 1]
  <2> SUFFICES ASSUME NEW k \in Range(list) PROVE k \in KeyIds /\ \E j \in 0..(n - 1) : k = list[j + 1]
    OBVIOUS
  <2>1. PICK q \in 1..n : k = list[q]
    BY DEF Range
  <2>2. q - 1 \in 0..(n - 1) /\ (q - 1) + 1 = q
    BY <1>0
  <2> QED BY <1>0, <2>1, <2>2
<1> HIDE DEF after, key
<1>12. fewest \in Nat /\ (\E k \in Range(list) : after[k] = fewest) /\ \A k \in Range(list) : fewest <= after[k]
  <2> DEFINE had == {after[k] : k \in Range(list)}
  <2>1. had \in SUBSET Nat
    BY <1>10, <1>11
  <2>2. had # {}
    BY <1>8
  <2>3. Min(had) \in had /\ \A h \in had : Min(had) <= h
    <3> HIDE DEF had
    <3> QED BY <2>1, <2>2, MinIs
  <2> QED BY <2>1, <2>3
<1> HIDE DEF fewest
<1>13. taken \in [KeyIds -> Nat] /\ \A k \in Range(list) : taken[k] = after[k] - fewest
  <2>1. \A k \in Range(list) : after[k] \in Nat /\ fewest <= after[k]
    BY <1>10, <1>11, <1>12
  <2>2. \A k \in Range(list) : after[k] - fewest \in Nat
    BY <1>12, <2>1
  <2> QED BY <1>11, <2>2
<1>14. \A k \in KeyIds \ Range(list) : taken[k] = 0
  OBVIOUS
<1> HIDE DEF taken
<1>15. \A j \in 0..(n - 1) : list[j + 1] \in Range(list)
  <2>1. \A j \in 0..(n - 1) : j + 1 \in 1..n
    BY <1>0
  <2> QED BY <1>0, <2>1 DEF Range
<1>16. ASSUME NEW j \in 0..(n - 1)
       PROVE  taken[list[j + 1]] = Had(j, s, x, y) - (IF j = s THEN c0 ELSE 0) + (m + lift - fewest)
  <2>1. taken[list[j + 1]] = after[list[j + 1]] - fewest
    BY <1>13, <1>15
  <2>2. after[list[j + 1]] = before[list[j + 1]] + (IF j = x THEN 1 ELSE 0)
    BY <1>10
  <2>3. before[list[j + 1]] = Had(j, s, i, c) - (IF j = s THEN c0 ELSE 0) + m
    BY <1>5
  <2>4. Had(j, s, x, y) + lift = Had(j, s, i, c) + (IF j = x THEN 1 ELSE 0)
    BY <1>7
  <2>5. Had(j, s, x, y) \in Int /\ Had(j, s, i, c) \in Int /\ fewest \in Int
    BY <1>01, <1>6, <1>12 DEF Had
  <2>6. PICK p, q, e, d :
          /\ p = Had(j, s, x, y) /\ q = Had(j, s, i, c)
          /\ e = (IF j = x THEN 1 ELSE 0) /\ d = (IF j = s THEN c0 ELSE 0)
    OBVIOUS
  <2>7. p \in Int /\ q \in Int /\ e \in Int /\ d \in Int
    BY <1>01, <2>5, <2>6
  <2>8. p + lift = q + e /\ taken[list[j + 1]] = ((q - d + m) + e) - fewest
    BY <2>1, <2>2, <2>3, <2>4, <2>6
  <2>9. taken[list[j + 1]] = p - d + (m + lift - fewest)
    BY <2>5, <2>7, <2>8
  <2> QED BY <2>6, <2>9
<1>17. GoesRound(list, taken, x, y)
  <2>1. m + lift - fewest \in Int
    BY <1>12
  <2> QED BY <1>16, <2>1 DEF GoesRound
<1>18. \E j \in 1..n : taken[list[j]] = 0
  <2>1. PICK k \in Range(list) : after[k] = fewest
    BY <1>12
  <2>2. taken[k] = 0
    BY <1>12, <1>13, <2>1
  <2>3. PICK j \in 1..n : k = list[j]
    BY DEF Range
  <2> QED BY <2>2, <2>3
<1>19. TurnInv'
  <2>1. rotation'.index = x /\ rotation'.count = y /\ turns'.list = list /\ turns'.taken = taken
    BY <1>4, <1>9
  <2>2. rotation' \in [index : Nat, count : 0..StickyLimit] /\ x < n
    BY <1>0, <1>4, <1>6
  <2>3. turns' \in [list : Seq(KeyIds), taken : [KeyIds -> Nat]]
    BY <1>9, <1>13
  <2>4. GoesRound(turns'.list, turns'.taken, rotation'.index, rotation'.count)
    BY <1>17, <2>1
  <2>5. Distinct(turns.list)'
    BY <2>1 DEF Distinct
  <2> QED BY <1>14, <1>18, <2>1, <2>2, <2>3, <2>4, <2>5 DEF TurnInv
<1> QED BY <1>4, <1>8, <1>19 DEF key

\* While their list does not change, no key is more than StickyLimit turns ahead.
LEMMA TurnBound == TurnInv => TurnsAreFair
<1> SUFFICES ASSUME TurnInv, NEW k \in KeyIds PROVE turns.taken[k] <= StickyLimit
  BY DEF TurnsAreFair
<1> DEFINE list == turns.list
           n == Len(list)
<1>1. StickyLimit \in Nat \ {0} /\ rotation.index \in Nat /\ rotation.count \in 0..StickyLimit
      /\ list \in Seq(KeyIds)
  BY KeyConstants DEF TurnInv
<1>2. CASE k \notin Range(list)
  BY <1>1, <1>2 DEF TurnInv
<1>3. CASE k \in Range(list)
  <2>1. PICK a \in 1..n : k = list[a]
    BY <1>3 DEF Range
  <2>2. n \in Nat /\ list # <<>>
    BY <1>1, <2>1
  <2>3. PICK b \in 1..n : turns.taken[list[b]] = 0
    BY <2>2 DEF TurnInv
  <2>4. PICK s \in 0..(n - 1), c0 \in 0..StickyLimit, m \in Int :
          \A j \in 0..(n - 1) : turns.taken[list[j + 1]]
                = Had(j, s, rotation.index, rotation.count) - (IF j = s THEN c0 ELSE 0) + m
    BY <2>2 DEF TurnInv, GoesRound
  <2>5. PICK i, c : i = rotation.index /\ c = rotation.count
    OBVIOUS
  <2>6. i \in Nat /\ c \in 0..StickyLimit
    BY <1>1, <2>5
  <2> DEFINE val(j) == Had(j, s, i, c) - (IF j = s THEN c0 ELSE 0) + m
  <2>7. a - 1 \in 0..(n - 1) /\ b - 1 \in 0..(n - 1) /\ (a - 1) + 1 = a /\ (b - 1) + 1 = b
    BY <2>2
  <2>8. turns.taken[k] = val(a - 1) /\ val(b - 1) = 0
    BY <2>1, <2>3, <2>4, <2>5, <2>7
  <2>9. val(a - 1) - val(b - 1) <= StickyLimit /\ val(a - 1) \in Int
    BY <1>1, <2>6, <2>7 DEF Had
  <2> HIDE DEF val
  <2> QED BY <1>1, <2>8, <2>9
<1> QED BY <1>2, <1>3

\* Fill-first takes a key of the list.
LEMMA FillFirstIs ==
  ASSUME NEW list \in Seq(KeyIds), list # <<>>
  PROVE  FillFirst(list) \in Range(list)
<1> DEFINE before(i, j) == \/ Priority[list[i]] < Priority[list[j]]
                           \/ Priority[list[i]] = Priority[list[j]] /\ i <= j
           places == DOMAIN list
           priorities == {Priority[list[i]] : i \in places}
<1>1. places \subseteq Nat /\ 1 \in places /\ \A i \in places : Priority[list[i]] \in Nat
  BY KeysAssumption
<1>2. PICK p \in priorities : \A q \in priorities : p <= q
  <2>1. priorities \in SUBSET Nat /\ priorities # {}
    BY <1>1
  <2> HIDE DEF priorities
  <2> QED BY <2>1, Smallest
<1> DEFINE best == {i \in places : Priority[list[i]] = p}
<1>3. PICK i \in best : \A j \in best : i <= j
  <2>1. best \in SUBSET Nat /\ best # {}
    BY <1>1
  <2> HIDE DEF best
  <2> QED BY <2>1, Smallest
<1>4. ASSUME NEW j \in places PROVE before(i, j)
  <2>1. p <= Priority[list[j]] /\ Priority[list[i]] = p /\ p \in Nat /\ Priority[list[j]] \in Nat
    BY <1>1, <1>2, <1>3
  <2> QED BY <1>3, <2>1
<1>5. FillFirst(list) = list[CHOOSE h \in places : \A j \in places : before(h, j)]
  BY DEF FillFirst
<1>6. \E h \in places : \A j \in places : before(h, j)
  BY <1>3, <1>4
<1> HIDE DEF before, places
<1>7. (CHOOSE h \in places : \A j \in places : before(h, j)) \in places
  BY <1>6
<1> QED BY <1>5, <1>7 DEF Range, places

\* A selection: a key that is available, or none when all of them are in cooldown.
LEMMA SelectIs ==
  ASSUME TurnInv, NEW row, NEW k, DOMAIN row.keys \subseteq KeyIds, SelectKey(row, k)
  PROVE  /\ cooldown' = cooldown /\ TurnInv'
         /\ \/ k = NoKey /\ \A x \in EnabledKeys(row) : Cooling(x)
            \/ k \in KeyIds /\ k \in EnabledKeys(row) /\ ~Cooling(k)
<1>1. PICK list : list = AvailableKeys(row)
  OBVIOUS
<1>2. /\ list \in Seq(KeyIds)
      /\ \A x \in KeyIds : (x \in EnabledKeys(row) /\ ~Cooling(x))
                             <=> \E i \in 1..Len(list) : list[i] = x
      /\ \A i, j \in 1..Len(list) : list[i] = list[j] => i = j
  BY <1>1, AvailableIs
<1>3. EnabledKeys(row) \subseteq KeyIds
  BY DEF EnabledKeys
<1>4. Distinct(list)
  BY <1>2 DEF Distinct
<1>5. /\ cooldown' = cooldown
      /\ IF list = <<>> \/ row.strategy # "round-robin"
         THEN /\ k = IF list = <<>> THEN NoKey ELSE FillFirst(list)
              /\ UNCHANGED <<rotation, turns>>
         ELSE /\ rotation' = Turn(list)
              /\ k = list[rotation'.index + 1]
              /\ turns' = Taken(list, k)
  BY <1>1 DEF SelectKey
<1>6. UNCHANGED <<rotation, turns>> => TurnInv'
  <2>1. UNCHANGED <<rotation, turns>> => (TurnInv <=> TurnInv')
    BY DEF TurnInv, GoesRound, Had, Distinct
  <2> QED BY <2>1
<1>7. ASSUME k \in Range(list) PROVE k \in KeyIds /\ k \in EnabledKeys(row) /\ ~Cooling(k)
  <2>1. \E i \in 1..Len(list) : list[i] = k
    BY <1>2, <1>7 DEF Range
  <2>2. k \in KeyIds
    BY <1>2, <2>1
  <2> QED BY <1>2, <2>1, <2>2
<1>8. CASE list = <<>>
  <2>1. \A i \in 1..Len(list) : FALSE
    BY <1>8
  <2> QED BY <1>2, <1>3, <1>5, <1>6, <1>8, <2>1
<1>9. CASE list # <<>> /\ row.strategy # "round-robin"
  <2>1. FillFirst(list) \in Range(list)
    BY <1>2, <1>9, FillFirstIs
  <2> QED BY <1>5, <1>6, <1>7, <1>9, <2>1
<1>10. CASE list # <<>> /\ row.strategy = "round-robin"
  <2>1. rotation' = Turn(list) /\ k = list[rotation'.index + 1] /\ turns' = Taken(list, list[rotation'.index + 1])
    BY <1>5, <1>10
  <2>2. TurnInv' /\ list[rotation'.index + 1] \in Range(list)
    BY <1>2, <1>4, <1>10, <2>1, TurnStep
  <2> QED BY <1>5, <1>7, <2>1, <2>2
<1> QED BY <1>8, <1>9, <1>10

(***************************************************************************)
(* Calls.  While no cooldown ended, what a call blamed stays in cooldown,  *)
(* and it never gets a key that is: so its attempts are as many different  *)
(* keys.                                                                   *)
(***************************************************************************)
RowOK(row) == DOMAIN row = {"keys", "strategy"} /\ DOMAIN row.keys \subseteq KeyIds

CallFields == {"pc", "kind", "keys", "strategy", "attempt", "used", "outcome", "disturbed"}

CallOK(q) ==
    /\ DOMAIN q = CallFields /\ DOMAIN q.keys \subseteq KeyIds /\ q.attempt \in Nat
    /\ q.pc \in {"idle", "send", "sent", "peek", "ended"}
    /\ q.pc # "ended" => q.outcome = ""
    /\ q.pc = "sent" => q.used \in EnabledKeys(q) \cup {Legacy}
    /\ q.pc = "peek" => q.kind = "chat" /\ EnabledKeys(q) # {}

Cooled(q) == {k \in EnabledKeys(q) : Cooling(k)}

Blames(q) ==
    /\ q.pc = "send" => q.attempt <= Cardinality(Cooled(q))
    /\ q.pc = "sent" => /\ q.attempt <= Cardinality(Cooled(q) \ {q.used})
                        /\ q.used = Legacy => Cooled(q) = EnabledKeys(q)
    /\ q.pc = "peek" => q.attempt + 1 <= Cardinality(Cooled(q)) \/ Cooled(q) = EnabledKeys(q)
    /\ q.outcome = "exhausted" /\ Cardinality(EnabledKeys(q)) <= MaxKeyRetries
         => Cooled(q) = EnabledKeys(q)

CallInv(q) == CallOK(q) /\ (~q.disturbed => Blames(q))

KeyInv ==
    /\ cooldown \in [KeyIds -> Nat] /\ TurnInv
    /\ RowOK(provider)
    /\ DOMAIN form = Forms /\ \A f \in Forms : DOMAIN form[f] = {"pc", "row"} /\ RowOK(form[f].row)
    /\ DOMAIN call = Calls /\ \A c \in Calls : CallInv(call[c])

LEMMA CooledFinite ==
  ASSUME NEW q, DOMAIN q.keys \subseteq KeyIds
  PROVE  /\ IsFiniteSet(EnabledKeys(q)) /\ Cardinality(EnabledKeys(q)) \in Nat
         /\ EnabledKeys(q) \subseteq KeyIds
         /\ \A S \in SUBSET EnabledKeys(q) :
              /\ IsFiniteSet(S) /\ Cardinality(S) \in Nat
              /\ Cardinality(S) <= Cardinality(EnabledKeys(q))
              /\ Cardinality(S) = Cardinality(EnabledKeys(q)) => S = EnabledKeys(q)
              /\ \A T \in SUBSET S : Cardinality(T) \in Nat /\ Cardinality(T) <= Cardinality(S)
<1>1. EnabledKeys(q) \subseteq KeyIds
  BY DEF EnabledKeys
<1>2. IsFiniteSet(EnabledKeys(q))
  BY <1>1, KeysFinite, FS_Subset
<1>3. ASSUME NEW S \in SUBSET EnabledKeys(q)
      PROVE  /\ IsFiniteSet(S) /\ Cardinality(S) \in Nat
             /\ Cardinality(S) <= Cardinality(EnabledKeys(q))
             /\ Cardinality(S) = Cardinality(EnabledKeys(q)) => S = EnabledKeys(q)
  BY <1>2, FS_Subset, FS_CardinalityType
<1>4. ASSUME NEW S \in SUBSET EnabledKeys(q), NEW T \in SUBSET S
      PROVE  Cardinality(T) \in Nat /\ Cardinality(T) <= Cardinality(S)
  BY <1>3, <1>4, FS_Subset, FS_CardinalityType
<1> QED BY <1>1, <1>2, <1>3, <1>4, FS_CardinalityType

\* More keys in cooldown break nothing.
LEMMA CallKept ==
  ASSUME NEW q, CallInv(q), \A k \in KeyIds : Cooling(k) => Cooling(k)'
  PROVE  CallInv(q)'
<1> DEFINE all == EnabledKeys(q)
           old == Cooled(q)
           new == {k \in EnabledKeys(q) : cooldown'[k] > 0}
<1>1. CallOK(q) /\ CallOK(q)'
  BY DEF CallInv, CallOK, EnabledKeys
<1>2. all \subseteq KeyIds
  BY <1>1, CooledFinite DEF CallOK
<1>3. old \in SUBSET all /\ new \in SUBSET all /\ old \subseteq new
  BY <1>2 DEF Cooled, Cooling
<1>4. Cooled(q)' = new /\ EnabledKeys(q)' = all
  BY DEF Cooled, Cooling, EnabledKeys
<1>5. /\ Cardinality(old) \in Nat /\ Cardinality(new) \in Nat
      /\ Cardinality(old) <= Cardinality(new)
      /\ Cardinality(old \ {q.used}) \in Nat /\ Cardinality(new \ {q.used}) \in Nat
      /\ Cardinality(old \ {q.used}) <= Cardinality(new \ {q.used})
  BY <1>1, <1>3, CooledFinite DEF CallOK
<1>6. q.attempt \in Nat
  BY <1>1 DEF CallOK
<1>7. ~q.disturbed => Blames(q)
  BY DEF CallInv
<1> HIDE DEF all, old, new
<1>8. ~q.disturbed => Blames(q)'
  BY <1>3, <1>4, <1>5, <1>6, <1>7 DEF Blames, old, all
<1> QED BY <1>1, <1>8 DEF CallInv

\* A call that was disturbed is held to nothing.
LEMMA CallDisturbed ==
  ASSUME NEW q, CallOK(q), DOMAIN q = CallFields
  PROVE  CallInv([q EXCEPT !.disturbed = TRUE])'
<1> DEFINE d == [q EXCEPT !.disturbed = TRUE]
<1>1. /\ DOMAIN d = CallFields /\ d.disturbed = TRUE
      /\ \A x \in CallFields \ {"disturbed"} : d[x] = q[x]
  BY DEF CallFields
<1>2. /\ d.pc = q.pc /\ d.kind = q.kind /\ d.keys = q.keys /\ d.attempt = q.attempt
      /\ d.used = q.used /\ d.outcome = q.outcome
  BY <1>1 DEF CallFields
<1> HIDE DEF d
<1>3. EnabledKeys(d) = EnabledKeys(q)
  BY <1>2 DEF EnabledKeys
<1>4. CallOK(d)
  BY <1>1, <1>2, <1>3 DEF CallOK
<1>5. CallOK(d)'
  BY <1>4 DEF CallOK, EnabledKeys
<1>6. CallInv(d)'
  BY <1>1, <1>5 DEF CallInv
<1> QED BY <1>6 DEF d

\* A call ends: only a report of exhaustion has to be right.
LEMMA CallEnds ==
  ASSUME KeyInv, NEW c \in Calls, NEW outcome,
         call' = Ended(c, outcome),
         \A k \in KeyIds : Cooling(k) => Cooling(k)',
         /\ outcome = "exhausted" /\ ~call[c].disturbed
         /\ Cardinality(EnabledKeys(call[c])) <= MaxKeyRetries
         => Cooled(call[c]) = EnabledKeys(call[c])
  PROVE  \A d \in Calls : CallInv(call[d])'
<1> USE DEF NoCallYet
<1>1. PICK q : q = call[c]
  OBVIOUS
<1>2. CallInv(q) /\ CallOK(q)
  BY <1>1 DEF KeyInv, CallInv
<1>3. ASSUME NEW d \in Calls, d # c PROVE CallInv(call[d])'
  <2>1. PICK r : r = call[d]
    OBVIOUS
  <2>2. CallInv(r)'
    BY <2>1, CallKept DEF KeyInv
  <2>3. call'[d] = r
    BY <1>3, <2>1 DEF Ended, KeyInv
  <2> QED BY <2>2, <2>3
<1>4. CASE outcome = "exhausted"
  <2> DEFINE e == [pc |-> "ended", kind |-> "", keys |-> q.keys, strategy |-> "", attempt |-> 0,
                   used |-> NoKey, outcome |-> outcome, disturbed |-> q.disturbed]
  <2>1. call'[c] = e
    BY <1>1, <1>4 DEF Ended, KeyInv
  <2>2. EnabledKeys(e) = EnabledKeys(q)
    BY DEF EnabledKeys
  <2>3. CallOK(e)
    BY <1>2, <2>2 DEF CallOK, CallFields
  <2>4. ~q.disturbed => Blames(e)
    BY <1>1, <1>4, <2>2 DEF Blames, Cooled
  <2>5. e.disturbed = q.disturbed
    OBVIOUS
  <2> HIDE DEF e
  <2>6. CallInv(e)
    BY <2>3, <2>4, <2>5 DEF CallInv
  <2>7. CallInv(e)'
    BY <2>6, CallKept
  <2> QED BY <1>3, <2>1, <2>7
<1>5. CASE outcome # "exhausted"
  <2> DEFINE e == [pc |-> "ended", kind |-> "", keys |-> <<>>, strategy |-> "", attempt |-> 0,
                   used |-> NoKey, outcome |-> "", disturbed |-> FALSE]
  <2>1. call'[c] = e
    BY <1>5 DEF Ended, KeyInv
  <2>2. CallInv(e)
    BY DEF CallInv, CallOK, CallFields, Blames
  <2> HIDE DEF e
  <2>3. CallInv(e)'
    BY <2>2, CallKept
  <2> QED BY <1>3, <2>1, <2>3
<1> QED BY <1>4, <1>5

\* A call goes on as q, and the other calls keep what they have.
LEMMA CallGoesOn ==
  ASSUME KeyInv, NEW c \in Calls, NEW q, call' = [call EXCEPT ![c] = q],
         \A k \in KeyIds : Cooling(k) => Cooling(k)', CallInv(q)'
  PROVE  \A d \in Calls : CallInv(call[d])'
<1> SUFFICES ASSUME NEW d \in Calls PROVE CallInv(call[d])'
  OBVIOUS
<1>1. CASE d = c
  <2>1. call'[d] = q
    BY <1>1 DEF KeyInv
  <2> QED BY <2>1
<1>2. CASE d # c
  <2>1. PICK r : r = call[d]
    OBVIOUS
  <2>2. CallInv(r)'
    BY <2>1, CallKept DEF KeyInv
  <2>3. call'[d] = r
    BY <1>2, <2>1 DEF KeyInv
  <2> QED BY <2>2, <2>3
<1> QED BY <1>1, <1>2

\* What the rest of KeyInv needs of a step of a call.
LEMMA CallStepKeeps ==
  ASSUME KeyInv, NEW c \in Calls, UNCHANGED <<provider, form>>,
         cooldown' \in [KeyIds -> Nat], TurnInv', DOMAIN call' = Calls,
         \A d \in Calls : CallInv(call[d])'
  PROVE  KeyInv'
BY DEF KeyInv, RowOK

LEMMA TurnsKept == TurnInv /\ UNCHANGED <<rotation, turns>> => TurnInv'
<1>1. UNCHANGED <<rotation, turns>> => (TurnInv <=> TurnInv')
  BY DEF TurnInv, GoesRound, Had, Distinct
<1> QED BY <1>1

LEMMA CoolingKept == UNCHANGED cooldown => \A k \in KeyIds : Cooling(k) => Cooling(k)'
BY DEF Cooling

LEMMA BeginCallKeeps == ASSUME KeyInv, NEW c \in Calls, BeginCall(c) PROVE KeyInv'
<1>1. PICK kind \in Kinds :
        call' = [call EXCEPT ![c] = [NoCallYet EXCEPT !.pc = "send", !.kind = kind,
                                        !.keys = provider.keys, !.strategy = provider.strategy]]
  BY DEF BeginCall
<1>2. PICK keys, strategy : keys = provider.keys /\ strategy = provider.strategy
  OBVIOUS
<1> DEFINE q == [NoCallYet EXCEPT !.pc = "send", !.kind = kind, !.keys = keys, !.strategy = strategy]
<1>3. call' = [call EXCEPT ![c] = q]
  BY <1>1, <1>2
<1>4. /\ DOMAIN q = CallFields /\ q.pc = "send" /\ q.keys = keys /\ q.attempt = 0 /\ q.outcome = ""
      /\ DOMAIN keys \subseteq KeyIds
  BY <1>2 DEF KeyInv, RowOK, NoCallYet, CallFields
<1> HIDE DEF q
<1>5. CallOK(q)
  <2>0. 0 \in Nat /\ q.attempt = 0 /\ q.keys = keys /\ DOMAIN keys \subseteq KeyIds
    BY <1>4
  <2>1. q.attempt \in Nat /\ DOMAIN q.keys \subseteq KeyIds
    <3>1. q.attempt \in Nat
      BY <2>0
    <3>2. DOMAIN q.keys \subseteq KeyIds
      BY <2>0, Zenon
    <3> QED BY <3>1, <3>2
  <2>2. q.pc # "sent" /\ q.pc # "peek" /\ q.pc \in {"idle", "send", "sent", "peek", "ended"}
    BY <1>4
  <2> QED BY <1>4, <2>1, <2>2 DEF CallOK
<1>6. 0 <= Cardinality(Cooled(q))
  <2>1. Cooled(q) \in SUBSET EnabledKeys(q)
    BY DEF Cooled
  <2>2. Cardinality(Cooled(q)) \in Nat
    BY <1>4, <2>1, CooledFinite
  <2> QED BY <2>2
<1>7. Blames(q)
  BY <1>4, <1>6 DEF Blames
<1>8. CallInv(q)'
  <2>1. CallInv(q)
    BY <1>5, <1>7 DEF CallInv
  <2>2. \A k \in KeyIds : Cooling(k) => Cooling(k)'
    BY CoolingKept DEF BeginCall
  <2> QED BY <2>1, <2>2, CallKept
<1> QED BY <1>3, <1>8, CallGoesOn, CallStepKeeps, TurnsKept, CoolingKept DEF BeginCall, KeyInv

\* A call that ends and leaves the pool alone.
LEMMA EndKeeps ==
  ASSUME KeyInv, NEW c \in Calls, NEW outcome, outcome # "exhausted", call' = Ended(c, outcome),
         UNCHANGED <<provider, cooldown, form>>, TurnInv'
  PROVE  KeyInv'
<1>1. \A d \in Calls : CallInv(call[d])'
  BY CallEnds, CoolingKept
<1>2. DOMAIN call' = Calls
  BY DEF Ended, KeyInv
<1> QED BY <1>1, <1>2, CallStepKeeps DEF KeyInv

LEMMA SendKeeps == ASSUME KeyInv, NEW c \in Calls, Send(c) PROVE KeyInv'
<1>1. PICK k \in KeyIds \cup {NoKey} :
        /\ SelectKey(call[c], k)
        /\ call' = IF k = NoKey /\ ~HasLegacy
                   THEN Ended(c, "error")
                   ELSE [call EXCEPT ![c].pc = "sent", ![c].used = IF k = NoKey THEN Legacy ELSE k]
  BY DEF Send
<1>2. PICK q : q = call[c]
  OBVIOUS
<1>3. CallInv(q) /\ CallOK(q) /\ q.pc = "send" /\ DOMAIN q.keys \subseteq KeyIds
  BY <1>2 DEF KeyInv, CallInv, CallOK, Send
<1>4. /\ cooldown' = cooldown /\ TurnInv'
      /\ \/ k = NoKey /\ \A x \in EnabledKeys(q) : Cooling(x)
         \/ k \in KeyIds /\ k \in EnabledKeys(q) /\ ~Cooling(k)
  BY <1>1, <1>2, <1>3, SelectIs DEF KeyInv
<1>5. CASE k = NoKey /\ ~HasLegacy
  BY <1>1, <1>4, <1>5, EndKeeps DEF Send
<1>6. CASE ~(k = NoKey /\ ~HasLegacy)
  <2> DEFINE used == IF k = NoKey THEN Legacy ELSE k
             n == [q EXCEPT !.pc = "sent", !.used = used]
  <2>1. call' = [call EXCEPT ![c] = n]
    BY <1>1, <1>2, <1>6 DEF KeyInv
  <2>2. /\ DOMAIN n = CallFields /\ n.pc = "sent" /\ n.kind = q.kind /\ n.keys = q.keys
        /\ n.attempt = q.attempt /\ n.used = used /\ n.outcome = q.outcome /\ n.disturbed = q.disturbed
    BY <1>3 DEF CallOK, CallFields
  <2> HIDE DEF n
  <2>3. EnabledKeys(n) = EnabledKeys(q) /\ Cooled(n) = Cooled(q)
    BY <2>2 DEF EnabledKeys, Cooled
  <2>4. used \in EnabledKeys(q) \cup {Legacy}
    BY <1>4
  <2>5. CallOK(n)
    BY <1>3, <2>2, <2>3, <2>4 DEF CallOK
  <2>6. Cooled(q) \ {used} = Cooled(q)
    <3>1. used \notin Cooled(q)
      <4>1. CASE k = NoKey
        <5>1. Legacy \notin EnabledKeys(q)
          BY <1>3, CooledFinite, KeyConstants
        <5> QED BY <4>1, <5>1 DEF Cooled
      <4>2. CASE k # NoKey
        BY <1>4, <4>2 DEF Cooled
      <4> QED BY <4>1, <4>2
    <3> QED BY <3>1
  <2>7. used = Legacy => Cooled(q) = EnabledKeys(q)
    <3>1. used = Legacy => k = NoKey
      BY <1>4, KeyConstants
    <3> QED BY <1>4, <3>1, KeyConstants DEF Cooled
  <2>8. ~n.disturbed => Blames(n)
    <3> SUFFICES ASSUME ~n.disturbed PROVE Blames(n)
      OBVIOUS
    <3>1. q.attempt <= Cardinality(Cooled(q)) /\ q.outcome = ""
      BY <1>3, <2>2 DEF CallInv, CallOK, Blames
    <3> QED BY <2>2, <2>3, <2>6, <2>7, <3>1 DEF Blames
  <2>9. CallInv(n)'
    <3>1. CallInv(n)
      BY <2>5, <2>8 DEF CallInv
    <3> QED BY <1>4, <3>1, CallKept, CoolingKept
  <2> QED BY <1>4, <2>1, <2>9, CallGoesOn, CallStepKeeps, CoolingKept DEF Send, KeyInv
<1> QED BY <1>5, <1>6

LEMMA KeyBlamedKeeps == ASSUME KeyInv, NEW c \in Calls, KeyBlamed(c) PROVE KeyInv'
<1>1. PICK q : q = call[c]
  OBVIOUS
<1>2. /\ CallInv(q) /\ CallOK(q) /\ q.pc = "sent" /\ DOMAIN q.keys \subseteq KeyIds
      /\ q.kind = "chat" /\ EnabledKeys(q) # {}
  BY <1>1 DEF KeyInv, CallInv, CallOK, KeyBlamed, RetriesKeys
<1>3. PICK status \in DOMAIN KeyCooldowns : MarkUnavailable(q.used, status)
  BY <1>1 DEF KeyBlamed
<1>4. /\ cooldown' \in [KeyIds -> Nat]
      /\ \A k \in KeyIds : Cooling(k) => Cooling(k)'
      /\ q.used # Legacy => q.used \in KeyIds /\ cooldown'[q.used] > 0
  <2>1. CASE q.used = Legacy
    <3>1. cooldown' = cooldown
      BY <1>3, <2>1 DEF MarkUnavailable
    <3> QED BY <2>1, <3>1, CoolingKept DEF KeyInv
  <2>2. CASE q.used # Legacy
    <3>1. q.used \in KeyIds
      BY <1>2, <2>2, CooledFinite DEF CallOK
    <3>2. PICK d \in KeyCooldowns[status] : cooldown' = [cooldown EXCEPT ![q.used] = d]
      BY <1>3, <2>2 DEF MarkUnavailable
    <3>3. d \in Nat \ {0} /\ cooldown \in [KeyIds -> Nat]
      BY CooldownsAssumption DEF KeyInv
    <3> QED BY <3>1, <3>2, <3>3 DEF Cooling
  <2> QED BY <2>1, <2>2
<1> DEFINE n == [q EXCEPT !.pc = "peek", !.used = NoKey]
<1>5. call' = [call EXCEPT ![c] = n]
  BY <1>1 DEF KeyBlamed, KeyInv
<1>6. /\ DOMAIN n = CallFields /\ n.pc = "peek" /\ n.kind = q.kind /\ n.keys = q.keys
      /\ n.attempt = q.attempt /\ n.outcome = q.outcome /\ n.disturbed = q.disturbed
  BY <1>2 DEF CallOK, CallFields
<1> HIDE DEF n
<1>7. EnabledKeys(n) = EnabledKeys(q)
  BY <1>6 DEF EnabledKeys
<1>8. CallOK(n)
  BY <1>2, <1>6, <1>7 DEF CallOK
<1> DEFINE all == EnabledKeys(q)
           old == Cooled(q)
           new == {k \in EnabledKeys(q) : cooldown'[k] > 0}
<1>9. new = Cooled(n)' /\ EnabledKeys(n)' = all
  BY <1>7 DEF Cooled, Cooling, EnabledKeys
<1>10. /\ all \subseteq KeyIds /\ old \in SUBSET all /\ new \in SUBSET all /\ old \subseteq new
       /\ q.used # Legacy => q.used \in new
  <2>1. all \subseteq KeyIds
    BY <1>2, CooledFinite
  <2>2. old \subseteq new
    BY <1>4, <2>1 DEF Cooled, Cooling
  <2>3. q.used # Legacy => q.used \in new
    BY <1>2, <1>4 DEF CallOK
  <2> QED BY <2>1, <2>2, <2>3 DEF Cooled
<1> HIDE DEF all, old, new
<1>11. ~n.disturbed => Blames(n)'
  <2> SUFFICES ASSUME ~n.disturbed PROVE Blames(n)'
    OBVIOUS
  <2>1. /\ q.attempt <= Cardinality(old \ {q.used}) /\ (q.used = Legacy => old = all)
        /\ q.outcome = "" /\ q.attempt \in Nat
    BY <1>2, <1>6 DEF CallInv, CallOK, Blames, old, all
  <2>2. q.attempt + 1 <= Cardinality(new) \/ new = all
    <3>1. CASE q.used = Legacy
      BY <1>10, <2>1, <3>1
    <3>2. CASE q.used # Legacy
      <4>1. /\ IsFiniteSet(new) /\ Cardinality(new) \in Nat
            /\ \A T \in SUBSET new : Cardinality(T) \in Nat /\ Cardinality(T) <= Cardinality(new)
        BY <1>2, <1>10, CooledFinite DEF all
      <4>2. /\ IsFiniteSet(new \ {q.used}) /\ Cardinality(new \ {q.used}) = Cardinality(new) - 1
        <5>1. q.used \in new
          BY <1>10, <3>2
        <5> QED BY <4>1, <5>1, FS_RemoveElement, FS_Subset
      <4>3. Cardinality(old \ {q.used}) \in Nat /\ Cardinality(old \ {q.used}) <= Cardinality(new \ {q.used})
        <5>1. old \ {q.used} \subseteq new \ {q.used}
          BY <1>10
        <5> QED BY <4>2, <5>1, FS_Subset, FS_CardinalityType
      <4>4. PICK x, y, z, a : /\ x = Cardinality(new) /\ y = Cardinality(old \ {q.used})
                              /\ z = Cardinality(new \ {q.used}) /\ a = q.attempt
        OBVIOUS
      <4>5. x \in Nat /\ y \in Nat /\ a \in Nat /\ z = x - 1 /\ y <= z /\ a <= y
        BY <2>1, <4>1, <4>2, <4>3, <4>4
      <4>6. a + 1 <= x
        BY <4>5
      <4> QED BY <4>4, <4>6
    <3> QED BY <3>1, <3>2
  <2> QED BY <1>6, <1>9, <2>1, <2>2 DEF Blames
<1>12. CallInv(n)'
  <2>1. CallOK(n)'
    BY <1>8 DEF CallOK, EnabledKeys
  <2> QED BY <1>11, <2>1 DEF CallInv
<1>13. \A d \in Calls : CallInv(call[d])'
  BY <1>4, <1>5, <1>12, CallGoesOn
<1> QED BY <1>4, <1>5, <1>13, CallStepKeeps, TurnsKept DEF KeyBlamed, KeyInv

LEMMA PeekKeeps == ASSUME KeyInv, NEW c \in Calls, Peek(c) PROVE KeyInv'
<1>1. PICK k \in KeyIds \cup {NoKey} :
        /\ SelectKey(call[c], k)
        /\ call' = IF k = NoKey \/ call[c].attempt + 1 >= AttemptBound(c)
                   THEN Ended(c, "exhausted")
                   ELSE [call EXCEPT ![c].pc = "send", ![c].attempt = @ + 1]
  BY DEF Peek
<1>2. PICK q : q = call[c]
  OBVIOUS
<1>3. /\ CallInv(q) /\ CallOK(q) /\ q.pc = "peek" /\ DOMAIN q.keys \subseteq KeyIds
      /\ q.kind = "chat" /\ EnabledKeys(q) # {} /\ q.attempt \in Nat
  BY <1>2 DEF KeyInv, CallInv, CallOK, Peek
<1>4. /\ cooldown' = cooldown /\ TurnInv'
      /\ \/ k = NoKey /\ \A x \in EnabledKeys(q) : Cooling(x)
         \/ k \in KeyIds /\ k \in EnabledKeys(q) /\ ~Cooling(k)
  BY <1>1, <1>2, <1>3, SelectIs DEF KeyInv
<1>5. Cooled(q) \in SUBSET EnabledKeys(q)
  BY DEF Cooled
<1>6. /\ Cardinality(EnabledKeys(q)) \in Nat /\ Cardinality(EnabledKeys(q)) # 0
      /\ Cardinality(Cooled(q)) \in Nat /\ Cardinality(Cooled(q)) <= Cardinality(EnabledKeys(q))
      /\ Cardinality(Cooled(q)) = Cardinality(EnabledKeys(q)) => Cooled(q) = EnabledKeys(q)
  BY <1>3, <1>5, CooledFinite, FS_EmptySet
<1>7. ~q.disturbed =>
        q.attempt + 1 <= Cardinality(Cooled(q)) \/ Cooled(q) = EnabledKeys(q)
  BY <1>3 DEF CallInv, Blames
<1>8. CASE k = NoKey \/ q.attempt + 1 >= AttemptBound(c)
  <2>1. call' = Ended(c, "exhausted")
    BY <1>1, <1>2, <1>8
  <2>2. ASSUME ~q.disturbed, Cardinality(EnabledKeys(q)) <= MaxKeyRetries
        PROVE  Cooled(q) = EnabledKeys(q)
    <3>1. CASE k = NoKey
      <4>1. \A x \in EnabledKeys(q) : Cooling(x)
        BY <1>4, <3>1, KeyConstants
      <4> QED BY <4>1 DEF Cooled
    <3>2. CASE q.attempt + 1 >= AttemptBound(c)
      <4>1. AttemptBound(c) = Cardinality(EnabledKeys(q))
        BY <1>2, <1>3, <1>6, <2>2, KeyConstants DEF AttemptBound
      <4>2. PICK x, y : x = Cardinality(EnabledKeys(q)) /\ y = Cardinality(Cooled(q))
        OBVIOUS
      <4>3. x \in Nat /\ y \in Nat /\ y <= x /\ q.attempt + 1 >= x /\ (y = x => Cooled(q) = EnabledKeys(q))
            /\ (q.attempt + 1 <= y \/ Cooled(q) = EnabledKeys(q))
        BY <1>6, <1>7, <2>2, <3>2, <4>1, <4>2
      <4> QED BY <1>3, <4>3
    <3> QED BY <1>8, <3>1, <3>2
  <2>3. \A d \in Calls : CallInv(call[d])'
    BY <1>2, <1>4, <2>1, <2>2, CallEnds, CoolingKept
  <2>4. DOMAIN call' = Calls
    BY <2>1 DEF Ended, KeyInv
  <2> QED BY <1>4, <2>3, <2>4, CallStepKeeps DEF Peek, KeyInv
<1>9. CASE ~(k = NoKey \/ q.attempt + 1 >= AttemptBound(c))
  <2> DEFINE n == [q EXCEPT !.pc = "send", !.attempt = @ + 1]
  <2>1. call' = [call EXCEPT ![c] = n]
    BY <1>1, <1>2, <1>9 DEF KeyInv
  <2>2. /\ DOMAIN n = CallFields /\ n.pc = "send" /\ n.kind = q.kind /\ n.keys = q.keys
        /\ n.attempt = q.attempt + 1 /\ n.outcome = q.outcome /\ n.disturbed = q.disturbed
    BY <1>3 DEF CallOK, CallFields
  <2> HIDE DEF n
  <2>3. EnabledKeys(n) = EnabledKeys(q) /\ Cooled(n) = Cooled(q)
    BY <2>2 DEF EnabledKeys, Cooled
  <2>4. CallOK(n)
    <3>1. q.outcome = ""
      BY <1>3 DEF CallOK
    <3>2. n.attempt \in Nat
      BY <1>3, <2>2
    <3> QED BY <1>3, <2>2, <3>1, <3>2 DEF CallOK
  <2>5. Cooled(q) # EnabledKeys(q)
    BY <1>4, <1>9 DEF Cooled
  <2>6. ~n.disturbed => Blames(n)
    <3>1. q.outcome = ""
      BY <1>3 DEF CallOK
    <3> QED BY <1>7, <2>2, <2>3, <2>5, <3>1 DEF Blames
  <2>7. CallInv(n)'
    <3>1. CallInv(n)
      BY <2>4, <2>6 DEF CallInv
    <3> QED BY <1>4, <3>1, CallKept, CoolingKept
  <2> QED BY <1>4, <2>1, <2>7, CallGoesOn, CallStepKeeps, CoolingKept DEF Peek, KeyInv
<1> QED BY <1>8, <1>9

\* The forms.  A row keeps its shape, whatever is saved.
LEMMA FormSavesRow ==
  ASSUME NEW row, RowOK(row),
         NEW saved \in UNION {WithKeys(row), WithEdit(row), WithoutKey(row), WithStrategy(row)}
  PROVE  RowOK(NormalizeProvider(saved))
<1>1. RowOK(saved)
  <2>1. CASE saved \in WithKeys(row)
    <3>1. PICK new \in SUBSET (KeyIds \ DOMAIN row.keys) :
            saved = [row EXCEPT !.keys = [k \in DOMAIN row.keys \cup new |-> k \in new \/ row.keys[k]]]
      BY <2>1 DEF WithKeys
    <3> QED BY <3>1 DEF RowOK
  <2>2. CASE saved \in WithEdit(row)
    BY <2>2 DEF WithEdit, RowOK
  <2>3. CASE saved \in WithoutKey(row)
    <3>1. PICK gone \in KeyIds :
            saved = [row EXCEPT !.keys = [k \in DOMAIN row.keys \ {gone} |-> row.keys[k]]]
      BY <2>3 DEF WithoutKey
    <3> QED BY <3>1 DEF RowOK
  <2>4. CASE saved \in WithStrategy(row)
    BY <2>4 DEF WithStrategy, RowOK
  <2> QED BY <2>1, <2>2, <2>3, <2>4
<1> QED BY <1>1, KeyConstants DEF NormalizeProvider, RowOK

\* What a step of a form or the clock does to the calls.
LEMMA AllDisturbed ==
  ASSUME KeyInv, call' = [c \in Calls |-> [call[c] EXCEPT !.disturbed = TRUE]]
  PROVE  DOMAIN call' = Calls /\ \A d \in Calls : CallInv(call[d])'
<1> SUFFICES ASSUME NEW d \in Calls PROVE CallInv(call[d])'
  OBVIOUS
<1>1. PICK q : q = call[d]
  OBVIOUS
<1>2. CallOK(q) /\ DOMAIN q = CallFields
  BY <1>1 DEF KeyInv, CallInv, CallOK
<1>3. CallInv([q EXCEPT !.disturbed = TRUE])'
  BY <1>2, CallDisturbed
<1>4. PICK r : r = [q EXCEPT !.disturbed = TRUE]
  OBVIOUS
<1>5. CallInv(r)'
  BY <1>3, <1>4
<1>6. call'[d] = r
  BY <1>1, <1>4
<1> QED BY <1>5, <1>6

LEMMA NoFormIs ==
  ASSUME NEW pc
  PROVE  DOMAIN NoForm(pc) = {"pc", "row"} /\ RowOK(NoForm(pc).row)
BY DEF NoForm, RowOK

LEMMA CallsUnchanged ==
  ASSUME KeyInv, UNCHANGED <<call, cooldown>> PROVE DOMAIN call' = Calls /\ \A d \in Calls : CallInv(call[d])'
<1> SUFFICES ASSUME NEW d \in Calls PROVE CallInv(call[d])'
  BY DEF KeyInv
<1>1. PICK q : q = call[d]
  OBVIOUS
<1>2. CallInv(q)'
  BY <1>1, CallKept, CoolingKept DEF KeyInv
<1>3. call'[d] = q
  BY <1>1
<1> QED BY <1>2, <1>3

LEMMA FormStep ==
  ASSUME KeyInv, NEW f \in Forms, FormLoads(f) \/ FormSaves(f) \/ FormFails(f) \/ ClearCooldowns(f)
  PROVE  KeyInv'
<1>1. CASE FormLoads(f)
  <2>1. RowOK(provider)'
    BY <1>1 DEF FormLoads, KeyInv, RowOK
  <2>2. DOMAIN form' = Forms /\ \A g \in Forms : DOMAIN form'[g] = {"pc", "row"} /\ RowOK(form'[g].row)
    BY <1>1 DEF FormLoads, KeyInv
  <2> QED BY <1>1, <2>1, <2>2, CallsUnchanged, TurnsKept DEF FormLoads, KeyInv
<1>2. CASE FormSaves(f)
  <2>1. PICK row : row = form[f].row
    OBVIOUS
  <2>2. PICK saved \in UNION {WithKeys(row), WithEdit(row), WithoutKey(row), WithStrategy(row)} :
          provider' = NormalizeProvider(saved)
    BY <1>2, <2>1 DEF FormSaves
  <2>3. RowOK(provider')
    BY <2>1, <2>2, FormSavesRow DEF KeyInv
  <2>4. DOMAIN form' = Forms /\ \A g \in Forms : DOMAIN form'[g] = {"pc", "row"} /\ RowOK(form'[g].row)
    BY <1>2, NoFormIs DEF FormSaves, KeyInv
  <2> QED BY <1>2, <2>3, <2>4, CallsUnchanged, TurnsKept DEF FormSaves, KeyInv
<1>3. CASE FormFails(f)
  <2>1. RowOK(provider)'
    BY <1>3 DEF FormFails, KeyInv, RowOK
  <2>2. DOMAIN form' = Forms /\ \A g \in Forms : DOMAIN form'[g] = {"pc", "row"} /\ RowOK(form'[g].row)
    BY <1>3, NoFormIs DEF FormFails, KeyInv
  <2> QED BY <1>3, <2>1, <2>2, CallsUnchanged, TurnsKept DEF FormFails, KeyInv
<1>4. CASE ClearCooldowns(f)
  <2>1. RowOK(provider)'
    BY <1>4 DEF ClearCooldowns, KeyInv, RowOK
  <2>2. DOMAIN form' = Forms /\ \A g \in Forms : DOMAIN form'[g] = {"pc", "row"} /\ RowOK(form'[g].row)
    BY <1>4, NoFormIs DEF ClearCooldowns, KeyInv
  <2>3. (rotation = NoRotation /\ turns = NoTurns => TurnInv)'
    BY TurnsStart, PTL
  <2>4. TurnInv'
    BY <1>4, <2>3 DEF ClearCooldowns, NoRotation, NoTurns
  <2>5. cooldown' \in [KeyIds -> Nat]
    BY <1>4 DEF ClearCooldowns
  <2> QED BY <1>4, <2>1, <2>2, <2>4, <2>5, AllDisturbed DEF ClearCooldowns, KeyInv
<1> QED BY <1>1, <1>2, <1>3, <1>4

LEMMA KeyTickKeeps == KeyInv /\ KeyTick => KeyInv'
<1> SUFFICES ASSUME KeyInv, KeyTick PROVE KeyInv'
  OBVIOUS
<1>1. cooldown' \in [KeyIds -> Nat]
  BY DEF KeyTick, KeyInv, Cooling
<1>2. RowOK(provider)' /\ DOMAIN form' = Forms
      /\ \A g \in Forms : DOMAIN form'[g] = {"pc", "row"} /\ RowOK(form'[g].row)
  BY DEF KeyTick, KeyInv, RowOK
<1> QED BY <1>1, <1>2, AllDisturbed, TurnsKept DEF KeyTick, KeyInv

LEMMA KeyInit1 == KeyInit => KeyInv
<1> SUFFICES ASSUME KeyInit PROVE KeyInv
  OBVIOUS
<1>1. cooldown \in [KeyIds -> Nat] /\ RowOK(provider)
  BY DEF KeyInit, RowOK
<1>2. DOMAIN form = Forms /\ \A f \in Forms : DOMAIN form[f] = {"pc", "row"} /\ RowOK(form[f].row)
  BY NoFormIs DEF KeyInit
<1>3. CallInv(NoCallYet)
  BY DEF NoCallYet, CallInv, CallOK, CallFields, Blames
<1> QED BY <1>1, <1>2, <1>3, TurnsStart DEF KeyInit, KeyInv

LEMMA KeyInvHolds == KeySpec => []KeyInv
<1>1. KeyInv /\ [KeyNext]_keyVars => KeyInv'
  <2> SUFFICES ASSUME KeyInv, [KeyNext]_keyVars PROVE KeyInv'
    OBVIOUS
  <2>1. ASSUME NEW c \in Calls, BeginCall(c) PROVE KeyInv'
    BY <2>1, BeginCallKeeps
  <2>2. ASSUME NEW c \in Calls, Send(c) PROVE KeyInv'
    BY <2>2, SendKeeps
  <2>3. ASSUME NEW c \in Calls, SendFails(c) PROVE KeyInv'
    BY <2>3, EndKeeps, TurnsKept DEF SendFails, KeyInv
  <2>4. ASSUME NEW c \in Calls, Answered(c) PROVE KeyInv'
    BY <2>4, EndKeeps, TurnsKept DEF Answered, KeyInv
  <2>5. ASSUME NEW c \in Calls, KeyBlamed(c) PROVE KeyInv'
    BY <2>5, KeyBlamedKeeps
  <2>6. ASSUME NEW c \in Calls, Peek(c) PROVE KeyInv'
    BY <2>6, PeekKeeps
  <2>7. ASSUME NEW f \in Forms, FormLoads(f) \/ FormSaves(f) \/ FormFails(f) \/ ClearCooldowns(f)
        PROVE  KeyInv'
    BY <2>7, FormStep
  <2>8. CASE KeyTick
    BY <2>8, KeyTickKeeps
  <2>9. CASE UNCHANGED keyVars
    BY <2>9, CallsUnchanged, TurnsKept DEF keyVars, KeyInv, RowOK
  <2> QED BY <2>1, <2>2, <2>3, <2>4, <2>5, <2>6, <2>7, <2>8, <2>9 DEF KeyNext
<1> QED BY <1>1, KeyInit1, PTL DEF KeySpec

\* A call that reports its keys exhausted is right about it, whatever the other calls and
\* the forms did in between (key_retry.go).
THEOREM ExhaustionIsTrue == KeySpec => []ExhaustedIsTrue
<1>1. KeyInv => ExhaustedIsTrue
  <2> SUFFICES ASSUME KeyInv, NEW c \in Calls, call[c].outcome = "exhausted", ~call[c].disturbed,
                      Cardinality(EnabledKeys(call[c])) <= MaxKeyRetries,
                      NEW k \in EnabledKeys(call[c])
               PROVE  Cooling(k)
    BY DEF ExhaustedIsTrue
  <2>1. Cooled(call[c]) = EnabledKeys(call[c])
    BY DEF KeyInv, CallInv, Blames
  <2> QED BY <2>1 DEF Cooled
<1> QED BY <1>1, KeyInvHolds, PTL

\* The rotation is fair: while their list does not change, no available key is more than
\* StickyLimit turns ahead of another (key_pool.go, selectRoundRobin).
THEOREM TurnsStayFair == KeySpec => []TurnsAreFair
<1>1. KeyInv => TurnsAreFair
  BY TurnBound DEF KeyInv
<1> QED BY <1>1, KeyInvHolds, PTL

--------------------------------------------------------------------------------
(***************************************************************************)
(* A streamed answer.                                                      *)
(***************************************************************************)
StreamSpec == StreamInit /\ [][StreamNext]_streamVars

\* While a stream is open, the usage known is the last report of the upstream: so
\* nothing is estimated but what that report leaves out, or all when there is none.
UpstreamFields == {"sent", "started", "done", "unseen", "interleaved", "indexed", "texts", "reported"}

BillInv ==
    /\ phase \in {"open", "waiting"} => usage = upstream.reported /\ upstream.reported \in Reports
    /\ UpstreamFields \subseteq DOMAIN upstream
    /\ phase = "waiting" => route \in {"json", "json to anthropic"}
    /\ chars \in BOOLEAN
    /\ EndedStreamIsBilled

LEMMA FinalIsBilled ==
    ASSUME NEW before, NEW textOpen, NEW report \in Reports, NEW finish, NEW output \in BOOLEAN,
           Final(before, textOpen, report, finish, output),
           phase = "open", BillInv,
           upstream'.reported = Reported(report),
           DOMAIN upstream' = DOMAIN upstream
    PROVE  BillInv'
BY DEF Final, Estimated, Reported, BillInv, EndedStreamIsBilled, Reports

\* Whatever adds neither usage nor an end.
LEMMA OthersKeepBill ==
    ASSUME BillInv, UNCHANGED <<phase, usage>>, phase = "open", chars' \in BOOLEAN,
           upstream'.reported = upstream.reported, DOMAIN upstream' = DOMAIN upstream
    PROVE  BillInv'
BY DEF BillInv, EndedStreamIsBilled

LEMMA StreamStepBills == BillInv /\ [StreamNext]_streamVars => BillInv'
<1> SUFFICES ASSUME BillInv, [StreamNext]_streamVars PROVE BillInv'
    OBVIOUS
<1>0. chars \in BOOLEAN BY DEF BillInv
<1>1. CASE Text
  <2>1. upstream' \in {upstream, SaidText} BY <1>1 DEF Text
  <2>2. upstream'.reported = upstream.reported /\ DOMAIN upstream' = DOMAIN upstream
        BY <2>1 DEF SaidText, BillInv, UpstreamFields
  <2> QED BY <1>1, <2>2, OthersKeepBill DEF Text
<1>2. CASE UsageChunk
  <2> PICK report \in Reports \ {{}} :
        usage' = Reported(report) /\ upstream' = [upstream EXCEPT !.reported = report]
      BY <1>2 DEF UsageChunk
  <2>1. upstream'.reported = report /\ DOMAIN upstream' = DOMAIN upstream
        BY DEF BillInv, UpstreamFields
  <2>2. phase' = "open" /\ usage' = report /\ chars' = chars
        BY <1>2 DEF UsageChunk, BillInv, Reported
  <2> QED BY <2>1, <2>2 DEF BillInv, EndedStreamIsBilled
<1>3. CASE Finish
  <2> PICK report \in Reports, finish \in Finishes :
        /\ Final(<<>>, text, report, finish, chars)
        /\ upstream' = [upstream EXCEPT !.reported = Reported(report)]
      BY <1>3 DEF Finish
  <2>1. phase = "open" BY <1>3 DEF Finish
  <2>2. upstream'.reported = Reported(report) /\ DOMAIN upstream' = DOMAIN upstream
        BY DEF BillInv, UpstreamFields
  <2> QED BY <1>0, <2>1, <2>2, FinalIsBilled
<1>4. CASE UpstreamError
  <2>1. PICK report, before, textOpen, said :
           /\ report \in Reports /\ Final(before, textOpen, report, "stop", chars)
           /\ said \in {upstream, SaidText} /\ upstream' = [said EXCEPT !.reported = Reported(report)]
        BY <1>4 DEF UpstreamError
  <2>2. DOMAIN said = DOMAIN upstream BY <2>1 DEF SaidText
  <2>3. upstream'.reported = Reported(report) /\ DOMAIN upstream' = DOMAIN upstream
        BY <2>1, <2>2 DEF BillInv, UpstreamFields
  <2>4. phase = "open" BY <1>4 DEF UpstreamError
  <2> QED BY <1>0, <2>1, <2>3, <2>4, FinalIsBilled
<1>5. CASE Eof
  <2>1. phase = "open" /\ upstream' = upstream /\ {} \in Reports BY <1>5 DEF Eof, Reports
  <2>2. Final(<<>>, text, {}, "stop", chars) BY <1>5 DEF Eof
  <2>3. upstream'.reported = Reported({}) /\ DOMAIN upstream' = DOMAIN upstream BY <2>1 DEF BillInv, Reported
  <2> QED BY <1>0, <2>1, <2>2, <2>3, FinalIsBilled
<1>6. CASE Cut BY <1>6 DEF Cut, BillInv, EndedStreamIsBilled
<1>7. ASSUME NEW t \in Tools, ToolStart(t) PROVE BillInv'
  <2>1. upstream'.reported = upstream.reported /\ DOMAIN upstream' = DOMAIN upstream
        BY <1>7 DEF ToolStart, BillInv, UpstreamFields
  <2> QED BY <1>0, <1>7, <2>1, OthersKeepBill DEF ToolStart
<1>8. ASSUME NEW t \in Tools, ToolArguments(t) PROVE BillInv'
  <2>1. upstream'.reported = upstream.reported /\ DOMAIN upstream' = DOMAIN upstream
        BY <1>8 DEF ToolArguments, BillInv, UpstreamFields
  <2> QED BY <1>0, <1>8, <2>1, OthersKeepBill DEF ToolArguments
<1>9. ASSUME NEW t \in Tools, ToolDone(t) PROVE BillInv'
  <2>1. upstream'.reported = upstream.reported /\ DOMAIN upstream' = DOMAIN upstream
        BY <1>9 DEF ToolDone, BillInv, UpstreamFields
  <2> QED BY <1>0, <1>9, <2>1, OthersKeepBill DEF ToolDone
<1>11. CASE WholeAnswer
  <2> PICK report \in Reports, output \in BOOLEAN :
        /\ usage' = WholeUsage(report, output) /\ chars' = output
        /\ upstream' = [upstream EXCEPT !.reported = report]
      BY <1>11 DEF WholeAnswer
  <2>1. /\ upstream'.reported = report /\ DOMAIN upstream' = DOMAIN upstream
        /\ phase' \in {"ended", "cut"} /\ route' = route
        /\ route = "json" \/ route = "json to anthropic"
        BY <1>11 DEF WholeAnswer, BillInv, UpstreamFields
  <2>2. report \subseteq usage' /\ ("in" \in usage' \/ (report # {} /\ "in" \notin report))
        BY DEF WholeUsage, Estimated, Reports
  <2>3. output => "out" \in usage' \/ (route = "json to anthropic" /\ report # {})
        BY <2>1 DEF WholeUsage, Estimated
  <2> QED BY <2>1, <2>2, <2>3 DEF BillInv, EndedStreamIsBilled
<1>12. CASE WholeFails BY <1>12 DEF WholeFails, BillInv, EndedStreamIsBilled
<1>10. CASE UNCHANGED streamVars
       BY <1>10 DEF streamVars, BillInv, EndedStreamIsBilled
<1> QED BY <1>1, <1>2, <1>3, <1>4, <1>5, <1>6, <1>7, <1>8, <1>9, <1>10, <1>11, <1>12 DEF StreamNext

\* Every answer that ended is billed for all that the upstream reported last, for its
\* input unless that report left it out, and for its output if there was any, but
\* for a whole answer converted for an Anthropic client (usage.go, sse.go).
THEOREM EndedStreamsAreBilled == StreamSpec => []EndedStreamIsBilled
<1>1. StreamInit => BillInv
  <2> SUFFICES ASSUME StreamInit PROVE BillInv OBVIOUS
  <2>1. usage = {} /\ phase \in {"open", "waiting"} /\ chars = FALSE
        BY DEF StreamInit
  <2>2. PICK indexed \in BOOLEAN : upstream = NewUpstream(indexed)
        BY DEF StreamInit
  <2>3. DOMAIN upstream = UpstreamFields /\ upstream.reported = {}
        BY <2>2 DEF NewUpstream, UpstreamFields
  <2>4. upstream.reported \in Reports BY <2>3 DEF Reports
  <2>5. EndedStreamIsBilled BY <2>1 DEF EndedStreamIsBilled
  <2>6. phase = "waiting" => route \in {"json", "json to anthropic"}
        BY DEF StreamInit, Routes, Streamed
  <2> QED BY <2>1, <2>3, <2>4, <2>5, <2>6 DEF BillInv
<1>2. BillInv => EndedStreamIsBilled BY DEF BillInv
<1> QED BY <1>1, <1>2, StreamStepBills, PTL DEF StreamSpec

(***************************************************************************)
(* What the client makes of a list of events, event by event: c becomes d. *)
(***************************************************************************)
Runs(c, events, d) ==
    \E run : /\ run[0] = c /\ run[Len(events)] = d
             /\ \A i \in 1..Len(events) : run[i] = Deliver(run[i - 1], events[i])

Running(n, c, events, f) == f = [i \in 0..n |-> IF i = 0 THEN c ELSE Deliver(f[i - 1], events[i])]

LEMMA RunExists ==
  ASSUME NEW c, NEW events, NEW n \in Nat
  PROVE  \E f : Running(n, c, events, f)
<1> DEFINE Run(m, f) == f = [i \in 0..m |-> IF i = 0 THEN c ELSE Deliver(f[i - 1], events[i])]
           S == {m \in Nat : \E f : Run(m, f)}
<1>1. 0 \in S
  <2> DEFINE f == [i \in 0..0 |-> c]
  <2>1. Run(0, f)
    OBVIOUS
  <2> QED BY <2>1
<1>2. ASSUME NEW m \in S PROVE m + 1 \in S
  <2>1. PICK f : Run(m, f)
    OBVIOUS
  <2>2. m \in Nat
    OBVIOUS
  <2> DEFINE g == [i \in 0..(m + 1) |-> IF i = m + 1 THEN Deliver(f[m], events[m + 1]) ELSE f[i]]
             h == [i \in 0..(m + 1) |-> IF i = 0 THEN c ELSE Deliver(g[i - 1], events[i])]
  <2>3. \A i \in 0..m : g[i] = f[i] /\ f[i] = IF i = 0 THEN c ELSE Deliver(f[i - 1], events[i])
    BY <2>1, <2>2
  <2>4. g[m + 1] = Deliver(f[m], events[m + 1])
    BY <2>2
  <2>5. ASSUME NEW i \in 0..(m + 1) PROVE g[i] = h[i]
    <3>1. CASE i = m + 1
      <4>1. g[m] = f[m]
        BY <2>2, <2>3
      <4>2. h[i] = Deliver(g[m], events[m + 1])
        BY <2>2, <3>1
      <4> QED BY <2>4, <3>1, <4>1, <4>2
    <3>2. CASE i # m + 1
      <4>1. i \in 0..m /\ (i # 0 => i - 1 \in 0..m)
        BY <2>2, <3>2
      <4> QED BY <2>3, <4>1
    <3> QED BY <3>1, <3>2
  <2>6. DOMAIN g = 0..(m + 1) /\ DOMAIN h = 0..(m + 1)
    OBVIOUS
  <2>7. g = h
    BY <2>5, <2>6
  <2>8. Run(m + 1, g)
    BY <2>7
  <2> HIDE DEF g
  <2> QED BY <2>2, <2>8
<1> HIDE DEF S
<1>3. S = Nat
  BY <1>1, <1>2, Induction DEF S
<1> QED BY <1>3 DEF S, Running

LEMMA EmitRuns ==
  ASSUME NEW events, Len(events) \in Nat, Emit(events)
  PROVE  Runs(client, events, client')
<1> DEFINE after[i \in 0..Len(events)] == IF i = 0 THEN client ELSE Deliver(after[i - 1], events[i])
           Is(f) == f = [i \in 0..Len(events) |->
                           IF i = 0 THEN client ELSE Deliver(f[i - 1], events[i])]
<1>1. client' = after[Len(events)]
  BY DEF Emit
<1>2. \E f : Is(f)
  <2>1. PICK c, n : c = client /\ n = Len(events)
    OBVIOUS
  <2>2. \E f : Running(n, c, events, f)
    BY <2>1, RunExists
  <2> QED BY <2>1, <2>2 DEF Running
<1>3. Is(CHOOSE f : Is(f))
  <2> HIDE DEF Is
  <2> QED BY <1>2
<1>4. after = CHOOSE f : Is(f)
  OBVIOUS
<1> HIDE DEF after, Is
<1>5. Is(after)
  BY <1>3, <1>4
<1>6. PICK run, c : run = after /\ c = client
  OBVIOUS
<1>7. run = [i \in 0..Len(events) |-> IF i = 0 THEN c ELSE Deliver(run[i - 1], events[i])]
  BY <1>5, <1>6 DEF Is
<1>8. run[0] = c /\ \A i \in 1..Len(events) : run[i] = Deliver(run[i - 1], events[i])
  BY <1>7
<1> QED BY <1>1, <1>6, <1>8 DEF Runs

LEMMA RunNothing == ASSUME NEW c, NEW d, Runs(c, <<>>, d) PROVE d = c
BY DEF Runs

LEMMA RunOne == ASSUME NEW c, NEW e, NEW d, Runs(c, <<e>>, d) PROVE d = Deliver(c, e)
<1>1. PICK run : /\ run[0] = c /\ run[Len(<<e>>)] = d
                 /\ \A i \in 1..Len(<<e>>) : run[i] = Deliver(run[i - 1], <<e>>[i])
  BY DEF Runs
<1>2. Len(<<e>>) = 1 /\ <<e>>[1] = e /\ 1 \in 1..1 /\ 1 - 1 = 0
  OBVIOUS
<1>3. run[1] = Deliver(run[1 - 1], <<e>>[1])
  BY <1>1, <1>2
<1> QED BY <1>1, <1>2, <1>3

LEMMA RunAppend ==
  ASSUME NEW S, NEW s \in Seq(S), NEW e \in S, NEW c, NEW d, Runs(c, Append(s, e), d)
  PROVE  \E x : Runs(c, s, x) /\ d = Deliver(x, e)
<1> DEFINE t == Append(s, e)
<1>1. PICK run : /\ run[0] = c /\ run[Len(t)] = d
                 /\ \A i \in 1..Len(t) : run[i] = Deliver(run[i - 1], t[i])
  BY DEF Runs
<1>2. /\ Len(s) \in Nat /\ Len(t) = Len(s) + 1 /\ t[Len(s) + 1] = e
      /\ \A i \in 1..Len(s) : t[i] = s[i] /\ i \in 1..Len(t)
  OBVIOUS
<1> HIDE DEF t
<1>3. Runs(c, s, run[Len(s)])
  <2>1. \A i \in 1..Len(s) : run[i] = Deliver(run[i - 1], s[i])
    BY <1>1, <1>2
  <2> QED BY <1>1, <2>1 DEF Runs
<1>4. d = Deliver(run[Len(s)], e)
  <2>1. Len(s) + 1 \in 1..Len(t) /\ (Len(s) + 1) - 1 = Len(s)
    BY <1>2
  <2> QED BY <1>1, <1>2, <2>1
<1> QED BY <1>3, <1>4

LEMMA RunConcat ==
  ASSUME NEW S, NEW s \in Seq(S), NEW t \in Seq(S), NEW c, NEW d, Runs(c, s \o t, d)
  PROVE  \E x : Runs(c, s, x) /\ Runs(x, t, d)
<1> DEFINE u == s \o t
           n == Len(s)
<1>1. PICK run : /\ run[0] = c /\ run[Len(u)] = d
                 /\ \A i \in 1..Len(u) : run[i] = Deliver(run[i - 1], u[i])
  BY DEF Runs
<1>2. /\ n \in Nat /\ Len(t) \in Nat /\ Len(u) = n + Len(t)
      /\ \A i \in 1..n : u[i] = s[i] /\ i \in 1..Len(u)
      /\ \A i \in 1..Len(t) : u[n + i] = t[i] /\ n + i \in 1..Len(u)
  OBVIOUS
<1> HIDE DEF u
<1>3. Runs(c, s, run[n])
  <2>1. \A i \in 1..n : run[i] = Deliver(run[i - 1], s[i])
    BY <1>1, <1>2
  <2> QED BY <1>1, <2>1 DEF Runs
<1> HIDE DEF n
<1>4. Runs(run[n], t, d)
  <2> DEFINE rest == [i \in 0..Len(t) |-> run[n + i]]
  <2>1. rest[0] = run[n] /\ rest[Len(t)] = d
    BY <1>1, <1>2
  <2>2. ASSUME NEW i \in 1..Len(t) PROVE rest[i] = Deliver(rest[i - 1], t[i])
    <3>1. i - 1 \in 0..Len(t) /\ i \in 0..Len(t) /\ n + (i - 1) = (n + i) - 1
      BY <1>2
    <3>2. rest[i] = run[n + i] /\ rest[i - 1] = run[(n + i) - 1]
      BY <3>1
    <3>3. run[n + i] = Deliver(run[(n + i) - 1], u[n + i]) /\ u[n + i] = t[i]
      BY <1>1, <1>2
    <3> QED BY <3>2, <3>3
  <2> HIDE DEF rest
  <2> QED BY <2>1, <2>2 DEF Runs
<1> QED BY <1>3, <1>4

(***************************************************************************)
(* One event.                                                              *)
(***************************************************************************)
ClientFields == {"open", "got", "owner", "text", "wrong", "bad", "stops"}

Shape(c) == DOMAIN c = ClientFields /\ c.got \in [Tools -> Nat] /\ c.owner \in Seq(Tools)

\* An Anthropic message under way in which all went well.
Quiet(c) == Shape(c) /\ ~c.bad /\ c.stops = 0

\* Nothing of the tool calls changes; nor does the text block open.
SameTools(c, d) == Shape(d) /\ d.got = c.got /\ d.owner = c.owner /\ (~c.wrong => ~d.wrong)
SameCalls(c, d) == SameTools(c, d) /\ d.text = c.text

\* The text block is open, and was opened if it was not.
OpenedText(c, d) ==
    /\ SameTools(c, d)
    /\ d.text = (IF 0 \in c.open THEN c.text ELSE IF c.text = "none" THEN "opened" ELSE "reopened")

Delivered(c, type, index, tool, n, d) ==
    /\ DOMAIN d = ClientFields
    /\ d.open = (IF type = "start" THEN c.open \cup {index}
                 ELSE IF type = "stop" THEN c.open \ {index} ELSE c.open)
    /\ d.stops = (IF type = "message_stop" THEN c.stops + 1 ELSE c.stops)
    /\ d.got = [t \in Tools |-> c.got[t] + (IF type = "delta" /\ tool = t THEN n ELSE 0)]
    /\ d.owner = (IF index > 0 /\ type = "start" /\ index \notin DOMAIN c.owner
                  THEN Append(c.owner, tool) ELSE c.owner)
    /\ d.text = (IF type = "start" /\ index = 0
                 THEN (IF c.text = "none" THEN "opened" ELSE "reopened") ELSE c.text)
    /\ (/\ ~c.bad /\ ~(c.stops > 0)
        /\ type = "start" => index \notin c.open /\ index \notin DOMAIN c.owner
        /\ type \in {"delta", "stop"} => index \in c.open
        /\ type = "message_stop" => c.open = {}) => ~d.bad
    /\ (/\ ~c.wrong
        /\ index > 0 /\ type = "delta" => OwnerOf(c, index) = tool
        /\ index > 0 /\ type = "start" => index \notin DOMAIN c.owner) => ~d.wrong

LEMMA DeliverIs ==
  ASSUME NEW c, DOMAIN c = ClientFields, NEW type, NEW index, NEW tool, NEW n,
         NEW d, d = Deliver(c, Event(type, index, tool, n))
  PROVE  Delivered(c, type, index, tool, n, d)
<1> DEFINE e == Event(type, index, tool, n)
<1>1. e.type = type /\ e.index = index /\ e.tool = tool /\ e.n = n
  BY DEF Event
<1> HIDE DEF e
<1>2. d = Deliver(c, e)
  BY DEF e
<1>3. DOMAIN d = ClientFields
  BY <1>2 DEF Deliver
<1>4. d.open = (IF type = "start" THEN c.open \cup {index}
                ELSE IF type = "stop" THEN c.open \ {index} ELSE c.open)
  BY <1>1, <1>2 DEF Deliver, ClientFields
<1>5. d.stops = (IF type = "message_stop" THEN c.stops + 1 ELSE c.stops)
  BY <1>1, <1>2 DEF Deliver, ClientFields
<1>6. d.got = [t \in Tools |-> c.got[t] + (IF type = "delta" /\ tool = t THEN n ELSE 0)]
  <2>1. d.got = [t \in Tools |-> c.got[t] + (IF e.type = "delta" /\ e.tool = t THEN e.n ELSE 0)]
    BY <1>2 DEF Deliver, ClientFields
  <2> QED BY <1>1, <2>1
<1>7. d.owner = (IF index > 0 /\ type = "start" /\ index \notin DOMAIN c.owner
                 THEN Append(c.owner, tool) ELSE c.owner)
  BY <1>1, <1>2 DEF Deliver, ClientFields
<1>8. ASSUME /\ ~c.bad /\ ~(c.stops > 0)
             /\ type = "start" => index \notin c.open /\ index \notin DOMAIN c.owner
             /\ type \in {"delta", "stop"} => index \in c.open
             /\ type = "message_stop" => c.open = {}
      PROVE  ~d.bad
  BY <1>1, <1>2, <1>8 DEF Deliver, ClientFields
<1>9. ASSUME /\ ~c.wrong
             /\ index > 0 /\ type = "delta" => OwnerOf(c, index) = tool
             /\ index > 0 /\ type = "start" => index \notin DOMAIN c.owner
      PROVE  ~d.wrong
  BY <1>1, <1>2, <1>9 DEF Deliver, ClientFields
<1>10. d.text = (IF type = "start" /\ index = 0
                 THEN (IF c.text = "none" THEN "opened" ELSE "reopened") ELSE c.text)
  BY <1>1, <1>2 DEF Deliver, ClientFields
<1> QED BY <1>3, <1>4, <1>5, <1>6, <1>7, <1>8, <1>9, <1>10 DEF Delivered

\* An event that carries no arguments and starts no tool call.
LEMMA PlainIs ==
  ASSUME NEW c, Shape(c), NEW type, NEW index \in Nat, NEW d, d = Deliver(c, Event(type, index, NoTool, 0)),
         type # "start" \/ index = 0, type # "delta" \/ index = 0
  PROVE  SameTools(c, d) /\ (type # "start" => SameCalls(c, d))
<1>1. DOMAIN c = ClientFields
  BY DEF Shape
<1>0. Delivered(c, type, index, NoTool, 0, d)
  BY <1>1, DeliverIs
<1>2. /\ DOMAIN d = ClientFields
      /\ d.got = [t \in Tools |-> c.got[t] + (IF type = "delta" /\ NoTool = t THEN 0 ELSE 0)]
      /\ d.owner = (IF index > 0 /\ type = "start" /\ index \notin DOMAIN c.owner
                    THEN Append(c.owner, NoTool) ELSE c.owner)
  BY <1>1, <1>0 DEF Delivered
<1>3. d.got = c.got
  BY <1>2 DEF Shape
<1>4. d.owner = c.owner
  BY <1>2
<1>5. ASSUME ~c.wrong PROVE ~d.wrong
  BY <1>1, <1>5, <1>0 DEF Delivered
<1>6. type # "start" => d.text = c.text
  BY <1>0 DEF Delivered
<1>7. SameTools(c, d)
  BY <1>2, <1>3, <1>4, <1>5 DEF SameTools, Shape
<1> QED BY <1>6, <1>7 DEF SameCalls

LEMMA StartTextIs ==
  ASSUME NEW c, Quiet(c), 0 \notin c.open, NEW d, d = Deliver(c, StartText)
  PROVE  Quiet(d) /\ OpenedText(c, d) /\ d.open = c.open \cup {0}
<1>1. DOMAIN c = ClientFields /\ ~c.bad /\ ~(c.stops > 0) /\ Shape(c) /\ c.stops = 0
  BY DEF Quiet, Shape
<1>2. d = Deliver(c, Event("start", 0, NoTool, 0))
  BY DEF StartText
<1>0. Delivered(c, "start", 0, NoTool, 0, d)
  BY <1>1, <1>2, DeliverIs
<1>3. /\ d.open = c.open \cup {0} /\ d.stops = c.stops
      /\ d.text = (IF c.text = "none" THEN "opened" ELSE "reopened")
  BY <1>0 DEF Delivered
<1>4. SameTools(c, d)
  BY <1>1, <1>2, PlainIs
<1>5. 0 \notin DOMAIN c.owner
  <2>1. PICK o \in Seq(Tools) : o = c.owner
    BY <1>1 DEF Shape
  <2> QED BY <2>1
<1>6. ~d.bad
  BY <1>0, <1>1, <1>5 DEF Delivered
<1> QED BY <1>1, <1>3, <1>4, <1>6 DEF Quiet, SameTools, OpenedText

LEMMA TextDeltaIs ==
  ASSUME NEW c, Quiet(c), 0 \in c.open, NEW d, d = Deliver(c, TextDelta)
  PROVE  Quiet(d) /\ SameCalls(c, d) /\ d.open = c.open
<1>1. DOMAIN c = ClientFields /\ ~c.bad /\ ~(c.stops > 0) /\ Shape(c) /\ c.stops = 0
  BY DEF Quiet, Shape
<1>2. d = Deliver(c, Event("delta", 0, NoTool, 0))
  BY DEF TextDelta
<1>0. Delivered(c, "delta", 0, NoTool, 0, d)
  BY <1>1, <1>2, DeliverIs
<1>3. d.open = c.open /\ d.stops = c.stops /\ ~d.bad
  BY <1>1, <1>2, <1>0 DEF Delivered
<1>4. SameCalls(c, d)
  BY <1>1, <1>2, PlainIs
<1> QED BY <1>1, <1>3, <1>4 DEF Quiet, SameCalls, SameTools

LEMMA StopIs ==
  ASSUME NEW c, Quiet(c), NEW i \in Nat, i \in c.open, NEW d, d = Deliver(c, Stop(i))
  PROVE  Quiet(d) /\ SameCalls(c, d) /\ d.open = c.open \ {i}
<1>1. DOMAIN c = ClientFields /\ ~c.bad /\ ~(c.stops > 0) /\ Shape(c) /\ c.stops = 0
  BY DEF Quiet, Shape
<1>2. d = Deliver(c, Event("stop", i, NoTool, 0))
  BY DEF Stop
<1>0. Delivered(c, "stop", i, NoTool, 0, d)
  BY <1>1, <1>2, DeliverIs
<1>3. d.open = c.open \ {i} /\ d.stops = c.stops /\ ~d.bad
  BY <1>1, <1>2, <1>0 DEF Delivered
<1>4. SameCalls(c, d)
  BY <1>1, <1>2, PlainIs
<1> QED BY <1>1, <1>3, <1>4 DEF Quiet, SameCalls, SameTools

LEMMA MessageStopIs ==
  ASSUME NEW c, Quiet(c), c.open = {}, NEW d, d = Deliver(c, MessageStop)
  PROVE  SameCalls(c, d) /\ d.open = {} /\ d.stops = 1 /\ ~d.bad
<1>1. DOMAIN c = ClientFields /\ ~c.bad /\ ~(c.stops > 0) /\ Shape(c) /\ c.stops = 0
  BY DEF Quiet, Shape
<1>2. d = Deliver(c, Event("message_stop", 0, NoTool, 0))
  BY DEF MessageStop
<1>0. Delivered(c, "message_stop", 0, NoTool, 0, d)
  BY <1>1, <1>2, DeliverIs
<1>3. d.open = c.open /\ d.stops = c.stops + 1 /\ ~d.bad
  BY <1>1, <1>2, <1>0 DEF Delivered
<1>4. SameCalls(c, d)
  BY <1>1, <1>2, PlainIs
<1> QED BY <1>1, <1>3, <1>4

\* The start of a tool call, and its arguments: what holds for either kind of client,
\* and what an Anthropic one makes of it.
ToolStarted(c, i, t, d) ==
    /\ Shape(d) /\ d.got = c.got /\ d.text = c.text
    /\ i = Len(c.owner) + 1 => d.owner = Append(c.owner, t) /\ (~c.wrong => ~d.wrong)
    /\ Quiet(c) /\ i \notin c.open /\ i = Len(c.owner) + 1 => Quiet(d) /\ d.open = c.open \cup {i}

ToolTold(c, i, t, n, d) ==
    /\ Shape(d) /\ d.owner = c.owner /\ d.text = c.text /\ d.got = [c.got EXCEPT ![t] = @ + n]
    /\ i \in 1..Len(c.owner) /\ c.owner[i] = t => (~c.wrong => ~d.wrong)
    /\ Quiet(c) /\ i \in c.open => Quiet(d) /\ d.open = c.open

LEMMA StartToolIs ==
  ASSUME NEW c, Shape(c), NEW i \in Nat \ {0}, NEW t \in Tools, NEW d, d = Deliver(c, StartTool(i, t))
  PROVE  ToolStarted(c, i, t, d)
<1>1. DOMAIN c = ClientFields
  BY DEF Shape
<1>2. d = Deliver(c, Event("start", i, t, 0)) /\ i > 0
  BY DEF StartTool
<1>0. Delivered(c, "start", i, t, 0, d)
  BY <1>1, <1>2, DeliverIs
<1>3. /\ DOMAIN d = ClientFields
      /\ d.got = [u \in Tools |-> c.got[u] + (IF "start" = "delta" /\ t = u THEN 0 ELSE 0)]
      /\ d.owner = (IF i \notin DOMAIN c.owner THEN Append(c.owner, t) ELSE c.owner)
  BY <1>1, <1>2, <1>0 DEF Delivered
<1>4. d.got = c.got
  BY <1>3 DEF Shape
<1>5. Shape(d)
  BY <1>3, <1>4 DEF Shape
<1>6. ASSUME i = Len(c.owner) + 1 PROVE d.owner = Append(c.owner, t) /\ (~c.wrong => ~d.wrong)
  <2>1. i \notin DOMAIN c.owner
    BY <1>6 DEF Shape
  <2>2. ~c.wrong => ~d.wrong
    BY <1>1, <1>2, <2>1, <1>0 DEF Delivered
  <2> QED BY <1>3, <2>1, <2>2
<1>7. ASSUME Quiet(c), i \notin c.open, i = Len(c.owner) + 1 PROVE Quiet(d) /\ d.open = c.open \cup {i}
  <2>1. ~c.bad /\ ~(c.stops > 0) /\ c.stops = 0
    BY <1>7 DEF Quiet
  <2>3. i \notin DOMAIN c.owner
    BY <1>7 DEF Shape
  <2>2. d.open = c.open \cup {i} /\ d.stops = c.stops /\ ~d.bad
    BY <1>1, <1>2, <1>7, <2>1, <2>3, <1>0 DEF Delivered
  <2> QED BY <1>5, <2>1, <2>2 DEF Quiet
<1>8. d.text = c.text
  BY <1>0, <1>2 DEF Delivered
<1> QED BY <1>4, <1>5, <1>6, <1>7, <1>8 DEF ToolStarted

LEMMA ArgumentsAre ==
  ASSUME NEW c, Shape(c), NEW i \in Nat \ {0}, NEW t \in Tools, NEW n \in Nat,
         NEW d, d = Deliver(c, Arguments(i, t, n))
  PROVE  ToolTold(c, i, t, n, d)
<1>1. DOMAIN c = ClientFields
  BY DEF Shape
<1>2. d = Deliver(c, Event("delta", i, t, n)) /\ i > 0
  BY DEF Arguments
<1>0. Delivered(c, "delta", i, t, n, d)
  BY <1>1, <1>2, DeliverIs
<1>3. /\ DOMAIN d = ClientFields
      /\ d.got = [u \in Tools |-> c.got[u] + (IF t = u THEN n ELSE 0)]
      /\ d.owner = c.owner
  BY <1>1, <1>2, <1>0 DEF Delivered
<1>4. d.got = [c.got EXCEPT ![t] = @ + n] /\ d.got \in [Tools -> Nat]
  BY <1>3 DEF Shape
<1>5. Shape(d)
  BY <1>3, <1>4 DEF Shape
<1>6. ASSUME i \in 1..Len(c.owner), c.owner[i] = t, ~c.wrong PROVE ~d.wrong
  <2>1. OwnerOf(c, i) = t
    BY <1>6 DEF OwnerOf, Shape
  <2> QED BY <1>1, <1>2, <1>6, <2>1, <1>0 DEF Delivered
<1>7. ASSUME Quiet(c), i \in c.open PROVE Quiet(d) /\ d.open = c.open
  <2>1. ~c.bad /\ ~(c.stops > 0) /\ c.stops = 0
    BY <1>7 DEF Quiet
  <2>2. d.open = c.open /\ d.stops = c.stops /\ ~d.bad
    BY <1>1, <1>2, <1>7, <2>1, <1>0 DEF Delivered
  <2> QED BY <1>5, <2>1, <2>2 DEF Quiet
<1>8. d.text = c.text
  BY <1>0, <1>2 DEF Delivered
<1> QED BY <1>3, <1>4, <1>5, <1>6, <1>7, <1>8 DEF ToolTold

(***************************************************************************)
(* The end of a stream to an Anthropic client.                             *)
(***************************************************************************)
Events == [type : {"start", "delta", "stop", "message_stop"}, index : Nat, tool : Tools \cup {NoTool}, n : Nat]

LEMMA EventsAre ==
  /\ StartText \in Events /\ TextDelta \in Events /\ MessageStop \in Events
  /\ \A i \in Nat : Stop(i) \in Events
  /\ \A i \in Nat, t \in Tools : StartTool(i, t) \in Events
  /\ \A i \in Nat, t \in Tools, n \in Nat : Arguments(i, t, n) \in Events
BY DEF Events, StartText, TextDelta, MessageStop, Stop, StartTool, Arguments, Event

FlushedTo(n, b, q, f) ==
  f = [i \in 0..n |-> IF i = 0 THEN <<>>
                      ELSE IF q[b[i]] > 0 THEN Append(f[i - 1], Arguments(i, b[i], q[b[i]])) ELSE f[i - 1]]

LEMMA FlushedExists ==
  ASSUME NEW b, NEW q, NEW n \in Nat
  PROVE  \E f : FlushedTo(n, b, q, f)
<1> DEFINE next(s, i) == IF q[b[i]] > 0 THEN Append(s, Arguments(i, b[i], q[b[i]])) ELSE s
           Is(m, f) == f = [i \in 0..m |-> IF i = 0 THEN <<>> ELSE next(f[i - 1], i)]
           S == {m \in Nat : \E f : Is(m, f)}
<1>1. 0 \in S
  <2> DEFINE f == [i \in 0..0 |-> <<>>]
  <2>1. Is(0, f)
    OBVIOUS
  <2> QED BY <2>1
<1>2. ASSUME NEW m \in S PROVE m + 1 \in S
  <2>1. PICK f : Is(m, f)
    OBVIOUS
  <2>2. m \in Nat
    OBVIOUS
  <2> HIDE DEF next
  <2> DEFINE g == [i \in 0..(m + 1) |-> IF i = m + 1 THEN next(f[m], m + 1) ELSE f[i]]
             h == [i \in 0..(m + 1) |-> IF i = 0 THEN <<>> ELSE next(g[i - 1], i)]
  <2>3. \A i \in 0..m : g[i] = f[i] /\ f[i] = IF i = 0 THEN <<>> ELSE next(f[i - 1], i)
    BY <2>1, <2>2
  <2>4. g[m + 1] = next(f[m], m + 1)
    BY <2>2
  <2>5. ASSUME NEW i \in 0..(m + 1) PROVE g[i] = h[i]
    <3>1. CASE i = m + 1
      <4>1. g[m] = f[m]
        BY <2>2, <2>3
      <4>2. h[i] = next(g[m], m + 1)
        <5>1. i - 1 = m /\ i # 0
          BY <2>2, <3>1
        <5>2. h[i] = next(g[i - 1], i)
          BY <5>1
        <5> QED BY <3>1, <5>1, <5>2
      <4> QED BY <2>4, <3>1, <4>1, <4>2
    <3>2. CASE i # m + 1
      <4>1. i \in 0..m /\ (i # 0 => i - 1 \in 0..m)
        BY <2>2, <3>2
      <4> QED BY <2>3, <4>1
    <3> QED BY <3>1, <3>2
  <2>6. DOMAIN g = 0..(m + 1) /\ DOMAIN h = 0..(m + 1)
    OBVIOUS
  <2>7. g = h
    BY <2>5, <2>6
  <2>8. Is(m + 1, g)
    BY <2>7
  <2> HIDE DEF g, Is
  <2> QED BY <2>2, <2>8
<1> HIDE DEF S
<1>3. S = Nat
  BY <1>1, <1>2, Induction DEF S
<1> QED BY <1>3 DEF S, FlushedTo

LEMMA FlushedIs == ASSUME blocks \in Seq(Tools) PROVE \E f : FlushedTo(Len(blocks), blocks, buffer, f) /\ Flushed = f[Len(blocks)]
<1> DEFINE flushed[i \in 0..Len(blocks)] ==
             IF i = 0 THEN <<>>
             ELSE IF buffer[blocks[i]] > 0
                  THEN Append(flushed[i - 1], Arguments(i, blocks[i], buffer[blocks[i]]))
                  ELSE flushed[i - 1]
           Is(f) == f = [i \in 0..Len(blocks) |->
             IF i = 0 THEN <<>>
             ELSE IF buffer[blocks[i]] > 0
                  THEN Append(f[i - 1], Arguments(i, blocks[i], buffer[blocks[i]]))
                  ELSE f[i - 1]]
<1>1. Flushed = flushed[Len(blocks)]
  BY DEF Flushed
<1>2. \E f : Is(f)
  <2>1. PICK n, b, q : n = Len(blocks) /\ b = blocks /\ q = buffer
    OBVIOUS
  <2>2. n \in Nat
    BY <2>1
  <2>3. \E f : FlushedTo(n, b, q, f)
    BY <2>2, FlushedExists
  <2> QED BY <2>1, <2>3 DEF FlushedTo
<1>3. Is(CHOOSE f : Is(f))
  <2> HIDE DEF Is
  <2> QED BY <1>2
<1>4. flushed = CHOOSE f : Is(f)
  OBVIOUS
<1> HIDE DEF flushed, Is
<1>5. Is(flushed)
  BY <1>3, <1>4
<1>6. FlushedTo(Len(blocks), blocks, buffer, flushed)
  BY <1>5 DEF Is, FlushedTo
<1> QED BY <1>1, <1>6

\* Between c and d nothing was opened or closed.
SameBlocks(c, d) ==
    Quiet(d) /\ d.open = c.open /\ d.owner = c.owner /\ d.text = c.text /\ (~c.wrong => ~d.wrong)

\* The buffered arguments reach the blocks of their own tool calls.
Filled(b, q, c, d) ==
    /\ SameBlocks(c, d)
    /\ \A t \in Tools : d.got[t] = c.got[t] + (IF \E h \in 1..Len(b) : b[h] = t THEN q[t] ELSE 0)

LEMMA FlushRuns ==
  ASSUME NEW b \in Seq(Tools), Distinct(b), NEW q \in [Tools -> Nat],
         NEW f, FlushedTo(Len(b), b, q, f),
         NEW c, Quiet(c), c.owner = b, \A i \in 1..Len(b) : i \in c.open
  PROVE  /\ f[Len(b)] \in Seq(Events)
         /\ \A d : Runs(c, f[Len(b)], d) => Filled(b, q, c, d)
<1> DEFINE N == Len(b)
           Had1(i, t) == \E h \in 1..i : b[h] = t
           Claim(i) ==
             /\ f[i] \in Seq(Events)
             /\ \A d : Runs(c, f[i], d) =>
                  /\ SameBlocks(c, d)
                  /\ \A t \in Tools : d.got[t] = c.got[t] + (IF Had1(i, t) THEN q[t] ELSE 0)
           S == {i \in Nat : i <= N => Claim(i)}
<1>0. /\ N \in Nat /\ \A i \in 1..N : b[i] \in Tools
      /\ \A i \in 0..N : f[i] = IF i = 0 THEN <<>>
                                ELSE IF q[b[i]] > 0 THEN Append(f[i - 1], Arguments(i, b[i], q[b[i]]))
                                ELSE f[i - 1]
      /\ \A i, j \in 1..N : b[i] = b[j] => i = j
      /\ c.got \in [Tools -> Nat]
  <2>1. N \in Nat /\ \A i \in 1..N : b[i] \in Tools
    OBVIOUS
  <2>2. \A i \in 0..N : f[i] = IF i = 0 THEN <<>>
                                ELSE IF q[b[i]] > 0 THEN Append(f[i - 1], Arguments(i, b[i], q[b[i]]))
                                ELSE f[i - 1]
    BY DEF FlushedTo
  <2>3. c.got \in [Tools -> Nat]
    BY DEF Quiet, Shape
  <2> QED BY <2>1, <2>2, <2>3 DEF Distinct
<1>1. 0 \in S
  <2>1. f[0] = <<>>
    BY <1>0
  <2>2. \A d : Runs(c, f[0], d) => d = c
    BY <2>1, RunNothing
  <2>3. SameBlocks(c, c)
    BY DEF SameBlocks
  <2>4. \A t \in Tools : ~Had1(0, t) /\ c.got[t] = c.got[t] + 0
    BY <1>0
  <2>5. f[0] \in Seq(Events)
    BY <2>1
  <2> HIDE DEF Had1
  <2>6. Claim(0)
    BY <2>2, <2>3, <2>4, <2>5
  <2> QED BY <2>6
<1>2. ASSUME NEW m \in S PROVE m + 1 \in S
  <2> SUFFICES ASSUME m + 1 <= N PROVE Claim(m + 1)
    OBVIOUS
  <2>1. m \in Nat /\ m + 1 \in 1..N /\ Claim(m) /\ m + 1 \in Nat \ {0}
    BY <1>0
  <2>2. PICK t0 \in Tools : t0 = b[m + 1]
    BY <1>0, <2>1
  <2>3. f[m + 1] = IF q[t0] > 0 THEN Append(f[m], Arguments(m + 1, t0, q[t0])) ELSE f[m]
    BY <1>0, <2>1, <2>2
  <2>4. ~Had1(m, t0) /\ \A t \in Tools : Had1(m + 1, t) <=> Had1(m, t) \/ t = t0
    <3>1. ~Had1(m, t0)
      BY <1>0, <2>1, <2>2
    <3>2. \A h \in 1..(m + 1) : h \in 1..m \/ h = m + 1
      BY <2>1
    <3>3. (\A h \in 1..m : h \in 1..(m + 1)) /\ m + 1 \in 1..(m + 1)
      BY <2>1
    <3> QED BY <2>2, <3>1, <3>2, <3>3
  <2>5. q[t0] \in Nat
    OBVIOUS
  <2> HIDE DEF Had1, S
  <2>6. CASE ~(q[t0] > 0)
    <3>1. f[m + 1] = f[m] /\ q[t0] = 0
      BY <2>3, <2>5, <2>6
    <3>2. ASSUME NEW d, Runs(c, f[m], d), NEW t \in Tools
          PROVE  d.got[t] = c.got[t] + (IF Had1(m + 1, t) THEN q[t] ELSE 0)
      <4>1. d.got[t] = c.got[t] + (IF Had1(m, t) THEN q[t] ELSE 0)
        BY <2>1, <3>2
      <4> QED BY <2>4, <3>1, <4>1
    <3> QED BY <2>1, <3>1, <3>2
  <2>7. CASE q[t0] > 0
    <3> DEFINE e == Arguments(m + 1, t0, q[t0])
    <3>1. f[m + 1] = Append(f[m], e) /\ f[m] \in Seq(Events) /\ e \in Events
      BY <2>1, <2>3, <2>5, <2>7, EventsAre
    <3>2. ASSUME NEW d, Runs(c, f[m + 1], d)
          PROVE  /\ SameBlocks(c, d)
                 /\ \A t \in Tools : d.got[t] = c.got[t] + (IF Had1(m + 1, t) THEN q[t] ELSE 0)
      <4>1. PICK x : Runs(c, f[m], x) /\ d = Deliver(x, e)
        <5> HIDE DEF e
        <5> QED BY <3>1, <3>2, RunAppend
      <4>2. /\ SameBlocks(c, x)
            /\ \A t \in Tools : x.got[t] = c.got[t] + (IF Had1(m, t) THEN q[t] ELSE 0)
        BY <2>1, <4>1
      <4>3. Quiet(x) /\ Shape(x) /\ x.owner = b /\ x.owner[m + 1] = t0 /\ m + 1 \in x.open
            /\ m + 1 \in 1..Len(x.owner) /\ x.got \in [Tools -> Nat]
        BY <2>1, <2>2, <4>2 DEF SameBlocks, Quiet, Shape
      <4>4. /\ Shape(d) /\ d.owner = x.owner /\ d.text = x.text /\ d.got = [x.got EXCEPT ![t0] = @ + q[t0]]
            /\ ~x.wrong => ~d.wrong
            /\ Quiet(d) /\ d.open = x.open
        <5>1. PICK k, n : k = m + 1 /\ n = q[t0]
          OBVIOUS
        <5>2. k \in Nat \ {0} /\ n \in Nat /\ d = Deliver(x, Arguments(k, t0, n))
              /\ k \in 1..Len(x.owner) /\ x.owner[k] = t0 /\ k \in x.open
          BY <2>1, <2>5, <4>1, <4>3, <5>1
        <5>3. Shape(d) /\ d.owner = x.owner /\ d.text = x.text /\ d.got = [x.got EXCEPT ![t0] = @ + n]
              /\ (~x.wrong => ~d.wrong) /\ Quiet(d) /\ d.open = x.open
          <6>1. ToolTold(x, k, t0, n, d)
            BY <4>3, <5>2, ArgumentsAre
          <6> QED BY <4>3, <5>2, <6>1 DEF ToolTold
        <5> QED BY <5>1, <5>3
      <4>5. SameBlocks(c, d)
        BY <4>2, <4>4 DEF SameBlocks
      <4>6. ASSUME NEW t \in Tools
            PROVE  d.got[t] = c.got[t] + (IF Had1(m + 1, t) THEN q[t] ELSE 0)
        <5>1. CASE t = t0
          BY <1>0, <2>4, <2>5, <4>2, <4>3, <4>4, <5>1
        <5>2. CASE t # t0
          BY <2>4, <4>2, <4>3, <4>4, <5>2
        <5> QED BY <5>1, <5>2
      <4> QED BY <4>5, <4>6
    <3>3. f[m + 1] \in Seq(Events)
      <4> HIDE DEF e
      <4> QED BY <3>1
    <3> QED BY <3>2, <3>3
  <2> QED BY <2>6, <2>7
<1> HIDE DEF S
<1>3. S = Nat
  BY <1>1, <1>2, Induction DEF S
<1>4. Claim(N)
  <2>1. N \in S
    BY <1>0, <1>3
  <2> HIDE DEF Claim
  <2>2. N <= N => Claim(N)
    BY <2>1 DEF S
  <2> QED BY <1>0, <2>2
<1> QED BY <1>4 DEF Filled

\* All tool blocks are closed.
LEMMA StopsRun ==
  ASSUME NEW n \in Nat, NEW c, Quiet(c), \A i \in 1..n : i \in c.open
  PROVE  /\ [i \in 1..n |-> Stop(i)] \in Seq(Events)
         /\ \A d : Runs(c, [i \in 1..n |-> Stop(i)], d) =>
              Quiet(d) /\ SameCalls(c, d) /\ d.open = c.open \ (1..n)
<1> DEFINE g(m) == [i \in 1..m |-> Stop(i)]
           Claim(m) == /\ g(m) \in Seq(Events)
                       /\ \A d : Runs(c, g(m), d) =>
                            Quiet(d) /\ SameCalls(c, d) /\ d.open = c.open \ (1..m)
           S == {m \in Nat : m <= n => Claim(m)}
<1>1. 0 \in S
  <2>1. g(0) = <<>>
    OBVIOUS
  <2>2. \A d : Runs(c, g(0), d) => d = c
    BY <2>1, RunNothing
  <2>3. SameCalls(c, c) /\ Quiet(c) /\ c.open = c.open \ (1..0)
    BY DEF SameCalls, SameTools, Quiet
  <2>4. g(0) \in Seq(Events)
    BY <2>1
  <2>5. Claim(0)
    <3> HIDE DEF g
    <3> QED BY <2>2, <2>3, <2>4
  <2> QED BY <2>5
<1>2. ASSUME NEW m \in S PROVE m + 1 \in S
  <2> SUFFICES ASSUME m + 1 <= n PROVE Claim(m + 1)
    OBVIOUS
  <2>1. m \in Nat /\ m + 1 \in 1..n /\ Claim(m) /\ m + 1 \in Nat
    OBVIOUS
  <2>2. g(m + 1) = Append(g(m), Stop(m + 1))
    <3>1. /\ Len(g(m)) = m /\ g(m) \in Seq(Events)
      BY <2>1
    <3>2. \A i \in 1..(m + 1) : g(m + 1)[i] = Append(g(m), Stop(m + 1))[i]
      BY <2>1, <3>1
    <3>3. DOMAIN g(m + 1) = 1..(m + 1) /\ DOMAIN Append(g(m), Stop(m + 1)) = 1..(m + 1)
      BY <2>1, <3>1
    <3> QED BY <2>1, <3>1, <3>2, <3>3
  <2>3. g(m) \in Seq(Events) /\ Stop(m + 1) \in Events
    BY <2>1, EventsAre
  <2> HIDE DEF g, S
  <2>4. g(m + 1) \in Seq(Events)
    BY <2>2, <2>3
  <2>5. ASSUME NEW d, Runs(c, g(m + 1), d)
        PROVE  Quiet(d) /\ SameCalls(c, d) /\ d.open = c.open \ (1..(m + 1))
    <3>1. PICK x : Runs(c, g(m), x) /\ d = Deliver(x, Stop(m + 1))
      <4>1. PICK s, e : s = g(m) /\ e = Stop(m + 1)
        OBVIOUS
      <4>2. s \in Seq(Events) /\ e \in Events /\ Runs(c, Append(s, e), d)
        BY <2>2, <2>3, <2>5, <4>1
      <4>3. \E x : Runs(c, s, x) /\ d = Deliver(x, e)
        BY <4>2, RunAppend
      <4> QED BY <4>1, <4>3
    <3>2. Quiet(x) /\ SameCalls(c, x) /\ x.open = c.open \ (1..m)
      BY <2>1, <3>1
    <3>3. m + 1 \in x.open
      BY <2>1, <3>2
    <3>4. Quiet(d) /\ SameCalls(x, d) /\ d.open = x.open \ {m + 1}
      BY <2>1, <3>1, <3>2, <3>3, StopIs
    <3>5. d.open = c.open \ (1..(m + 1))
      <4>1. \A i : i \in 1..(m + 1) <=> i \in 1..m \/ i = m + 1
        BY <2>1
      <4> QED BY <3>2, <3>4, <4>1
    <3> QED BY <3>2, <3>4, <3>5 DEF SameCalls, SameTools
  <2> QED BY <2>4, <2>5
<1> HIDE DEF S
<1>3. S = Nat
  BY <1>1, <1>2, Induction DEF S
<1>4. Claim(n)
  <2> HIDE DEF Claim
  <2> QED BY <1>3 DEF S
<1> QED BY <1>4

\* A client in which all blocks are open, to know the kept arguments as a list of events.
LEMMA FlushedEvents == ASSUME blocks \in Seq(Tools), Distinct(blocks), buffer \in [Tools -> Nat]
                       PROVE  Flushed \in Seq(Events)
<1>1. PICK b, q : b = blocks /\ q = buffer
  OBVIOUS
<1>2. PICK f : FlushedTo(Len(b), b, q, f) /\ Flushed = f[Len(b)]
  BY <1>1, FlushedIs
<1> DEFINE c == [open |-> 1..Len(b), got |-> [t \in Tools |-> 0], owner |-> b,
                 text |-> "none", wrong |-> FALSE, bad |-> FALSE, stops |-> 0]
<1>3. b \in Seq(Tools) /\ Distinct(b) /\ q \in [Tools -> Nat]
  BY <1>1
<1>4. Quiet(c) /\ c.owner = b /\ \A i \in 1..Len(b) : i \in c.open
  BY <1>3 DEF Quiet, Shape, ClientFields
<1> HIDE DEF c
<1>5. f[Len(b)] \in Seq(Events)
  BY <1>2, <1>3, <1>4, FlushRuns
<1> QED BY <1>2, <1>5

LEMMA FinalEventsAre ==
  ASSUME blocks \in Seq(Tools), Distinct(blocks), buffer \in [Tools -> Nat],
         route \in ToAnthropic, NEW textOpen \in BOOLEAN
  PROVE  FinalEvents(textOpen) \in Seq(Events)
<1>1. PICK s1, s2, s3, s4 :
        /\ s1 = (IF textOpen THEN <<Stop(0)>> ELSE <<>>) /\ s2 = Flushed
        /\ s3 = [i \in DOMAIN blocks |-> Stop(i)] /\ s4 = <<MessageStop>>
  OBVIOUS
<1>2. s1 \in Seq(Events) /\ s4 \in Seq(Events)
  BY <1>1, EventsAre
<1>3. s2 \in Seq(Events)
  BY <1>1, FlushedEvents
<1>4. s3 \in Seq(Events)
  <2>1. PICK n \in Nat : n = Len(blocks)
    OBVIOUS
  <2>2. s3 = [i \in 1..n |-> Stop(i)]
    BY <1>1, <2>1
  <2> QED BY <2>2, EventsAre
<1>5. FinalEvents(textOpen) = ((s1 \o s2) \o s3) \o s4
  BY <1>1 DEF FinalEvents
<1>6. s1 \o s2 \in Seq(Events)
  BY <1>2, <1>3
<1>7. (s1 \o s2) \o s3 \in Seq(Events)
  BY <1>4, <1>6
<1> QED BY <1>2, <1>5, <1>7

\* What the final events do for an Anthropic client.
LEMMA FinalRuns ==
  ASSUME NEW b, b = blocks, b \in Seq(Tools), Distinct(b), NEW q, q = buffer, q \in [Tools -> Nat],
         route \in ToAnthropic, NEW textOpen \in BOOLEAN,
         NEW c, Quiet(c), c.owner = b, c.open = (IF textOpen THEN {0} ELSE {}) \cup 1..Len(b),
         NEW d, Runs(c, FinalEvents(textOpen), d)
  PROVE  /\ ~d.bad /\ d.open = {} /\ d.stops = 1 /\ (~c.wrong => ~d.wrong) /\ Shape(d) /\ d.text = c.text
         /\ \A t \in Tools : d.got[t] = c.got[t] + (IF \E h \in 1..Len(b) : b[h] = t THEN q[t] ELSE 0)
<1>1. PICK f : FlushedTo(Len(b), b, q, f) /\ Flushed = f[Len(b)]
  BY FlushedIs
<1>2. PICK n \in Nat : n = Len(b)
  OBVIOUS
<1> DEFINE s1 == IF textOpen THEN <<Stop(0)>> ELSE <<>>
           s2 == f[Len(b)]
           s3 == [i \in 1..n |-> Stop(i)]
           s4 == <<MessageStop>>
<1>3. FinalEvents(textOpen) = s1 \o s2 \o s3 \o s4
  <2>1. [i \in DOMAIN blocks |-> Stop(i)] = s3
    BY <1>2
  <2> QED BY <1>1, <2>1 DEF FinalEvents
<1>4. s2 \in Seq(Events)
  <2>1. \A i \in 1..Len(b) : i \in c.open
    OBVIOUS
  <2> QED BY <1>1, <2>1, FlushRuns
<1>5. s1 \in Seq(Events) /\ s3 \in Seq(Events) /\ s4 \in Seq(Events)
  BY EventsAre
<1>6. \A x : Runs(c, s1, x) => Quiet(x) /\ SameCalls(c, x) /\ x.open = 1..n
  <2> SUFFICES ASSUME NEW x, Runs(c, s1, x) PROVE Quiet(x) /\ SameCalls(c, x) /\ x.open = 1..n
    OBVIOUS
  <2>1. CASE textOpen
    <3>1. x = Deliver(c, Stop(0))
      BY <2>1, RunOne
    <3>4. Quiet(x) /\ SameCalls(c, x) /\ x.open = c.open \ {0}
      BY <2>1, <3>1, StopIs
    <3> QED BY <1>2, <2>1, <3>4
  <2>2. CASE ~textOpen
    <3>1. x = c
      BY <2>2, RunNothing
    <3> QED BY <1>2, <2>2, <3>1 DEF SameCalls, SameTools, Quiet
  <2> QED BY <2>1, <2>2
<1> HIDE DEF s1, s2, s3, s4
<1>7. PICK x1, x2, x3 : Runs(c, s1, x1) /\ Runs(x1, s2, x2) /\ Runs(x2, s3, x3) /\ Runs(x3, s4, d)
  <2>1. Runs(c, ((s1 \o s2) \o s3) \o s4, d)
    BY <1>3
  <2>2. s1 \o s2 \in Seq(Events)
    BY <1>4, <1>5
  <2>3. (s1 \o s2) \o s3 \in Seq(Events)
    BY <1>5, <2>2
  <2>4. PICK x3 : Runs(c, (s1 \o s2) \o s3, x3) /\ Runs(x3, s4, d)
    BY <1>5, <2>1, <2>3, RunConcat
  <2>5. PICK x2 : Runs(c, s1 \o s2, x2) /\ Runs(x2, s3, x3)
    BY <1>5, <2>2, <2>4, RunConcat
  <2>6. PICK x1 : Runs(c, s1, x1) /\ Runs(x1, s2, x2)
    BY <1>4, <1>5, <2>5, RunConcat
  <2> QED BY <2>4, <2>5, <2>6
<1>8. Quiet(x1) /\ SameCalls(c, x1) /\ x1.open = 1..n
  BY <1>6, <1>7
<1>9. /\ SameBlocks(x1, x2)
      /\ \A t \in Tools : x2.got[t] = x1.got[t] + (IF \E h \in 1..Len(b) : b[h] = t THEN q[t] ELSE 0)
  <2>1. x1.owner = b /\ \A i \in 1..Len(b) : i \in x1.open
    BY <1>2, <1>8 DEF SameCalls, SameTools
  <2>2. \A y : Runs(x1, f[Len(b)], y) => Filled(b, q, x1, y)
    BY <1>1, <1>8, <2>1, FlushRuns
  <2>3. Runs(x1, f[Len(b)], x2)
    BY <1>7 DEF s2
  <2> QED BY <2>2, <2>3 DEF Filled
<1>10. Quiet(x3) /\ SameCalls(x2, x3) /\ x3.open = {}
  <2>1. Quiet(x2) /\ x2.open = 1..n
    BY <1>8, <1>9 DEF SameBlocks
  <2>2. \A y : Runs(x2, [i \in 1..n |-> Stop(i)], y) =>
              Quiet(y) /\ SameCalls(x2, y) /\ y.open = x2.open \ (1..n)
    BY <2>1, StopsRun
  <2>3. Runs(x2, [i \in 1..n |-> Stop(i)], x3)
    BY <1>7 DEF s3
  <2>4. Quiet(x3) /\ SameCalls(x2, x3) /\ x3.open = x2.open \ (1..n)
    BY <2>2, <2>3
  <2> QED BY <2>1, <2>4
<1>11. d = Deliver(x3, MessageStop)
  BY <1>7, RunOne DEF s4
<1>12. SameCalls(x3, d) /\ d.open = {} /\ d.stops = 1 /\ ~d.bad
  BY <1>10, <1>11, MessageStopIs
<1>13. d.got = x2.got /\ x1.got = c.got /\ Shape(d) /\ (~c.wrong => ~d.wrong) /\ d.text = c.text
  BY <1>8, <1>9, <1>10, <1>12 DEF SameCalls, SameTools, SameBlocks
<1> QED BY <1>9, <1>12, <1>13

(***************************************************************************)
(* The stream under way: what a client has so far, what is kept back for   *)
(* it, and what the upstream has sent.                                     *)
(***************************************************************************)
UpstreamOK ==
    /\ DOMAIN upstream = UpstreamFields
    /\ upstream.sent \in [Tools -> Nat] /\ upstream.started \in Seq(Tools) /\ Distinct(upstream.started)
    /\ upstream.done \subseteq Range(upstream.started)
    /\ \A t \in Tools \ Range(upstream.started) : upstream.sent[t] = 0

\* The text block was opened once until text followed a tool call that followed text.
TextInv ==
    /\ upstream.texts \in {"none", "some", "closed", "again"}
    /\ upstream.texts = "none" => client.text = "none" /\ text = FALSE
    /\ upstream.texts = "some" => client.text = "opened" /\ text = TRUE
    /\ upstream.texts = "closed" => client.text = "opened"

\* The places of the tool calls are known.
Placed == upstream.indexed \/ Len(upstream.started) <= 1

ToAnthropicInv ==
    /\ Quiet(client) /\ TextInv
    /\ blocks = upstream.started /\ client.owner = upstream.started
    /\ client.open = (IF text THEN {0} ELSE {}) \cup 1..Len(blocks)
    /\ route = "chat to anthropic" =>
        /\ client.got = upstream.sent /\ \A t \in Tools : buffer[t] = 0
        /\ ~upstream.interleaved => ~client.wrong
    /\ route = "responses to anthropic" =>
        /\ \A t \in Tools : client.got[t] = 0
        /\ ~client.wrong
        /\ Placed => \A t \in Tools \ upstream.unseen : buffer[t] = upstream.sent[t]
        /\ upstream.started # <<>> => toolUse

ToChatInv ==
    /\ Shape(client) /\ toolIndex \in Nat
    /\ \A t \in Tools \ upstream.unseen : client.got[t] = upstream.sent[t]
    /\ ~upstream.interleaved =>
        /\ ~client.wrong /\ client.owner = upstream.started
        /\ Len(upstream.started) = IF current THEN toolIndex + 1 ELSE toolIndex
        /\ upstream.done = {upstream.started[i] : i \in 1..toolIndex}

DeliveryInv ==
    /\ route \in Routes /\ ~client.bad
    /\ phase = "open" =>
        /\ route \in Streamed /\ UpstreamOK /\ buffer \in [Tools -> Nat] /\ text \in BOOLEAN
        /\ route \in ToAnthropic => ToAnthropicInv
        /\ route = "responses to chat" => ToChatInv
    /\ phase = "waiting" =>
        /\ route \notin Streamed /\ ~client.wrong /\ client.got = upstream.sent
        /\ DOMAIN upstream = UpstreamFields
    /\ BlocksAreWellFormed /\ ArgumentsReachTheirTool

\* What an open stream needs, whatever its step.
LEMMA OpenStep ==
  ASSUME DeliveryInv, phase = "open", phase' = "open", route' = route, ~client'.bad,
         UpstreamOK', buffer' \in [Tools -> Nat], text' \in BOOLEAN,
         client'.text = "reopened" => upstream'.texts = "again",
         route \in ToAnthropic => ToAnthropicInv',
         route = "responses to chat" => ToChatInv'
  PROVE  DeliveryInv'
BY DEF DeliveryInv, BlocksAreWellFormed, ArgumentsReachTheirTool

LEMMA TextOpen ==
  ASSUME ToAnthropicInv, text \in BOOLEAN, upstream.started \in Seq(Tools)
  PROVE  /\ Quiet(client) /\ (text <=> 0 \in client.open)
         /\ client.open \cup {0} = {0} \cup 1..Len(blocks)
<1>1. PICK n \in Nat : n = Len(blocks)
  <2>1. Len(upstream.started) \in Nat
    OBVIOUS
  <2>2. blocks = upstream.started
    BY DEF ToAnthropicInv
  <2> QED BY <2>1, <2>2
<1>2. 0 \notin 1..n
  OBVIOUS
<1>3. client.open = (IF text THEN {0} ELSE {}) \cup 1..n
  BY <1>1 DEF ToAnthropicInv
<1>4. CASE text = TRUE
  BY <1>1, <1>3, <1>4 DEF ToAnthropicInv
<1>5. CASE text = FALSE
  BY <1>1, <1>2, <1>3, <1>5 DEF ToAnthropicInv
<1> QED BY <1>4, <1>5

LEMMA TextRuns ==
  ASSUME NEW c, Quiet(c), text \in BOOLEAN, text <=> 0 \in c.open, NEW d, Runs(c, TextEvents, d)
  PROVE  Quiet(d) /\ OpenedText(c, d) /\ d.open = c.open \cup {0} /\ TextEvents \in Seq(Events)
<1>1. CASE text
  <2>1. TextEvents = <<TextDelta>>
    BY <1>1 DEF TextEvents
  <2>2. d = Deliver(c, TextDelta)
    BY <2>1, RunOne
  <2>3. Quiet(d) /\ SameCalls(c, d) /\ d.open = c.open
    BY <1>1, <2>2, TextDeltaIs
  <2>4. TextEvents \in Seq(Events)
    BY <2>1, EventsAre
  <2>5. OpenedText(c, d)
    BY <1>1, <2>3 DEF SameCalls, OpenedText
  <2> QED BY <1>1, <2>3, <2>4, <2>5
<1>2. CASE ~text
  <2>1. TextEvents = <<StartText>> \o <<TextDelta>>
    BY <1>2 DEF TextEvents
  <2>2. PICK s, t : s = <<StartText>> /\ t = <<TextDelta>>
    OBVIOUS
  <2>3. s \in Seq(Events) /\ t \in Seq(Events)
    BY <2>2, EventsAre
  <2>4. PICK x : Runs(c, s, x) /\ Runs(x, t, d)
    BY <2>1, <2>2, <2>3, RunConcat
  <2>5. x = Deliver(c, StartText) /\ d = Deliver(x, TextDelta)
    BY <2>2, <2>4, RunOne
  <2>6. Quiet(x) /\ OpenedText(c, x) /\ x.open = c.open \cup {0}
    BY <1>2, <2>5, StartTextIs
  <2>7. Quiet(d) /\ SameCalls(x, d) /\ d.open = x.open
    BY <2>5, <2>6, TextDeltaIs
  <2>8. OpenedText(c, d)
    BY <2>6, <2>7 DEF SameCalls, SameTools, OpenedText
  <2>9. TextEvents \in Seq(Events)
    BY <2>1, <2>2, <2>3
  <2> QED BY <2>6, <2>7, <2>8, <2>9
<1> QED BY <1>1, <1>2

LEMMA TextEventsAre == ASSUME text \in BOOLEAN PROVE TextEvents \in Seq(Events) /\ Len(TextEvents) \in Nat
<1>1. TextEvents \in Seq(Events)
  <2>1. PICK s, t : s = <<StartText>> /\ t = <<TextDelta>>
    OBVIOUS
  <2>2. s \in Seq(Events) /\ t \in Seq(Events)
    BY <2>1, EventsAre
  <2>3. CASE text
    <3>1. TextEvents = <<TextDelta>>
      BY <2>3 DEF TextEvents
    <3> QED BY <3>1, <2>1, <2>2
  <2>4. CASE ~text
    <3>1. TextEvents = <<StartText>> \o <<TextDelta>>
      BY <2>4 DEF TextEvents
    <3>2. TextEvents = s \o t
      BY <2>1, <3>1
    <3> QED BY <2>2, <3>2
  <2> QED BY <2>3, <2>4
<1>2. PICK e : e = TextEvents
  OBVIOUS
<1>3. e \in Seq(Events) => Len(e) \in Nat
  OBVIOUS
<1> QED BY <1>1, <1>2, <1>3

\* What another text changes of what the upstream said.
LEMMA SaidTextIs ==
  ASSUME UpstreamOK
  PROVE  LET said == SaidText IN
         /\ DOMAIN said = UpstreamFields /\ said.sent = upstream.sent /\ said.started = upstream.started
         /\ said.done = upstream.done /\ said.interleaved = upstream.interleaved
         /\ said.unseen = upstream.unseen /\ said.indexed = upstream.indexed
         /\ said.texts = CASE upstream.texts = "none"   -> "some"
                          [] upstream.texts = "closed" -> "again"
                          [] OTHER -> upstream.texts
BY DEF SaidText, UpstreamOK, UpstreamFields

\* When the text block is open afterwards, it is known how often it was opened.
LEMMA TextFollows ==
  ASSUME TextInv, Quiet(client), text \in BOOLEAN, text <=> 0 \in client.open,
         NEW d, OpenedText(client, d),
         NEW said, said = CASE upstream.texts = "none"   -> "some"
                            [] upstream.texts = "closed" -> "again"
                            [] OTHER -> upstream.texts
  PROVE  /\ said \in {"some", "again"}
         /\ said = "some" => d.text = "opened"
<1>1. CASE upstream.texts = "none"
  BY <1>1 DEF TextInv, OpenedText
<1>2. CASE upstream.texts = "some"
  BY <1>2 DEF TextInv, OpenedText
<1>3. CASE upstream.texts = "closed"
  BY <1>3 DEF TextInv, OpenedText
<1>4. CASE upstream.texts = "again"
  BY <1>4 DEF TextInv, OpenedText
<1> QED BY <1>1, <1>2, <1>3, <1>4 DEF TextInv

LEMMA TextKeeps == ASSUME DeliveryInv, Text PROVE DeliveryInv'
<1>1. phase = "open" /\ phase' = "open" /\ route' = route /\ buffer' = buffer
      /\ blocks' = blocks /\ toolUse' = toolUse /\ toolIndex' = toolIndex /\ current' = current
  BY DEF Text
<1>2. UpstreamOK /\ buffer' \in [Tools -> Nat] /\ text \in BOOLEAN
  BY <1>1 DEF DeliveryInv
<1>3. CASE route \in ToAnthropic
  <2>1. ToAnthropicInv
    BY <1>1, <1>3 DEF DeliveryInv
  <2>2. Emit(TextEvents) /\ text' = TRUE /\ upstream' = SaidText
    BY <1>3 DEF Text
  <2>3. Runs(client, TextEvents, client')
    <3>1. text \in BOOLEAN
      BY <1>1 DEF DeliveryInv
    <3>2. PICK e : e = TextEvents
      OBVIOUS
    <3>3. Len(e) \in Nat /\ Emit(e)
      BY <2>2, <3>1, <3>2, TextEventsAre
    <3> QED BY <3>2, <3>3, EmitRuns
  <2>4. Quiet(client) /\ text \in BOOLEAN /\ (text <=> 0 \in client.open)
        /\ client.open \cup {0} = {0} \cup 1..Len(blocks)
    BY <1>1, <2>1, TextOpen DEF DeliveryInv, UpstreamOK
  <2>5. Quiet(client') /\ OpenedText(client, client') /\ client'.open = client.open \cup {0}
    BY <2>3, <2>4, TextRuns
  <2>8. /\ DOMAIN upstream' = UpstreamFields /\ upstream'.sent = upstream.sent
        /\ upstream'.started = upstream.started /\ upstream'.done = upstream.done
        /\ upstream'.interleaved = upstream.interleaved /\ upstream'.unseen = upstream.unseen
        /\ upstream'.indexed = upstream.indexed
        /\ upstream'.texts = CASE upstream.texts = "none"   -> "some"
                               [] upstream.texts = "closed" -> "again"
                               [] OTHER -> upstream.texts
    BY <1>2, <2>2, SaidTextIs
  <2>9. /\ upstream'.texts \in {"some", "again"}
        /\ upstream'.texts = "some" => client'.text = "opened"
    <3>1. PICK d, said : d = client' /\ said = upstream'.texts
      OBVIOUS
    <3>2. TextInv /\ OpenedText(client, d)
      BY <2>1, <2>5, <3>1 DEF ToAnthropicInv
    <3>3. said \in {"some", "again"} /\ (said = "some" => d.text = "opened")
      BY <2>4, <2>8, <3>1, <3>2, TextFollows
    <3> QED BY <3>1, <3>3
  <2>10. UpstreamOK'
    BY <1>2, <2>8 DEF UpstreamOK
  <2>6. ToAnthropicInv'
    <3>1. TextInv'
      BY <2>2, <2>9 DEF TextInv
    <3>2. client'.got = client.got /\ client'.owner = client.owner /\ (~client.wrong => ~client'.wrong)
      BY <2>5 DEF OpenedText, SameTools
    <3>3. Placed' <=> Placed
      BY <2>8 DEF Placed
    <3>4. client'.open = (IF text' THEN {0} ELSE {}) \cup 1..Len(blocks')
      BY <1>1, <2>2, <2>4, <2>5
    <3> QED BY <1>1, <2>1, <2>5, <2>8, <3>1, <3>2, <3>3, <3>4 DEF ToAnthropicInv
  <2>7. ~client'.bad /\ route # "responses to chat" /\ text' \in BOOLEAN
        /\ (client'.text = "reopened" => upstream'.texts = "again")
    BY <1>3, <2>2, <2>5, <2>9 DEF Quiet, ToAnthropic
  <2> QED BY <1>1, <1>2, <2>6, <2>7, <2>10, OpenStep
<1>4. CASE route \notin ToAnthropic
  <2>1. client' = client /\ text' = text /\ upstream' = upstream
    BY <1>4 DEF Text
  <2>2. route = "responses to chat" => ToChatInv'
    BY <1>1, <2>1 DEF DeliveryInv, ToChatInv
  <2>3. ~client'.bad /\ (client'.text = "reopened" => upstream'.texts = "again")
    BY <2>1 DEF DeliveryInv, BlocksAreWellFormed
  <2>4. UpstreamOK'
    BY <1>2, <2>1 DEF UpstreamOK
  <2> QED BY <1>1, <1>2, <1>4, <2>1, <2>2, <2>3, <2>4, OpenStep
<1> QED BY <1>3, <1>4

LEMMA ToChatStays ==
  ASSUME ToChatInv, UNCHANGED <<client, toolIndex, current>>,
         upstream'.sent = upstream.sent, upstream'.started = upstream.started, upstream'.done = upstream.done,
         upstream'.interleaved = upstream.interleaved, upstream'.unseen = upstream.unseen
  PROVE  ToChatInv'
BY DEF ToChatInv

LEMMA UsageChunkKeeps == ASSUME DeliveryInv, UsageChunk PROVE DeliveryInv'
<1>1. phase = "open" /\ phase' = "open" /\ route' = route /\ buffer' = buffer /\ client' = client /\ text' = text
      /\ blocks' = blocks /\ toolUse' = toolUse /\ toolIndex' = toolIndex /\ current' = current
  BY DEF UsageChunk
<1>2. PICK report : upstream' = [upstream EXCEPT !.reported = report]
  BY DEF UsageChunk
<1>3. UpstreamOK
  BY <1>1 DEF DeliveryInv
<1>4. /\ DOMAIN upstream' = UpstreamFields /\ upstream'.sent = upstream.sent
      /\ upstream'.started = upstream.started /\ upstream'.done = upstream.done
      /\ upstream'.interleaved = upstream.interleaved /\ upstream'.unseen = upstream.unseen
      /\ upstream'.indexed = upstream.indexed /\ upstream'.texts = upstream.texts
  BY <1>2, <1>3 DEF UpstreamOK, UpstreamFields
<1>5. UpstreamOK'
  BY <1>3, <1>4 DEF UpstreamOK
<1>6. route \in ToAnthropic => ToAnthropicInv'
  BY <1>1, <1>4 DEF DeliveryInv, ToAnthropicInv, TextInv, Placed
<1>7. route = "responses to chat" => ToChatInv'
  <2>1. (route = "responses to chat" => ToChatInv) /\ UNCHANGED <<client, toolIndex, current>>
    BY <1>1 DEF DeliveryInv
  <2> QED BY <1>4, <2>1, ToChatStays
<1>8. /\ ~client'.bad /\ buffer' \in [Tools -> Nat] /\ text' \in BOOLEAN
      /\ client'.text = "reopened" => upstream'.texts = "again"
  BY <1>1, <1>4 DEF DeliveryInv, BlocksAreWellFormed
<1> QED BY <1>1, <1>5, <1>6, <1>7, <1>8, OpenStep

LEMMA ConcatIs == ASSUME NEW S, NEW s \in Seq(S), NEW t \in Seq(S) PROVE s \o t \in Seq(S)
OBVIOUS

\* The events sent before the final ones leave every block of the message open.
LeadsUp(before, textOpen) ==
    /\ route \notin ToAnthropic => before = <<>> /\ upstream'.texts = upstream.texts
    /\ route \in ToAnthropic => \A x : Runs(client, before, x) =>
          /\ Quiet(x) /\ SameTools(client, x) /\ x.open = (IF textOpen THEN {0} ELSE {}) \cup 1..Len(blocks)
          /\ x.text = "reopened" => upstream'.texts = "again"

EndsAs(finish) == route = "responses to anthropic" => finish = "stop"

SaysNoMore ==
    /\ upstream'.sent = upstream.sent /\ upstream'.started = upstream.started
    /\ upstream'.interleaved = upstream.interleaved /\ upstream'.unseen = upstream.unseen
    /\ upstream'.indexed = upstream.indexed

LEMMA FinalDelivers ==
  ASSUME DeliveryInv, phase = "open",
         NEW before \in Seq(Events), NEW textOpen \in BOOLEAN, NEW report, NEW finish, NEW output,
         Final(before, textOpen, report, finish, output), LeadsUp(before, textOpen),
         EndsAs(finish), SaysNoMore
  PROVE  DeliveryInv'
<1>1. /\ phase' = "ended" /\ route' = route /\ Emit(before \o FinalEvents(textOpen))
      /\ reason' = IF toolUse /\ finish = "stop" THEN "tool_calls" ELSE finish
  BY DEF Final
<1>2. CASE route \notin ToAnthropic
  <2>1. before \o FinalEvents(textOpen) = <<>>
    <3>1. before = <<>> /\ FinalEvents(textOpen) = <<>>
      BY <1>2 DEF FinalEvents, LeadsUp
    <3>2. <<>> \in Seq(Events)
      OBVIOUS
    <3>3. \A s \in Seq(Events) : s \o <<>> = s
      OBVIOUS
    <3> QED BY <3>1, <3>2, <3>3
  <2>2. Runs(client, <<>>, client')
    <3>1. Emit(<<>>) /\ Len(<<>>) \in Nat
      BY <1>1, <2>1
    <3> QED BY <3>1, EmitRuns
  <2>3. client' = client
    BY <2>2, RunNothing
  <2>4. route \in {"responses to chat", "passthrough"}
    BY <1>2 DEF DeliveryInv, Streamed, ToAnthropic
  <2>5. BlocksAreWellFormed'
    BY <1>1, <1>2, <2>3 DEF DeliveryInv, BlocksAreWellFormed, LeadsUp
  <2>6. ArgumentsReachTheirTool'
    BY <1>1, <2>3, <2>4 DEF DeliveryInv, ToChatInv, ArgumentsReachTheirTool, SaysNoMore
  <2> QED BY <1>1, <2>3, <2>5, <2>6 DEF DeliveryInv
<1>3. CASE route \in ToAnthropic
  <2>1. ToAnthropicInv /\ UpstreamOK /\ buffer \in [Tools -> Nat]
    BY <1>3 DEF DeliveryInv
  <2>2. PICK b, q, f : b = blocks /\ q = buffer /\ f = FinalEvents(textOpen)
    OBVIOUS
  <2>3. b \in Seq(Tools) /\ Distinct(b) /\ q \in [Tools -> Nat]
    BY <2>1, <2>2 DEF ToAnthropicInv, UpstreamOK
  <2>4. f \in Seq(Events)
    BY <1>3, <2>1, <2>2, <2>3, FinalEventsAre
  <2>5. Runs(client, before \o f, client')
    <3>1. PICK all : all = before \o f
      OBVIOUS
    <3>2. Len(all) \in Nat
      <4>1. all \in Seq(Events)
        BY <2>4, <3>1, ConcatIs
      <4> QED BY <4>1
    <3>3. Emit(all)
      BY <1>1, <2>2, <3>1
    <3>4. Runs(client, all, client')
      BY <3>2, <3>3, EmitRuns
    <3> QED BY <3>1, <3>4
  <2>6. PICK x : Runs(client, before, x) /\ Runs(x, f, client')
    <3>1. PICK c, d : c = client /\ d = client'
      OBVIOUS
    <3>2. \E x : Runs(c, before, x) /\ Runs(x, f, d)
      BY <2>4, <2>5, <3>1, RunConcat
    <3> QED BY <3>1, <3>2
  <2>7. /\ Quiet(x) /\ SameTools(client, x) /\ x.open = (IF textOpen THEN {0} ELSE {}) \cup 1..Len(b)
        /\ x.text = "reopened" => upstream'.texts = "again"
    BY <1>3, <2>2, <2>6 DEF LeadsUp
  <2>8. x.owner = b /\ x.got = client.got
    BY <2>1, <2>2, <2>7 DEF SameTools, ToAnthropicInv
  <2>9. PICK d : d = client'
    OBVIOUS
  <2>10. Runs(x, FinalEvents(textOpen), d)
    BY <2>2, <2>6, <2>9
  <2>11. /\ ~d.bad /\ d.open = {} /\ d.stops = 1 /\ (~x.wrong => ~d.wrong) /\ Shape(d) /\ d.text = x.text
         /\ \A t \in Tools : d.got[t] = x.got[t] + (IF \E h \in 1..Len(b) : b[h] = t THEN q[t] ELSE 0)
    <3>1. Quiet(x) /\ x.open = (IF textOpen THEN {0} ELSE {}) \cup 1..Len(b)
      BY <2>7
    <3> QED BY <1>3, <2>2, <2>3, <2>8, <2>10, <3>1, FinalRuns
  <2>12. BlocksAreWellFormed'
    BY <2>7, <2>9, <2>11 DEF BlocksAreWellFormed
  <2>13. ~client.wrong => ~d.wrong
    BY <2>7, <2>11 DEF SameTools
  <2>14. ~upstream.interleaved \/ route = "responses to anthropic" => ~d.wrong
    BY <1>3, <2>1, <2>13 DEF ToAnthropicInv, ToAnthropic
  <2>15. ASSUME route = "responses to anthropic" => Placed, NEW t \in Tools \ upstream.unseen
         PROVE  d.got[t] = upstream.sent[t]
    <3>1. d.got \in [Tools -> Nat] /\ upstream.sent \in [Tools -> Nat]
      BY <2>1, <2>11 DEF Shape, UpstreamOK
    <3>2. CASE route = "chat to anthropic"
      <4>1. x.got[t] = upstream.sent[t] /\ q[t] = 0
        BY <2>1, <2>2, <2>8, <3>2 DEF ToAnthropicInv
      <4> QED BY <2>11, <3>1, <4>1
    <3>3. CASE route = "responses to anthropic"
      <4>1. x.got[t] = 0 /\ q[t] = upstream.sent[t] /\ b = upstream.started
        BY <2>1, <2>2, <2>8, <2>15, <3>3 DEF ToAnthropicInv
      <4>2. ~(\E h \in 1..Len(b) : b[h] = t) => upstream.sent[t] = 0
        <5>1. t \in Range(upstream.started) => \E h \in DOMAIN b : t = b[h]
          BY <4>1 DEF Range
        <5>2. DOMAIN b = 1..Len(b)
          BY <2>3
        <5> QED BY <2>1, <5>1, <5>2 DEF UpstreamOK
      <4>3. PICK had \in BOOLEAN : had <=> \E h \in 1..Len(b) : b[h] = t
        OBVIOUS
      <4>4. d.got[t] = x.got[t] + (IF had THEN q[t] ELSE 0)
        BY <2>11, <4>3
      <4>5. ~had => upstream.sent[t] = 0
        BY <4>2, <4>3
      <4>6. upstream.sent[t] \in Nat
        BY <3>1
      <4> QED BY <4>1, <4>4, <4>5, <4>6
    <3> QED BY <1>3, <3>2, <3>3 DEF ToAnthropic
  <2>16. route = "responses to anthropic" /\ upstream.started # <<>> => reason' = "tool_calls"
    BY <1>1, <2>1 DEF ToAnthropicInv, EndsAs
  <2>17. ArgumentsReachTheirTool'
    <3>1. SUFFICES ASSUME IF route = "responses to anthropic" THEN Placed ELSE ~upstream.interleaved
                   PROVE  /\ ~d.wrong
                          /\ \A t \in Tools \ upstream.unseen : d.got[t] = upstream.sent[t]
      BY <1>1, <2>9, <2>16 DEF ArgumentsReachTheirTool, SaysNoMore, Placed
    <3> QED BY <2>14, <2>15, <3>1
  <2> QED BY <1>1, <2>9, <2>11, <2>12, <2>17 DEF DeliveryInv
<1> QED BY <1>2, <1>3

LEMMA PlainEnd ==
  ASSUME DeliveryInv, phase = "open", NEW report, NEW finish, NEW output,
         Final(<<>>, text, report, finish, output),
         EndsAs(finish), SaysNoMore, upstream'.texts = upstream.texts
  PROVE  DeliveryInv'
<1>1. PICK tx, s : tx = text /\ s = <<>>
  OBVIOUS
<1>2. tx \in BOOLEAN /\ Final(s, tx, report, finish, output)
  BY <1>1 DEF DeliveryInv
<1>3. s \in Seq(Events)
  BY <1>1
<1>4. LeadsUp(s, tx)
  <2>1. CASE route \notin ToAnthropic
    BY <1>1, <2>1 DEF LeadsUp
  <2>2. CASE route \in ToAnthropic
    <3>1. ToAnthropicInv
      BY <2>2 DEF DeliveryInv
    <3>2. Quiet(client) /\ client.open = (IF tx THEN {0} ELSE {}) \cup 1..Len(blocks)
      BY <1>1, <3>1 DEF ToAnthropicInv
    <3>3. \A x : Runs(client, s, x) => x = client
      BY <1>1, RunNothing
    <3>4. SameTools(client, client)
      BY <3>2 DEF SameTools, Quiet
    <3>5. client.text = "reopened" => upstream'.texts = "again"
      BY DEF DeliveryInv, BlocksAreWellFormed
    <3> QED BY <2>2, <3>2, <3>3, <3>4, <3>5 DEF LeadsUp
  <2> QED BY <2>1, <2>2
<1> QED BY <1>2, <1>3, <1>4, FinalDelivers

LEMMA FinishKeeps == ASSUME DeliveryInv, Finish PROVE DeliveryInv'
<1>1. phase = "open"
  BY DEF Finish
<1>2. PICK report, finish, known :
        /\ finish \in Finishes /\ Final(<<>>, text, report, finish, chars)
        /\ upstream' = [upstream EXCEPT !.reported = known]
  BY DEF Finish
<1>3. SaysNoMore /\ upstream'.texts = upstream.texts
  BY <1>1, <1>2 DEF DeliveryInv, UpstreamOK, UpstreamFields, SaysNoMore
<1>4. EndsAs(finish)
  BY <1>2 DEF Finishes, EndsAs
<1> QED BY <1>1, <1>2, <1>3, <1>4, PlainEnd

LEMMA EofKeeps == ASSUME DeliveryInv, Eof PROVE DeliveryInv'
BY PlainEnd DEF Eof, SaysNoMore, EndsAs

LEMMA UpstreamErrorKeeps == ASSUME DeliveryInv, UpstreamError PROVE DeliveryInv'
<1>1. phase = "open" /\ EndsAs("stop") /\ UpstreamOK
  BY DEF UpstreamError, EndsAs, DeliveryInv
<1>2. CASE route \notin ToAnthropic
  <2>1. PICK report, known :
           Final(<<>>, text, report, "stop", chars) /\ upstream' = [upstream EXCEPT !.reported = known]
    BY <1>2 DEF UpstreamError
  <2>2. SaysNoMore /\ upstream'.texts = upstream.texts
    BY <1>1, <2>1 DEF UpstreamOK, UpstreamFields, SaysNoMore
  <2> QED BY <1>1, <2>1, <2>2, PlainEnd
<1>3. CASE route \in ToAnthropic
  <2>1. PICK report, known, said :
           /\ Final(TextEvents, TRUE, report, "stop", chars)
           /\ said = SaidText /\ upstream' = [said EXCEPT !.reported = known]
    BY <1>3 DEF UpstreamError
  <2>2. ToAnthropicInv
    BY <1>1, <1>3 DEF DeliveryInv
  <2>3. Quiet(client) /\ text \in BOOLEAN /\ (text <=> 0 \in client.open)
        /\ client.open \cup {0} = {0} \cup 1..Len(blocks)
    BY <1>1, <2>2, TextOpen DEF DeliveryInv, UpstreamOK
  <2>4. PICK before : before = TextEvents
    OBVIOUS
  <2>5. before \in Seq(Events)
    BY <2>3, <2>4, TextEventsAre
  <2>8. /\ DOMAIN said = UpstreamFields /\ said.sent = upstream.sent /\ said.started = upstream.started
        /\ said.done = upstream.done /\ said.interleaved = upstream.interleaved
        /\ said.unseen = upstream.unseen /\ said.indexed = upstream.indexed
        /\ said.texts = CASE upstream.texts = "none"   -> "some"
                         [] upstream.texts = "closed" -> "again"
                         [] OTHER -> upstream.texts
    BY <1>1, <2>1, SaidTextIs
  <2>9. SaysNoMore /\ upstream'.texts = said.texts
    BY <2>1, <2>8 DEF SaysNoMore, UpstreamFields
  <2>6. LeadsUp(before, TRUE)
    <3>1. ASSUME NEW x, Runs(client, TextEvents, x)
          PROVE  /\ Quiet(x) /\ SameTools(client, x) /\ x.open = {0} \cup 1..Len(blocks)
                 /\ x.text = "reopened" => upstream'.texts = "again"
      <4>1. Quiet(x) /\ OpenedText(client, x) /\ x.open = client.open \cup {0}
        BY <2>3, <3>1, TextRuns
      <4>2. PICK texts : texts = said.texts
        OBVIOUS
      <4>3. texts \in {"some", "again"} /\ (texts = "some" => x.text = "opened")
        <5>1. TextInv
          BY <2>2 DEF ToAnthropicInv
        <5> QED BY <2>3, <2>8, <4>1, <4>2, <5>1, TextFollows
      <4> QED BY <2>3, <2>9, <4>1, <4>2, <4>3 DEF OpenedText
    <3> QED BY <1>3, <2>4, <3>1 DEF LeadsUp
  <2>7. Final(before, TRUE, report, "stop", chars)
    BY <2>1, <2>4
  <2> QED BY <1>1, <1>3, <2>5, <2>6, <2>7, <2>9, FinalDelivers
<1> QED BY <1>2, <1>3

\* A tool call joins the list of those started.
Longer(s, t, r) ==
    /\ r \in Seq(Tools) /\ Distinct(r) /\ Range(r) = Range(s) \cup {t} /\ r # <<>>
    /\ Len(r) = Len(s) + 1 /\ \A i \in 1..Len(s) : r[i] = s[i]

LEMMA OneMore ==
  ASSUME NEW s \in Seq(Tools), Distinct(s), NEW t \in Tools, t \notin Range(s), NEW r, r = Append(s, t)
  PROVE  Longer(s, t, r)
<1>1. /\ Len(s) \in Nat /\ DOMAIN s = 1..Len(s) /\ r \in Seq(Tools) /\ Len(r) = Len(s) + 1 /\ DOMAIN r = 1..Len(r)
      /\ r[Len(s) + 1] = t /\ \A i \in 1..Len(s) : r[i] = s[i]
  OBVIOUS
<1>2. \A i \in 1..Len(r) : i \in 1..Len(s) \/ i = Len(s) + 1
  BY <1>1
<1>3. (\A i \in 1..Len(s) : i \in 1..Len(r)) /\ Len(s) + 1 \in 1..Len(r)
  BY <1>1
<1>4. Range(r) = Range(s) \cup {t}
  BY <1>1, <1>2, <1>3, Zenon DEF Range
<1>5. \A i \in 1..Len(s) : s[i] # t
  BY <1>1, Zenon DEF Range
<1>6. ASSUME NEW i \in 1..Len(r), NEW j \in 1..Len(r), r[i] = r[j] PROVE i = j
  BY <1>1, <1>2, <1>5, <1>6, Zenon DEF Distinct
<1>7. r # <<>>
  BY <1>1
<1>8. Distinct(r)
  BY <1>6 DEF Distinct
<1> QED BY <1>1, <1>4, <1>7, <1>8 DEF Longer

\* What a step of a tool call leaves alone.
LEMMA UpstreamFieldsAre ==
  ASSUME DeliveryInv, phase = "open"
  PROVE  /\ UpstreamOK /\ DOMAIN upstream = UpstreamFields /\ upstream.sent \in [Tools -> Nat]
         /\ upstream.started \in Seq(Tools) /\ Distinct(upstream.started) /\ Len(upstream.started) \in Nat
         /\ upstream.done \subseteq Range(upstream.started) /\ buffer \in [Tools -> Nat] /\ text \in BOOLEAN
         /\ route \in Streamed /\ ~client.bad
<1>1. UpstreamOK /\ buffer \in [Tools -> Nat] /\ text \in BOOLEAN /\ route \in Streamed /\ ~client.bad
  BY DEF DeliveryInv
<1>2. Len(upstream.started) \in Nat
  BY <1>1 DEF UpstreamOK
<1> QED BY <1>1, <1>2 DEF UpstreamOK

\* The place of tool calls in a list of those done so far, all of them or but the last.
LEMMA AllDone ==
  ASSUME NEW s \in Seq(Tools), Distinct(s), NEW k \in Nat, Len(s) \in {k, k + 1},
         Range(s) = {s[i] : i \in 1..k}
  PROVE  Len(s) = k
<1> SUFFICES ASSUME Len(s) = k + 1 PROVE FALSE
  OBVIOUS
<1>1. k + 1 \in 1..Len(s) /\ DOMAIN s = 1..Len(s) /\ \A i \in 1..k : i \in 1..Len(s) /\ i # k + 1
  OBVIOUS
<1>2. s[k + 1] \in Range(s)
  BY <1>1, Zenon DEF Range
<1>3. PICK i \in 1..k : s[k + 1] = s[i]
  BY <1>2
<1> QED BY <1>1, <1>3 DEF Distinct

\* A call starts, for a Chat client, when those before it are done; and the
\* arguments are those of the latest call, but where they wait in buffers.
InTurn == route = "responses to chat" => upstream.done = Range(upstream.started)
Latest(t) == route # "responses to anthropic" => t = upstream.started[Len(upstream.started)]

LEMMA ToolStartUpstream ==
  ASSUME DeliveryInv, NEW t \in Tools, ToolStart(t)
  PROVE  /\ UpstreamOK' /\ upstream'.sent = upstream.sent /\ upstream'.done = upstream.done
         /\ upstream'.unseen = upstream.unseen /\ upstream'.started = Append(upstream.started, t)
         /\ upstream'.indexed = upstream.indexed
         /\ upstream'.texts = (IF upstream.texts = "some" THEN "closed" ELSE upstream.texts)
         /\ t \notin Range(upstream.started) /\ upstream'.started # <<>>
         /\ Len(upstream'.started) = Len(upstream.started) + 1
         /\ \A i \in 1..Len(upstream.started) : upstream'.started[i] = upstream.started[i]
         /\ ~upstream'.interleaved => ~upstream.interleaved /\ InTurn
<1>1. phase = "open" /\ t \notin Range(upstream.started)
  BY DEF ToolStart
<1>2. PICK late, said :
        /\ upstream' = [upstream EXCEPT !.started = Append(@, t), !.texts = said, !.interleaved = late]
        /\ late = (upstream.interleaved \/ (route = "responses to chat" /\ upstream.done # Range(upstream.started)))
        /\ said = (IF upstream.texts = "some" THEN "closed" ELSE upstream.texts)
  BY DEF ToolStart
<1>3. UpstreamOK /\ DOMAIN upstream = UpstreamFields /\ upstream.sent \in [Tools -> Nat]
      /\ upstream.started \in Seq(Tools) /\ Distinct(upstream.started)
      /\ upstream.done \subseteq Range(upstream.started)
  BY <1>1, UpstreamFieldsAre
<1>4. DOMAIN upstream' = UpstreamFields /\ upstream'.sent = upstream.sent /\ upstream'.done = upstream.done
      /\ upstream'.unseen = upstream.unseen /\ upstream'.started = Append(upstream.started, t)
      /\ upstream'.interleaved = late /\ upstream'.indexed = upstream.indexed /\ upstream'.texts = said
  BY <1>2, <1>3 DEF UpstreamFields
<1>5. PICK s, r : s = upstream.started /\ r = upstream'.started
  OBVIOUS
<1>6. /\ r \in Seq(Tools) /\ Distinct(r) /\ Range(r) = Range(s) \cup {t} /\ r # <<>>
      /\ Len(r) = Len(s) + 1 /\ \A i \in 1..Len(s) : r[i] = s[i]
  <2>1. s \in Seq(Tools) /\ Distinct(s) /\ t \notin Range(s) /\ r = Append(s, t)
    BY <1>1, <1>3, <1>4, <1>5
  <2>2. Longer(s, t, r)
    BY <2>1, OneMore
  <2> QED BY <2>2 DEF Longer
<1>7. UpstreamOK'
  <2>1. upstream'.done \subseteq Range(r)
    BY <1>3, <1>4, <1>5, <1>6
  <2>2. \A u \in Tools \ Range(r) : upstream'.sent[u] = 0
    BY <1>3, <1>4, <1>5, <1>6 DEF UpstreamOK
  <2> QED BY <1>3, <1>4, <1>5, <1>6, <2>1, <2>2 DEF UpstreamOK
<1>8. ~upstream'.interleaved => ~upstream.interleaved /\ InTurn
  BY <1>2, <1>4 DEF InTurn
<1>9. upstream'.texts = (IF upstream.texts = "some" THEN "closed" ELSE upstream.texts)
  BY <1>2, <1>4
<1> QED BY <1>1, <1>4, <1>5, <1>6, <1>7, <1>8, <1>9

LEMMA ToolStartKeeps == ASSUME DeliveryInv, NEW t \in Tools, ToolStart(t) PROVE DeliveryInv'
<1>1. phase = "open" /\ phase' = "open" /\ route' = route /\ buffer' = buffer /\ toolIndex' = toolIndex
  BY DEF ToolStart
<1>2. /\ UpstreamOK /\ buffer \in [Tools -> Nat] /\ text \in BOOLEAN /\ route \in Streamed /\ ~client.bad
      /\ upstream.started \in Seq(Tools) /\ Distinct(upstream.started) /\ Len(upstream.started) \in Nat
  BY <1>1, UpstreamFieldsAre
<1>3. /\ UpstreamOK' /\ upstream'.sent = upstream.sent /\ upstream'.done = upstream.done
      /\ upstream'.unseen = upstream.unseen /\ upstream'.started = Append(upstream.started, t)
      /\ upstream'.indexed = upstream.indexed
      /\ upstream'.texts = (IF upstream.texts = "some" THEN "closed" ELSE upstream.texts)
      /\ t \notin Range(upstream.started) /\ upstream'.started # <<>>
      /\ Len(upstream'.started) = Len(upstream.started) + 1
      /\ \A i \in 1..Len(upstream.started) : upstream'.started[i] = upstream.started[i]
      /\ ~upstream'.interleaved => ~upstream.interleaved /\ InTurn
  BY ToolStartUpstream
<1>4. CASE route \in ToAnthropic
  <2>1. ToAnthropicInv
    BY <1>1, <1>4 DEF DeliveryInv
  <2>2. ToolStartAnthropic(t)
    BY <1>4 DEF ToolStart, ToAnthropic
  <2>3. PICK n \in Nat : n = Len(upstream.started)
    BY <1>2
  <2>4. /\ text' = FALSE /\ blocks' = Append(upstream.started, t)
        /\ toolUse' = (route = "responses to anthropic" \/ toolUse)
    BY <2>1, <2>2 DEF ToolStartAnthropic, ToAnthropicInv
  <2>5. PICK pre, e : pre = (IF text THEN <<Stop(0)>> ELSE <<>>) /\ e = StartTool(n + 1, t)
    OBVIOUS
  <2>6. pre \in Seq(Events) /\ e \in Events
    <3>1. n + 1 \in Nat
      OBVIOUS
    <3> QED BY <2>5, <3>1, EventsAre
  <2>7. Runs(client, pre \o <<e>>, client')
    <3>1. PICK all : all = pre \o <<e>>
      OBVIOUS
    <3>2. Len(all) \in Nat
      BY <2>6, <3>1
    <3>3. Emit(all)
      BY <2>1, <2>2, <2>3, <2>5, <3>1 DEF ToolStartAnthropic, ToAnthropicInv
    <3> QED BY <3>1, <3>2, <3>3, EmitRuns
  <2>8. PICK c, d : c = client /\ d = client'
    OBVIOUS
  <2>9. PICK x : Runs(c, pre, x) /\ d = Deliver(x, e)
    <3>1. <<e>> \in Seq(Events) /\ Runs(c, pre \o <<e>>, d)
      BY <2>6, <2>7, <2>8
    <3>2. PICK x : Runs(c, pre, x) /\ Runs(x, <<e>>, d)
      BY <2>6, <3>1, RunConcat
    <3> QED BY <3>2, RunOne
  <2>10. Quiet(c) /\ c.owner = upstream.started /\ c.open = (IF text THEN {0} ELSE {}) \cup 1..n
    BY <2>1, <2>3, <2>8 DEF ToAnthropicInv
  <2>11. Quiet(x) /\ SameCalls(c, x) /\ x.open = 1..n
    <3>0. 0 \notin 1..n
      OBVIOUS
    <3>1. CASE text
      <4>1. x = Deliver(c, Stop(0)) /\ 0 \in c.open
        BY <2>5, <2>9, <2>10, <3>1, RunOne
      <4>2. Quiet(x) /\ SameCalls(c, x) /\ x.open = c.open \ {0}
        BY <2>10, <4>1, StopIs
      <4> QED BY <2>10, <3>0, <3>1, <4>2
    <3>2. CASE ~text
      <4>1. x = c
        BY <2>5, <2>9, <3>2, RunNothing
      <4> QED BY <2>10, <3>2, <4>1 DEF SameCalls, SameTools, Quiet
    <3> QED BY <3>1, <3>2
  <2>12. /\ Quiet(d) /\ d.open = 1..(n + 1) /\ d.owner = Append(upstream.started, t) /\ d.got = c.got
         /\ d.text = c.text
         /\ ~c.wrong => ~d.wrong
    <3>1. PICK m \in Nat \ {0} : m = n + 1
      OBVIOUS
    <3>2. ToolStarted(x, m, t, d)
      <4>1. Shape(x) /\ d = Deliver(x, StartTool(m, t))
        BY <2>5, <2>9, <2>11, <3>1 DEF Quiet
      <4> QED BY <4>1, StartToolIs
    <3>3. /\ m = Len(x.owner) + 1 /\ x.owner = upstream.started /\ x.got = c.got /\ x.text = c.text
          /\ ~c.wrong => ~x.wrong
      BY <2>3, <2>10, <2>11, <3>1 DEF SameCalls, SameTools
    <3>4. m \notin x.open /\ x.open \cup {m} = 1..(n + 1)
      BY <2>11, <3>1
    <3> QED BY <2>11, <3>2, <3>3, <3>4 DEF ToolStarted
  <2>13. ToAnthropicInv'
    <3>1. /\ blocks' = upstream'.started /\ client'.owner = upstream'.started
          /\ client'.open = (IF text' THEN {0} ELSE {}) \cup 1..Len(blocks')
      BY <1>3, <2>3, <2>4, <2>8, <2>12
    <3>2. ASSUME route = "chat to anthropic"
          PROVE  /\ client'.got = upstream'.sent /\ \A u \in Tools : buffer'[u] = 0
                 /\ ~upstream'.interleaved => ~client'.wrong
      BY <1>1, <1>3, <2>1, <2>8, <2>12, <3>2 DEF ToAnthropicInv
    <3>3. ASSUME route = "responses to anthropic"
          PROVE  /\ \A u \in Tools : client'.got[u] = 0
                 /\ ~client'.wrong /\ toolUse'
                 /\ Placed' => \A u \in Tools \ upstream'.unseen : buffer'[u] = upstream'.sent[u]
      <4>1. Placed' => Placed
        BY <1>2, <1>3 DEF Placed
      <4> QED BY <1>1, <1>3, <2>1, <2>4, <2>8, <2>12, <3>3, <4>1 DEF ToAnthropicInv
    <3>4. Quiet(client')
      BY <2>8, <2>12
    <3>5. TextInv'
      <4>1. TextInv /\ client'.text = client.text /\ text' = FALSE
        BY <2>1, <2>4, <2>8, <2>12 DEF ToAnthropicInv
      <4>2. upstream'.texts = (IF upstream.texts = "some" THEN "closed" ELSE upstream.texts)
        BY <1>3
      <4> QED BY <4>1, <4>2 DEF TextInv
    <3> QED BY <1>1, <3>1, <3>2, <3>3, <3>4, <3>5 DEF ToAnthropicInv
  <2>14. /\ ~client'.bad /\ text' \in BOOLEAN /\ route # "responses to chat"
         /\ client'.text = "reopened" => upstream'.texts = "again"
    BY <1>4, <2>4, <2>8, <2>12, <2>13 DEF Quiet, ToAnthropic, ToAnthropicInv, TextInv
  <2> QED BY <1>1, <1>2, <1>3, <2>13, <2>14, OpenStep
<1>5. CASE route = "responses to chat"
  <2>1. ToChatInv
    BY <1>1, <1>5 DEF DeliveryInv
  <2>2. /\ client' = [Deliver(client, StartTool(toolIndex + 1, t)) EXCEPT !.bad = FALSE]
        /\ current' = TRUE /\ text' = text
    BY <1>5 DEF ToolStart, ToolStartChat, ToAnthropic
  <2>3. PICK m, c, d : /\ m = toolIndex + 1 /\ m \in Nat \ {0} /\ c = client
                       /\ d = Deliver(client, StartTool(toolIndex + 1, t))
    BY <2>1 DEF ToChatInv
  <2>4. ToolStarted(c, m, t, d)
    <3>1. Shape(c) /\ d = Deliver(c, StartTool(m, t)) /\ m \in Nat \ {0}
      BY <2>1, <2>3 DEF ToChatInv
    <3> QED BY <3>1, StartToolIs
  <2>5. /\ Shape(client') /\ client'.got = client.got /\ client'.owner = d.owner /\ client'.wrong = d.wrong
        /\ client'.bad = FALSE /\ client'.text = client.text
    <3>1. client' = [d EXCEPT !.bad = FALSE]
      BY <2>2, <2>3
    <3>2. Shape(d) /\ d.got = c.got /\ d.text = c.text
      BY <2>4 DEF ToolStarted
    <3> QED BY <2>3, <3>1, <3>2 DEF Shape, ClientFields
  <2>6. ASSUME ~upstream'.interleaved
        PROVE  /\ ~client'.wrong /\ client'.owner = upstream'.started
               /\ Len(upstream'.started) = toolIndex + 1
               /\ upstream'.done = {upstream'.started[i] : i \in 1..toolIndex}
    <3>1. ~upstream.interleaved /\ upstream.done = Range(upstream.started)
      BY <1>3, <1>5, <2>6 DEF InTurn
    <3>2. /\ ~client.wrong /\ client.owner = upstream.started
          /\ Len(upstream.started) = IF current THEN toolIndex + 1 ELSE toolIndex
          /\ upstream.done = {upstream.started[i] : i \in 1..toolIndex} /\ toolIndex \in Nat
      BY <2>1, <3>1 DEF ToChatInv
    <3>3. Len(upstream.started) = toolIndex
      <4>1. PICK s, k : s = upstream.started /\ k = toolIndex
        OBVIOUS
      <4>2. s \in Seq(Tools) /\ Distinct(s) /\ k \in Nat /\ Len(s) \in {k, k + 1}
        BY <1>2, <3>2, <4>1
      <4>3. Range(s) = {s[i] : i \in 1..k}
        BY <3>1, <3>2, <4>1
      <4>4. Len(s) = k
        BY <4>2, <4>3, AllDone
      <4> QED BY <4>1, <4>4
    <3>4. client'.owner = upstream'.started /\ ~client'.wrong
      BY <1>3, <2>3, <2>4, <2>5, <3>2, <3>3 DEF ToolStarted
    <3>5. upstream'.done = {upstream'.started[i] : i \in 1..toolIndex}
      BY <1>3, <3>2, <3>3
    <3> QED BY <1>3, <3>3, <3>4, <3>5
  <2>7. ToChatInv'
    <3>1. \A u \in Tools \ upstream'.unseen : client'.got[u] = upstream'.sent[u]
      BY <1>3, <2>1, <2>5 DEF ToChatInv
    <3>2. toolIndex' \in Nat
      BY <1>1, <2>1 DEF ToChatInv
    <3> QED BY <1>1, <2>2, <2>5, <2>6, <3>1, <3>2 DEF ToChatInv
  <2>8. /\ ~client'.bad /\ text' \in BOOLEAN /\ route \notin ToAnthropic
        /\ client'.text = "reopened" => upstream'.texts = "again"
    BY <1>2, <1>3, <1>5, <2>2, <2>5 DEF ToAnthropic, DeliveryInv, BlocksAreWellFormed
  <2> QED BY <1>1, <1>2, <1>3, <2>7, <2>8, OpenStep
<1>6. CASE route = "passthrough"
  <2>1. client' = client /\ text' = text
    BY <1>6 DEF ToolStart, ToAnthropic
  <2>2. client'.text = "reopened" => upstream'.texts = "again"
    BY <1>3, <2>1 DEF DeliveryInv, BlocksAreWellFormed
  <2> QED BY <1>1, <1>2, <1>3, <1>6, <2>1, <2>2, OpenStep DEF ToAnthropic
<1> QED BY <1>2, <1>4, <1>5, <1>6 DEF Streamed, ToAnthropic

\* The last tool call, when it is not among the first k of k or k + 1.
LEMMA NotDone ==
  ASSUME NEW s \in Seq(Tools), NEW k \in Nat, Len(s) \in {k, k + 1}, NEW t,
         t \in Range(s), t \notin {s[i] : i \in 1..k}
  PROVE  Len(s) = k + 1 /\ t = s[k + 1]
<1>1. PICK i \in DOMAIN s : t = s[i]
  BY Zenon DEF Range
<1>2. DOMAIN s = 1..Len(s)
  OBVIOUS
<1>3. i \notin 1..k
  BY <1>1
<1>4. i = k + 1 /\ Len(s) = k + 1
  <2>1. PICK n : n = Len(s)
    OBVIOUS
  <2>2. i \in 1..n /\ (n = k \/ n = k + 1) /\ k \in Nat
    BY <1>2, <2>1
  <2>3. i = k + 1 /\ n = k + 1
    BY <1>3, <2>2
  <2> QED BY <2>1, <2>3
<1> QED BY <1>1, <1>4

LEMMA Changed ==
  ASSUME NEW q \in [Tools -> Nat], NEW k, NEW v, k \in Tools => v \in Nat
  PROVE  [q EXCEPT ![k] = v] \in [Tools -> Nat]
<1>1. CASE k \in Tools
  BY <1>1
<1>2. CASE k \notin Tools
  BY <1>2
<1> QED BY <1>1, <1>2

\* Where a call is known by its output_index, or is the only one, its arguments are its own.
LEMMA SlotIs ==
  ASSUME Placed, upstream.started \in Seq(Tools), blocks = upstream.started,
         NEW t, t \in Range(upstream.started)
  PROVE  Slot(t) = t
<1>1. CASE upstream.indexed
  BY <1>1 DEF Slot
<1>2. CASE ~upstream.indexed
  <2>1. PICK s \in Seq(Tools) : s = upstream.started
    OBVIOUS
  <2>2. Len(s) <= 1 /\ Slot(t) = s[1]
    BY <1>2, <2>1 DEF Placed, Slot
  <2>3. PICK i \in DOMAIN s : t = s[i]
    BY <2>1, Zenon DEF Range
  <2>4. i = 1
    BY <2>2
  <2> QED BY <2>2, <2>3, <2>4
<1> QED BY <1>1, <1>2

LEMMA ToolArgumentsUpstream ==
  ASSUME DeliveryInv, NEW t \in Tools, ToolArguments(t)
  PROVE  /\ UpstreamOK' /\ upstream'.sent = [upstream.sent EXCEPT ![t] = @ + 1] /\ upstream'.done = upstream.done
         /\ upstream'.unseen = upstream.unseen /\ upstream'.started = upstream.started
         /\ upstream'.indexed = upstream.indexed /\ upstream'.texts = upstream.texts
         /\ t \in Range(upstream.started) /\ t \notin upstream.done
         /\ ~upstream'.interleaved => ~upstream.interleaved /\ Latest(t)
<1>1. phase = "open" /\ t \in Range(upstream.started) /\ t \notin upstream.done
  BY DEF ToolArguments
<1>2. PICK late : upstream' = [upstream EXCEPT !.sent[t] = @ + 1, !.interleaved = late]
                  /\ late = (upstream.interleaved
                              \/ (route # "responses to anthropic" /\ t # Last(upstream.started)))
  BY DEF ToolArguments
<1>3. UpstreamOK /\ DOMAIN upstream = UpstreamFields /\ upstream.sent \in [Tools -> Nat]
  BY <1>1, UpstreamFieldsAre
<1>4. DOMAIN upstream' = UpstreamFields /\ upstream'.sent = [upstream.sent EXCEPT ![t] = @ + 1]
      /\ upstream'.done = upstream.done /\ upstream'.unseen = upstream.unseen
      /\ upstream'.started = upstream.started /\ upstream'.interleaved = late
      /\ upstream'.indexed = upstream.indexed /\ upstream'.texts = upstream.texts
  BY <1>2, <1>3 DEF UpstreamFields
<1>5. upstream'.sent \in [Tools -> Nat]
  BY <1>3, <1>4
<1>6. UpstreamOK'
  BY <1>1, <1>3, <1>4, <1>5 DEF UpstreamOK
<1>7. ~upstream'.interleaved => ~upstream.interleaved /\ Latest(t)
  BY <1>2, <1>4 DEF Last, Latest
<1> QED BY <1>1, <1>4, <1>6, <1>7

LEMMA ToolArgumentsKeep == ASSUME DeliveryInv, NEW t \in Tools, ToolArguments(t) PROVE DeliveryInv'
<1>1. /\ phase = "open" /\ phase' = "open" /\ route' = route /\ toolIndex' = toolIndex /\ current' = current
      /\ text' = text /\ blocks' = blocks /\ toolUse' = toolUse
  BY DEF ToolArguments
<1>2. /\ UpstreamOK /\ buffer \in [Tools -> Nat] /\ text \in BOOLEAN /\ route \in Streamed /\ ~client.bad
      /\ upstream.started \in Seq(Tools) /\ Distinct(upstream.started) /\ Len(upstream.started) \in Nat
      /\ upstream.sent \in [Tools -> Nat]
  BY <1>1, UpstreamFieldsAre
<1>3. /\ UpstreamOK' /\ upstream'.sent = [upstream.sent EXCEPT ![t] = @ + 1] /\ upstream'.done = upstream.done
      /\ upstream'.unseen = upstream.unseen /\ upstream'.started = upstream.started
      /\ upstream'.indexed = upstream.indexed /\ upstream'.texts = upstream.texts
      /\ t \in Range(upstream.started) /\ t \notin upstream.done
      /\ ~upstream'.interleaved => ~upstream.interleaved /\ Latest(t)
  BY ToolArgumentsUpstream
<1>4. PICK n \in Nat \ {0} : n = Len(upstream.started)
  <2>1. PICK i \in DOMAIN upstream.started : t = upstream.started[i]
    BY <1>3, Zenon DEF Range
  <2>2. DOMAIN upstream.started = 1..Len(upstream.started)
    BY <1>2
  <2> QED BY <1>2, <2>1, <2>2
<1>5. CASE route = "chat to anthropic"
  <2>1. ToAnthropicInv
    BY <1>1, <1>5 DEF DeliveryInv, ToAnthropic
  <2>2. PICK c, d, e : c = client /\ d = client' /\ e = Arguments(n, t, 1)
    OBVIOUS
  <2>3. buffer' = buffer /\ d = Deliver(c, e)
    <3>1. Emit(<<Arguments(Len(blocks), t, 1)>>) /\ buffer' = buffer
      BY <1>5 DEF ToolArguments
    <3>2. PICK all : all = <<e>>
      OBVIOUS
    <3>3. Len(all) \in Nat /\ Emit(all)
      BY <1>4, <2>1, <2>2, <3>1, <3>2 DEF ToAnthropicInv
    <3>4. Runs(client, all, client')
      BY <3>3, EmitRuns
    <3>5. Runs(c, <<e>>, d)
      BY <2>2, <3>2, <3>4
    <3> QED BY <3>1, <3>5, RunOne
  <2>4. ToolTold(c, n, t, 1, d)
    <3>1. Shape(c) /\ 1 \in Nat /\ d = Deliver(c, Arguments(n, t, 1))
      BY <2>1, <2>2, <2>3 DEF ToAnthropicInv, Quiet
    <3> QED BY <3>1, ArgumentsAre
  <2>5. /\ Quiet(c) /\ c.owner = upstream.started /\ n \in 1..Len(c.owner) /\ n \in c.open
        /\ c.open = (IF text THEN {0} ELSE {}) \cup 1..n /\ c.got = upstream.sent
    <3>1. n \in 1..n
      OBVIOUS
    <3> QED BY <1>4, <1>5, <2>1, <2>2, <3>1 DEF ToAnthropicInv
  <2>6. /\ Quiet(d) /\ d.open = c.open /\ d.owner = c.owner /\ d.got = upstream'.sent /\ d.text = c.text
        /\ (c.owner[n] = t => (~c.wrong => ~d.wrong))
    BY <1>3, <2>4, <2>5 DEF ToolTold
  <2>7. ~upstream'.interleaved => ~d.wrong
    BY <1>3, <1>4, <1>5, <2>1, <2>2, <2>5, <2>6 DEF Latest, ToAnthropicInv
  <2>10. TextInv'
    BY <1>1, <1>3, <2>1, <2>2, <2>6 DEF TextInv, ToAnthropicInv
  <2>8. ToAnthropicInv'
    BY <1>1, <1>3, <1>5, <2>1, <2>2, <2>3, <2>5, <2>6, <2>7, <2>10 DEF ToAnthropicInv
  <2>9. /\ ~client'.bad /\ buffer' \in [Tools -> Nat] /\ text' \in BOOLEAN
        /\ client'.text = "reopened" => upstream'.texts = "again"
    BY <1>1, <1>2, <2>2, <2>3, <2>6, <2>10 DEF Quiet, TextInv
  <2> QED BY <1>1, <1>3, <1>5, <2>8, <2>9, OpenStep
<1>6. CASE route = "responses to anthropic"
  <2>1. ToAnthropicInv
    BY <1>1, <1>6 DEF DeliveryInv, ToAnthropic
  <2>2. buffer' = [buffer EXCEPT ![Slot(t)] = @ + 1] /\ client' = client
    BY <1>6 DEF ToolArguments, Buffer
  <2>3. buffer' \in [Tools -> Nat]
    <3>1. PICK q, k, v : q = buffer /\ k = Slot(t) /\ v = q[k] + 1
      OBVIOUS
    <3>2. q \in [Tools -> Nat] /\ buffer' = [q EXCEPT ![k] = v]
      BY <1>2, <2>2, <3>1
    <3>3. k \in Tools => v \in Nat
      BY <3>1, <3>2
    <3> QED BY <3>2, <3>3, Changed
  <2>4. ASSUME Placed, NEW u \in Tools \ upstream.unseen
        PROVE  buffer'[u] = upstream'.sent[u]
    <3>1. Slot(t) = t
      BY <1>2, <1>3, <2>1, <2>4, SlotIs DEF ToAnthropicInv
    <3>2. buffer[u] = upstream.sent[u]
      BY <1>6, <2>1, <2>4 DEF ToAnthropicInv
    <3>3. buffer' = [buffer EXCEPT ![t] = @ + 1]
      BY <2>2, <3>1
    <3> QED BY <1>2, <1>3, <3>2, <3>3
  <2>5. ToAnthropicInv'
    <3>1. TextInv' /\ (Placed' <=> Placed)
      BY <1>1, <1>3, <2>1, <2>2 DEF ToAnthropicInv, TextInv, Placed
    <3> QED BY <1>1, <1>3, <1>6, <2>1, <2>2, <2>4, <3>1 DEF ToAnthropicInv
  <2>6. /\ ~client'.bad /\ text' \in BOOLEAN
        /\ client'.text = "reopened" => upstream'.texts = "again"
    BY <1>1, <1>2, <1>3, <2>2 DEF DeliveryInv, BlocksAreWellFormed
  <2> QED BY <1>1, <1>3, <1>6, <2>3, <2>5, <2>6, OpenStep
<1>7. CASE route = "responses to chat"
  <2>1. ToChatInv
    BY <1>1, <1>7 DEF DeliveryInv
  <2>2. /\ client' = [Deliver(client, Arguments(toolIndex + 1, t, 1)) EXCEPT !.bad = FALSE]
        /\ buffer' = buffer
    BY <1>7 DEF ToolArguments
  <2>3. PICK m, c, d : /\ m = toolIndex + 1 /\ m \in Nat \ {0} /\ c = client
                       /\ d = Deliver(client, Arguments(toolIndex + 1, t, 1))
    BY <2>1 DEF ToChatInv
  <2>4. ToolTold(c, m, t, 1, d)
    <3>1. Shape(c) /\ 1 \in Nat /\ d = Deliver(c, Arguments(m, t, 1)) /\ m \in Nat \ {0}
      BY <2>1, <2>3 DEF ToChatInv
    <3> QED BY <3>1, ArgumentsAre
  <2>5. /\ Shape(client') /\ client'.got = [client.got EXCEPT ![t] = @ + 1] /\ client'.owner = client.owner
        /\ client'.wrong = d.wrong /\ client'.bad = FALSE /\ client'.text = client.text
    <3>1. client' = [d EXCEPT !.bad = FALSE]
      BY <2>2, <2>3
    <3>2. Shape(d) /\ d.got = [c.got EXCEPT ![t] = @ + 1] /\ d.owner = c.owner /\ d.text = c.text
      BY <2>4 DEF ToolTold
    <3> QED BY <2>3, <3>1, <3>2 DEF Shape, ClientFields
  <2>6. ASSUME ~upstream'.interleaved
        PROVE  ~client'.wrong /\ client.owner = upstream.started
    <3>1. /\ ~upstream.interleaved /\ t = upstream.started[n]
      BY <1>3, <1>4, <1>7, <2>6 DEF Latest
    <3>2. /\ ~client.wrong /\ client.owner = upstream.started
          /\ Len(upstream.started) = IF current THEN toolIndex + 1 ELSE toolIndex
          /\ upstream.done = {upstream.started[i] : i \in 1..toolIndex} /\ toolIndex \in Nat
      BY <2>1, <3>1 DEF ToChatInv
    <3>3. PICK s, k : s = upstream.started /\ k = toolIndex
      OBVIOUS
    <3>4. Len(s) = k + 1 /\ t = s[k + 1]
      <4>1. s \in Seq(Tools) /\ k \in Nat /\ Len(s) \in {k, k + 1} /\ t \in Range(s)
        BY <1>2, <1>3, <3>2, <3>3
      <4>2. t \notin {s[i] : i \in 1..k}
        BY <1>3, <3>2, <3>3
      <4> QED BY <4>1, <4>2, NotDone
    <3>5. m \in 1..Len(c.owner) /\ c.owner[m] = t
      BY <2>3, <3>2, <3>3, <3>4
    <3> QED BY <2>3, <2>4, <2>5, <3>2, <3>5 DEF ToolTold
  <2>7. ToChatInv'
    <3>1. \A u \in Tools \ upstream'.unseen : client'.got[u] = upstream'.sent[u]
      <4>1. client.got \in [Tools -> Nat]
        BY <2>1 DEF ToChatInv, Shape
      <4> QED BY <1>2, <1>3, <2>1, <2>5, <4>1 DEF ToChatInv
    <3>2. toolIndex' \in Nat
      BY <1>1, <2>1 DEF ToChatInv
    <3>3. ASSUME ~upstream'.interleaved
          PROVE  /\ ~client'.wrong /\ client'.owner = upstream'.started
                 /\ Len(upstream'.started) = IF current' THEN toolIndex' + 1 ELSE toolIndex'
                 /\ upstream'.done = {upstream'.started[i] : i \in 1..toolIndex'}
      BY <1>1, <1>3, <2>1, <2>5, <2>6, <3>3 DEF ToChatInv
    <3> QED BY <2>5, <3>1, <3>2, <3>3 DEF ToChatInv
  <2>8. /\ ~client'.bad /\ text' \in BOOLEAN /\ route \notin ToAnthropic /\ buffer' \in [Tools -> Nat]
        /\ client'.text = "reopened" => upstream'.texts = "again"
    BY <1>1, <1>2, <1>3, <1>7, <2>2, <2>5 DEF ToAnthropic, DeliveryInv, BlocksAreWellFormed
  <2> QED BY <1>1, <1>3, <2>7, <2>8, OpenStep
<1>8. CASE route = "passthrough"
  <2>1. client' = client /\ buffer' = buffer
    BY <1>8 DEF ToolArguments
  <2>2. client'.text = "reopened" => upstream'.texts = "again"
    BY <1>3, <2>1 DEF DeliveryInv, BlocksAreWellFormed
  <2> QED BY <1>1, <1>2, <1>3, <1>8, <2>1, <2>2, OpenStep DEF ToAnthropic
<1> QED BY <1>2, <1>5, <1>6, <1>7, <1>8 DEF Streamed

LEMMA ToolDoneKeeps == ASSUME DeliveryInv, NEW t \in Tools, ToolDone(t) PROVE DeliveryInv'
<1>1. /\ phase = "open" /\ phase' = "open" /\ route' = route /\ client' = client
      /\ text' = text /\ blocks' = blocks /\ toolUse' = toolUse
      /\ route \notin FromChat /\ t \in Range(upstream.started) /\ t \notin upstream.done
  BY DEF ToolDone
<1>2. /\ UpstreamOK /\ buffer \in [Tools -> Nat] /\ text \in BOOLEAN /\ route \in Streamed /\ ~client.bad
      /\ upstream.started \in Seq(Tools) /\ Distinct(upstream.started) /\ Len(upstream.started) \in Nat
      /\ upstream.sent \in [Tools -> Nat] /\ DOMAIN upstream = UpstreamFields
      /\ upstream.done \subseteq Range(upstream.started)
  BY <1>1, UpstreamFieldsAre
<1>11. PICK custom \in BOOLEAN :
        /\ upstream' = [upstream EXCEPT
               !.done = @ \cup {t}, !.sent[t] = IF upstream.sent[t] = 0 THEN 1 ELSE @,
               !.unseen = IF upstream.sent[t] = 0 /\ (custom \/ route = "responses to chat")
                          THEN @ \cup {t} ELSE @]
        /\ IF route = "responses to anthropic"
           THEN /\ buffer' = [buffer EXCEPT ![Slot(t)] = IF @ = 0 /\ ~custom THEN 1 ELSE @]
                /\ UNCHANGED <<toolIndex, current>>
           ELSE toolIndex' = toolIndex + 1 /\ current' = FALSE /\ UNCHANGED buffer
  BY DEF ToolDone
<1>12. PICK lost \in BOOLEAN : lost = (custom \/ route = "responses to chat")
  OBVIOUS
<1>13. PICK some, hidden :
        /\ some = (IF upstream.sent[t] = 0 THEN 1 ELSE upstream.sent[t])
        /\ hidden = (IF upstream.sent[t] = 0 /\ lost THEN upstream.unseen \cup {t} ELSE upstream.unseen)
  OBVIOUS
<1>3. upstream' = [upstream EXCEPT !.done = @ \cup {t}, !.sent[t] = some, !.unseen = hidden]
  BY <1>11, <1>12, <1>13
<1>10. some = (IF upstream.sent[t] = 0 THEN 1 ELSE upstream.sent[t])
  BY <1>13
<1>4. /\ DOMAIN upstream' = UpstreamFields /\ upstream'.sent = [upstream.sent EXCEPT ![t] = some]
      /\ upstream'.done = upstream.done \cup {t} /\ upstream'.unseen = hidden
      /\ upstream'.started = upstream.started /\ upstream'.interleaved = upstream.interleaved
      /\ upstream'.indexed = upstream.indexed /\ upstream'.texts = upstream.texts
  BY <1>2, <1>3 DEF UpstreamFields
<1>5. upstream'.sent \in [Tools -> Nat]
  <2>1. some \in Nat
    BY <1>2, <1>10
  <2> QED BY <1>2, <1>4, <2>1
<1>6. UpstreamOK'
  <2>1. \A u \in Tools \ Range(upstream.started) : upstream'.sent[u] = 0
    BY <1>1, <1>2, <1>4 DEF UpstreamOK
  <2> QED BY <1>1, <1>2, <1>4, <1>5, <2>1 DEF UpstreamOK
<1>7. /\ ~client'.bad /\ text' \in BOOLEAN
      /\ client'.text = "reopened" => upstream'.texts = "again"
  BY <1>1, <1>2, <1>4 DEF DeliveryInv, BlocksAreWellFormed
<1>8. CASE route = "responses to anthropic"
  <2>1. ToAnthropicInv
    BY <1>1, <1>8 DEF DeliveryInv, ToAnthropic
  <2>2. buffer' = [buffer EXCEPT ![Slot(t)] = IF @ = 0 /\ ~custom THEN 1 ELSE @]
    BY <1>8, <1>11
  <2>3. ASSUME Placed, NEW u \in Tools \ upstream'.unseen
        PROVE  buffer'[u] = upstream'.sent[u]
    <3>1. Slot(t) = t
      <4>1. t \in Range(upstream.started)
        BY <1>1
      <4> QED BY <1>2, <2>1, <2>3, <4>1, SlotIs DEF ToAnthropicInv
    <3>2. u \notin upstream.unseen /\ (u = t => upstream.sent[t] # 0 \/ ~custom)
      <4>1. upstream'.unseen = hidden /\ u \notin hidden
        BY <1>4, <2>3
      <4>2. custom => lost
        BY <1>12
      <4> QED BY <1>13, <4>1, <4>2
    <3>3. buffer[u] = upstream.sent[u]
      BY <1>8, <2>1, <2>3, <3>2 DEF ToAnthropicInv
    <3>4. buffer' = [buffer EXCEPT ![t] = IF @ = 0 /\ ~custom THEN 1 ELSE @]
      BY <2>2, <3>1
    <3>5. CASE u = t
      <4>1. buffer'[t] = (IF buffer[t] = 0 /\ ~custom THEN 1 ELSE buffer[t]) /\ upstream'.sent[t] = some
        BY <1>2, <1>4, <3>4
      <4> QED BY <1>10, <3>2, <3>3, <3>5, <4>1
    <3>6. CASE u # t
      BY <1>2, <1>4, <3>3, <3>4, <3>6
    <3> QED BY <3>5, <3>6
  <2>4. ToAnthropicInv'
    <3>1. TextInv' /\ (Placed' <=> Placed)
      BY <1>1, <1>4, <2>1 DEF ToAnthropicInv, TextInv, Placed
    <3> QED BY <1>1, <1>4, <1>8, <2>1, <2>3, <3>1 DEF ToAnthropicInv
  <2>5. buffer' \in [Tools -> Nat]
    <3>1. PICK q, k, v : q = buffer /\ k = Slot(t) /\ v = (IF q[k] = 0 /\ ~custom THEN 1 ELSE q[k])
      OBVIOUS
    <3>2. q \in [Tools -> Nat] /\ buffer' = [q EXCEPT ![k] = v]
      BY <1>2, <2>2, <3>1
    <3>3. k \in Tools => v \in Nat
      BY <3>1, <3>2
    <3> QED BY <3>2, <3>3, Changed
  <2> QED BY <1>1, <1>6, <1>7, <1>8, <2>4, <2>5, OpenStep
<1>9. CASE route = "responses to chat"
  <2>1. ToChatInv
    BY <1>1, <1>9 DEF DeliveryInv
  <2>2. toolIndex' = toolIndex + 1 /\ current' = FALSE /\ buffer' = buffer
    BY <1>9, <1>11
  <2>3. ASSUME NEW u \in Tools \ upstream'.unseen PROVE client'.got[u] = upstream'.sent[u]
    <3>1. u \notin upstream.unseen /\ (u = t => some = upstream.sent[t])
      <4>1. u \notin hidden
        BY <1>4, <2>3
      <4>2. u \notin upstream.unseen /\ (u = t => upstream.sent[t] # 0)
        <5>1. lost
          BY <1>9, <1>12
        <5> QED BY <1>13, <4>1, <5>1
      <4> QED BY <1>10, <4>2
    <3>2. upstream'.sent[u] = upstream.sent[u]
      BY <1>2, <1>4, <3>1
    <3> QED BY <1>1, <2>1, <2>3, <3>1, <3>2 DEF ToChatInv
  <2>4. ASSUME ~upstream'.interleaved
        PROVE  /\ ~client.wrong /\ client.owner = upstream.started
               /\ Len(upstream.started) = toolIndex'
               /\ upstream'.done = {upstream.started[i] : i \in 1..toolIndex'}
    <3>1. ~upstream.interleaved
      BY <1>4, <2>4
    <3>2. /\ ~client.wrong /\ client.owner = upstream.started
          /\ Len(upstream.started) = IF current THEN toolIndex + 1 ELSE toolIndex
          /\ upstream.done = {upstream.started[i] : i \in 1..toolIndex} /\ toolIndex \in Nat
      BY <2>1, <3>1 DEF ToChatInv
    <3>3. PICK s, k : s = upstream.started /\ k = toolIndex
      OBVIOUS
    <3>4. Len(s) = k + 1 /\ t = s[k + 1]
      <4>1. s \in Seq(Tools) /\ k \in Nat /\ Len(s) \in {k, k + 1} /\ t \in Range(s)
        BY <1>1, <1>2, <3>2, <3>3
      <4>2. t \notin {s[i] : i \in 1..k}
        BY <1>1, <3>2, <3>3
      <4> QED BY <4>1, <4>2, NotDone
    <3>5. {s[i] : i \in 1..k} \cup {s[k + 1]} = {s[i] : i \in 1..(k + 1)}
      <4>1. k \in Nat
        BY <3>2, <3>3
      <4>2. \A i : i \in 1..(k + 1) <=> i \in 1..k \/ i = k + 1
        BY <4>1
      <4> QED BY <4>2
    <3>6. upstream'.done = {s[i] : i \in 1..(k + 1)}
      BY <1>4, <3>2, <3>3, <3>4, <3>5
    <3> QED BY <2>2, <3>2, <3>3, <3>4, <3>6
  <2>5. ToChatInv'
    <3>1. Shape(client') /\ toolIndex' \in Nat
      BY <1>1, <2>1, <2>2 DEF ToChatInv
    <3> QED BY <1>1, <1>4, <2>2, <2>3, <2>4, <3>1 DEF ToChatInv
  <2>6. buffer' \in [Tools -> Nat] /\ route \notin ToAnthropic
    BY <1>2, <1>9, <2>2 DEF ToAnthropic
  <2> QED BY <1>1, <1>6, <1>7, <2>5, <2>6, OpenStep
<1> QED BY <1>1, <1>2, <1>8, <1>9 DEF Streamed, FromChat

LEMMA WholeAnswerKeeps == ASSUME DeliveryInv, WholeAnswer PROVE DeliveryInv'
<1>1. phase = "waiting" /\ phase' \in {"ended", "cut"} /\ route' = route /\ client' = client
  BY DEF WholeAnswer
<1>2. PICK report : upstream' = [upstream EXCEPT !.reported = report]
  BY DEF WholeAnswer
<1>3. route \in Routes /\ route \notin Streamed /\ ~client.wrong /\ client.got = upstream.sent
      /\ DOMAIN upstream = UpstreamFields /\ ~client.bad
  BY <1>1 DEF DeliveryInv
<1>4. upstream'.sent = upstream.sent /\ upstream'.texts = upstream.texts
  BY <1>2, <1>3 DEF UpstreamFields
<1>5. BlocksAreWellFormed'
  BY <1>1, <1>3, <1>4 DEF DeliveryInv, BlocksAreWellFormed, ToAnthropic, Streamed
<1>6. ArgumentsReachTheirTool'
  BY <1>1, <1>3, <1>4 DEF ArgumentsReachTheirTool, Streamed
<1> QED BY <1>1, <1>3, <1>5, <1>6 DEF DeliveryInv

LEMMA DeliveryStep == DeliveryInv /\ [StreamNext]_streamVars => DeliveryInv'
<1> SUFFICES ASSUME DeliveryInv, [StreamNext]_streamVars PROVE DeliveryInv'
  OBVIOUS
<1>1. CASE WholeFails
  BY <1>1 DEF WholeFails, DeliveryInv, BlocksAreWellFormed, ArgumentsReachTheirTool
<1>2. CASE Cut
  BY <1>2 DEF Cut, DeliveryInv, BlocksAreWellFormed, ArgumentsReachTheirTool
<1>3. CASE UNCHANGED streamVars
  <2>1. UNCHANGED <<route, phase, text, blocks, buffer, toolUse, toolIndex, current, reason, client, upstream>>
    BY <1>3 DEF streamVars
  <2>2. UpstreamOK => UpstreamOK'
    BY <2>1 DEF UpstreamOK
  <2>3. ToAnthropicInv => ToAnthropicInv'
    BY <2>1 DEF ToAnthropicInv, TextInv, Placed
  <2>4. ToChatInv => ToChatInv'
    BY <2>1, ToChatStays
  <2>5. BlocksAreWellFormed' /\ ArgumentsReachTheirTool'
    BY <2>1 DEF DeliveryInv, BlocksAreWellFormed, ArgumentsReachTheirTool
  <2> QED BY <2>1, <2>2, <2>3, <2>4, <2>5 DEF DeliveryInv
<1>4. CASE \E t \in Tools : ToolStart(t) \/ ToolArguments(t) \/ ToolDone(t)
  BY <1>4, ToolStartKeeps, ToolArgumentsKeep, ToolDoneKeeps
<1> QED BY <1>1, <1>2, <1>3, <1>4, TextKeeps, UsageChunkKeeps, FinishKeeps, EofKeeps, UpstreamErrorKeeps,
           WholeAnswerKeeps DEF StreamNext

LEMMA DeliveryStarts == StreamInit => DeliveryInv
<1> SUFFICES ASSUME StreamInit PROVE DeliveryInv
  OBVIOUS
<1>1. /\ route \in Routes /\ phase = (IF route \in Streamed THEN "open" ELSE "waiting")
      /\ text = FALSE /\ blocks = <<>> /\ buffer = [t \in Tools |-> 0] /\ toolIndex = 0 /\ current = FALSE
      /\ client = NewClient /\ \E indexed \in BOOLEAN : upstream = NewUpstream(indexed)
  BY DEF StreamInit
<1>2. /\ DOMAIN client = ClientFields /\ client.open = {} /\ client.got = [t \in Tools |-> 0]
      /\ client.owner = <<>> /\ client.wrong = FALSE /\ client.bad = FALSE /\ client.stops = 0
      /\ client.text = "none"
  BY <1>1 DEF NewClient, ClientFields
<1>3. /\ DOMAIN upstream = UpstreamFields /\ upstream.sent = [t \in Tools |-> 0] /\ upstream.started = <<>>
      /\ upstream.done = {} /\ upstream.interleaved = FALSE /\ upstream.texts = "none"
  BY <1>1 DEF NewUpstream, UpstreamFields
<1>4. /\ buffer \in [Tools -> Nat] /\ [t \in Tools |-> 0] \in [Tools -> Nat]
  BY <1>1
<1>5. Quiet(client) /\ Shape(client)
  BY <1>2, <1>4 DEF Quiet, Shape
<1>6. UpstreamOK
  <2>1. Distinct(<<>>) /\ <<>> \in Seq(Tools)
    BY DEF Distinct
  <2>2. \A t \in Tools : upstream.sent[t] = 0
    BY <1>3
  <2> QED BY <1>3, <1>4, <2>1, <2>2 DEF UpstreamOK
<1>7. ToAnthropicInv
  <2>1. client.open = (IF text THEN {0} ELSE {}) \cup 1..Len(blocks)
    BY <1>1, <1>2
  <2>2. TextInv
    BY <1>1, <1>2, <1>3 DEF TextInv
  <2> QED BY <1>1, <1>2, <1>3, <1>5, <2>1, <2>2 DEF ToAnthropicInv
<1>8. ToChatInv
  <2>1. Len(upstream.started) = 0 /\ {upstream.started[i] : i \in 1..0} = {}
    BY <1>3
  <2> QED BY <1>1, <1>2, <1>3, <1>5, <2>1 DEF ToChatInv
<1>9. BlocksAreWellFormed /\ ArgumentsReachTheirTool
  BY <1>1, <1>2 DEF BlocksAreWellFormed, ArgumentsReachTheirTool
<1> QED BY <1>1, <1>2, <1>3, <1>4, <1>6, <1>7, <1>8, <1>9 DEF DeliveryInv

\* For any tool calls, any number of fragments and any order of text and tool
\* calls, an Anthropic client sees no block filled or closed that is not open, none
\* opened while it is open and no tool block opened again; block 0, the text, is
\* opened again only after a tool call that followed text; a message that came to
\* its end closed every block and ended once (streamOpenAIOrResponsesToAnthropic).
THEOREM BlocksStayWellFormed == StreamSpec => []BlocksAreWellFormed
<1>1. DeliveryInv => BlocksAreWellFormed
  BY DEF DeliveryInv
<1> QED BY <1>1, DeliveryStarts, DeliveryStep, PTL DEF StreamSpec

\* At the end of a stream every tool call has all of its arguments and none of
\* another's: interleaved ones too where responseToolArgBuffers keeps them apart
\* by their output_index, and those that only response.output_item.done brings
\* unless the client is a Chat client or they are the input of a custom tool.
THEOREM ArgumentsArrive == StreamSpec => []ArgumentsReachTheirTool
<1>1. DeliveryInv => ArgumentsReachTheirTool
  BY DEF DeliveryInv
<1> QED BY <1>1, DeliveryStarts, DeliveryStep, PTL DEF StreamSpec
================================================================================
