----------------------------- MODULE GuardProofs -----------------------------
(***************************************************************************)
(* Machine-checked proofs about Guard, for any tokens, expiry times,       *)
(* leeway, limits and length of run.                                       *)
(*                                                                         *)
(* 1. A token admits one call (Remembered).                                *)
(* 2. The rate limit, which a sum over the run's admissions states: the    *)
(*    sum of the model is the number of its pairs (SumIsCount), and the    *)
(*    rows of the table count the admissions of their windows (Budget).    *)
(***************************************************************************)
EXTENDS Guard, FiniteSetTheorems, WellFoundedInduction, TLAPS

\* An accepted token stays in the table until the clock is past its expiry.
Remembered == \A t \in Tokens : uses[t] = 0 \/ t \in jti \/ ExpOf[t] < now

\* The part of the types that the argument needs.
Typed ==
  /\ now \in Nat /\ jti \subseteq Tokens /\ uses \in [Tokens -> Nat]
  /\ token \in Tokens \cup {None} /\ (at # "idle" => token \in Tokens)

GInv == Typed /\ Remembered /\ UsedOnce

\* No token has been seen at the start.
LEMMA GuardInit == Init => GInv
<1> SUFFICES ASSUME Init PROVE GInv
  OBVIOUS
<1>1. Typed
  BY DEF Init, Typed
<1>2. Remembered /\ UsedOnce
  BY DEF Init, Remembered, UsedOnce
<1> QED BY <1>1, <1>2 DEF GInv

\* Every step keeps the table long enough, the deletions of accept_jti included.
LEMMA GuardStep == GInv /\ [Next]_vars => GInv'
<1> SUFFICES ASSUME GInv, [Next]_vars PROVE GInv'
  OBVIOUS
<1> USE GuardConstants DEF tables, history
<1>1. CASE Tick
  <2>1. now' = now + 1 /\ UNCHANGED <<jti, uses, token, at>>
    BY <1>1 DEF Tick
  <2> QED BY <2>1 DEF GInv, Typed, Remembered, UsedOnce
<1>2. ASSUME NEW t \in Tokens, Decode(t) PROVE GInv'
  <2>1. /\ UNCHANGED <<now, jti, uses>>
        /\ \/ token' = t
           \/ UNCHANGED <<token, at>>
    BY <1>2 DEF Decode
  <2> QED BY <2>1 DEF GInv, Typed, Remembered, UsedOnce
<1>3. CASE AcceptJti
  <2> DEFINE known == jti \ Expired
  <2>1. /\ token \in Tokens /\ jti' = known \cup {token} /\ now' = now
        /\ at' # "idle" => token' = token
        /\ token' \in {token, None}
    BY <1>3 DEF AcceptJti, GInv, Typed
  <2>2. \A t \in Tokens : t \in jti => t \in known \/ ExpOf[t] < now
    BY DEF Expired
  <2>3. CASE uses' = uses
    BY <2>1, <2>2, <2>3 DEF GInv, Typed, Remembered, UsedOnce
  <2>4. CASE uses' # uses
    <3>1. /\ token \notin known /\ now <= ExpOf[token]
          /\ uses' = [uses EXCEPT ![token] = @ + 1]
      BY <1>3, <2>4 DEF AcceptJti
    <3>2. ExpOf[token] \in Nat /\ ~(ExpOf[token] < now)
      BY <2>1, <3>1 DEF GInv, Typed
    <3>3. uses[token] = 0
      BY <2>1, <2>2, <3>1, <3>2 DEF GInv, Remembered
    <3>4. /\ uses'[token] = 1 /\ uses' \in [Tokens -> Nat]
          /\ \A t \in Tokens \ {token} : uses'[t] = uses[t]
      BY <2>1, <3>1, <3>3 DEF GInv, Typed
    <3> QED BY <2>1, <2>2, <3>4 DEF GInv, Typed, Remembered, UsedOnce
  <2> QED BY <2>3, <2>4
<1>4. CASE CheckRate
  <2>1. UNCHANGED <<now, jti, uses>> /\ at' = "idle" /\ token' = None
    BY <1>4 DEF CheckRate
  <2> QED BY <2>1 DEF GInv, Typed, Remembered, UsedOnce
<1>5. CASE UNCHANGED vars
  BY <1>5 DEF vars, GInv, Typed, Remembered, UsedOnce
<1> QED BY <1>1, <1>2, <1>3, <1>4, <1>5 DEF Next

\* A token is accepted at most once before it expires (repository.accept_jti),
\* however many calls delete rows of the table meanwhile.
THEOREM TokenIsSingleUse == Spec => []UsedOnce
<1>1. GInv => UsedOnce
  BY DEF GInv
<1> QED BY <1>1, GuardInit, GuardStep, PTL DEF Spec

-----------------------------------------------------------------------------
(* Types: no counter gets past the number of calls, and a row of            *)
(* rate_windows starts a window.                                            *)

\* The call in progress is counted in calls before it is counted elsewhere.
Counted ==
  LET done == IF at = "idle" THEN calls ELSE calls - 1 IN
  /\ done \in Nat
  /\ \A s \in Subjects, w \in Times : rate[s][w] <= done /\ admitted[s][w] <= done
  /\ \A t \in Tokens : uses[t] <= calls

TInv == TypeOK /\ Counted /\ GInv

\* A window contains the time it is the window of.
LEMMA WindowOfTime ==
  ASSUME NEW t \in Times
  PROVE  WindowAt(t) \in Times /\ WindowAt(t) % Window = 0
<1>1. t \in Nat /\ t <= MaxTime /\ Window \in Nat \ {0} /\ MaxTime \in Nat
  BY GuardConstants DEF Times
<1>2. t % Window \in 0..(Window - 1) /\ t = Window * (t \div Window) + (t % Window)
      /\ t \div Window \in Nat
  BY <1>1
<1>3. WindowAt(t) = Window * (t \div Window)
  BY <1>1, <1>2 DEF WindowAt
<1>4. ASSUME NEW n \in Nat PROVE (Window * n) % Window = 0
  <2> DEFINE m == Window * n
             d == m \div Window
             r == m % Window
  <2>1. m \in Nat
    BY <1>1
  <2>2. d \in Nat /\ r \in 0..(Window - 1) /\ m = Window * d + r
    <3> HIDE DEF m
    <3> QED BY <1>1, <2>1
  <2>3. m = Window * n
    OBVIOUS
  <2> HIDE DEF m, d, r
  <2>4. CASE n <= d
    <3>1. PICK k \in Nat : d = n + k
      BY <2>2, <2>4
    <3>2. Window * d = Window * n + Window * k /\ Window * k \in Nat
      BY <1>1, <3>1
    <3> QED BY <2>1, <2>2, <2>3, <3>2 DEF r
  <2>5. CASE n > d
    <3>1. PICK k \in Nat : n = d + 1 + k
      BY <2>2, <2>5
    <3>2. Window * n = Window * d + Window + Window * k /\ Window * k \in Nat
      BY <1>1, <2>2, <3>1
    <3> QED BY <1>1, <2>1, <2>2, <2>3, <3>2
  <2>6. n <= d \/ n > d
    BY <2>2
  <2> QED BY <2>4, <2>5, <2>6, Zenon
<1>5. WindowAt(t) % Window = 0
  BY <1>2, <1>3, <1>4
<1>6. WindowAt(t) \in Nat
  BY <1>1, <1>2, <1>3
<1>7. WindowAt(t) <= t
  BY <1>1, <1>2 DEF WindowAt
<1> QED BY <1>1, <1>5, <1>6, <1>7 DEF Times

\* Nobody has called at the start.
LEMMA TypesInit == Init => TInv
<1> SUFFICES ASSUME Init PROVE TInv
  OBVIOUS
<1>1. TypeOK
  BY GuardConstants DEF Init, TypeOK, Times
<1>2. Counted
  BY DEF Init, Counted
<1> QED BY <1>1, <1>2, GuardInit DEF TInv

\* Every step keeps the counters within the calls.
LEMMA TypesStep == TInv /\ [Next]_vars => TInv'
<1> SUFFICES ASSUME TInv, [Next]_vars PROVE TInv'
  OBVIOUS
<1>1. TypeOK /\ Counted /\ GInv' /\ UsedOnce'
  BY GuardStep DEF TInv, GInv
<1>2. /\ now \in Nat /\ now <= MaxTime /\ MaxTime \in Nat /\ MaxCalls \in Nat
      /\ calls \in Nat /\ calls <= MaxCalls /\ now \in Times
  BY <1>1, GuardConstants DEF TypeOK, Times
<1> USE DEF tables, history
<1>3. CASE Tick
  <2>1. now < MaxTime /\ now' = now + 1
        /\ UNCHANGED <<jti, rate, token, at, calls, uses, admitted, refused>>
    BY <1>3 DEF Tick
  <2>2. now' \in Times
    BY <1>2, <2>1 DEF Times
  <2>3. TypeOK'
    BY <1>1, <2>1, <2>2 DEF TypeOK
  <2>4. Counted'
    BY <1>1, <2>1 DEF Counted
  <2> QED BY <1>1, <2>3, <2>4 DEF TInv
<1>4. ASSUME NEW t \in Tokens, Decode(t) PROVE TInv'
  <2>1. /\ at = "idle" /\ calls < MaxCalls /\ calls' = calls + 1
        /\ UNCHANGED <<now, jti, rate, uses, admitted, refused>>
        /\ \/ token' = t /\ at' = "jti"
           \/ UNCHANGED <<token, at>>
    BY <1>4 DEF Decode
  <2>2. TypeOK'
    BY <1>1, <1>2, <2>1, GuardConstants DEF TypeOK, Times
  <2>3. Counted'
    BY <1>1, <1>2, <2>1 DEF TypeOK, Counted
  <2> QED BY <1>1, <2>2, <2>3 DEF TInv
<1>5. CASE AcceptJti
  <2>1. /\ at = "jti" /\ token \in Tokens /\ jti' \subseteq Tokens
        /\ UNCHANGED <<now, rate, calls, admitted, refused>>
        /\ \/ at' = "idle" /\ token' = None
           \/ at' = "rate" /\ token' = token
        /\ uses' \in {uses, [uses EXCEPT ![token] = @ + 1]}
    BY <1>1, <1>5 DEF AcceptJti, TypeOK
  <2>2. calls - 1 \in Nat
    BY <1>1, <2>1 DEF Counted
  <2>3. uses' \in [Tokens -> Nat]
    BY <1>1 DEF GInv, Typed
  <2>4. \A t \in Tokens : uses'[t] \in 0..calls
    BY <1>1, <1>2, <2>2, <2>3 DEF UsedOnce
  <2>5. uses' \in [Tokens -> 0..MaxCalls]
    BY <1>2, <2>3, <2>4
  <2>6. TypeOK'
    BY <1>1, <2>1, <2>5, GuardConstants DEF TypeOK
  <2>7. Counted'
    BY <1>1, <1>2, <2>1, <2>2, <2>4 DEF TypeOK, Counted
  <2> QED BY <1>1, <2>6, <2>7 DEF TInv
<1>6. CASE CheckRate
  <2> DEFINE sub == SubjectOf[token]
             w0 == WindowAt(now)
             count == rate[sub][w0] + 1
  <2>1. /\ at = "rate" /\ token \in Tokens /\ sub \in Subjects
        /\ rate' = Trimmed([rate EXCEPT ![sub][w0] = count])
        /\ \/ admitted' = [admitted EXCEPT ![sub][now] = @ + 1] /\ UNCHANGED refused
           \/ refused' = refused \cup {<<sub, w0>>} /\ UNCHANGED admitted
        /\ at' = "idle" /\ token' = None /\ UNCHANGED <<now, jti, calls, uses>>
    BY <1>1, <1>6, GuardConstants DEF CheckRate, ThisWindow, TypeOK
  <2>2. w0 \in Times /\ w0 % Window = 0
    BY <1>2, WindowOfTime
  <2>3. /\ calls - 1 \in Nat
        /\ \A s \in Subjects, w \in Times :
             rate[s][w] \in 0..(calls - 1) /\ admitted[s][w] \in 0..(calls - 1)
    BY <1>1, <2>1 DEF Counted, TypeOK
  <2> HIDE DEF w0, sub
  <2>4. \A s \in Subjects, w \in Times :
          \/ rate'[s][w] \in {0, rate[s][w]}
          \/ s = sub /\ w = w0 /\ rate'[s][w] = rate[s][w] + 1
    BY <1>1, <2>1 DEF Trimmed, TypeOK
  <2>5. rate' \in [Subjects -> [Times -> 0..MaxCalls]]
    <3>1. ASSUME NEW s \in Subjects, NEW w \in Times PROVE rate'[s][w] \in 0..MaxCalls
      <4>1. rate[s][w] \in 0..(calls - 1)
        BY <2>3
      <4>2. \/ rate'[s][w] \in {0, rate[s][w]}
            \/ rate'[s][w] = rate[s][w] + 1
        BY <2>4
      <4> QED BY <1>2, <4>1, <4>2
    <3>2. ASSUME NEW s \in Subjects PROVE rate'[s] \in [Times -> 0..MaxCalls]
      <4>1. rate'[s] = [w \in Times |-> rate'[s][w]]
        BY <2>1 DEF Trimmed
      <4> QED BY <3>1, <4>1
    <3>3. rate' = [s \in Subjects |-> rate'[s]]
      BY <2>1 DEF Trimmed
    <3> QED BY <3>2, <3>3
  <2>6. /\ \A s \in Subjects, w \in Times :
             admitted'[s][w] \in {admitted[s][w], admitted[s][w] + 1}
        /\ admitted' \in [Subjects -> [Times -> 0..MaxCalls]]
    <3>1. CASE admitted' = admitted
      BY <1>1, <3>1 DEF TypeOK
    <3>2. CASE admitted' = [admitted EXCEPT ![sub][now] = @ + 1]
      <4>1. admitted[sub] \in [Times -> 0..MaxCalls]
        BY <1>1, <2>1 DEF TypeOK
      <4>2. admitted[sub][now] + 1 \in 0..MaxCalls
        BY <1>2, <2>1, <2>3
      <4>3. [admitted[sub] EXCEPT ![now] = @ + 1] \in [Times -> 0..MaxCalls]
        BY <4>1, <4>2
      <4>4. admitted' = [admitted EXCEPT ![sub] = [admitted[sub] EXCEPT ![now] = @ + 1]]
        BY <3>2
      <4> QED BY <1>1, <1>2, <2>1, <4>1, <4>3, <4>4 DEF TypeOK
    <3> QED BY <2>1, <3>1, <3>2
  <2>7. refused' \subseteq Subjects \X Times
    BY <1>1, <2>1, <2>2 DEF TypeOK
  <2>8. \A s \in Subjects, w \in Times : rate'[s][w] > 0 => w % Window = 0
    BY <1>1, <2>2, <2>3, <2>4 DEF TypeOK
  <2>9. TypeOK'
    <3>1. /\ now' \in Times /\ jti' \subseteq Tokens /\ calls' \in 0..MaxCalls
          /\ token' \in Tokens \cup {None} /\ at' \in {"idle", "jti", "rate"}
          /\ at' = "idle" <=> token' = None
      BY <1>1, <2>1 DEF TypeOK
    <3>2. uses' \in [Tokens -> 0..MaxCalls]
      BY <1>1, <2>1 DEF TypeOK
    <3> QED BY <2>5, <2>6, <2>7, <2>8, <3>1, <3>2 DEF TypeOK
  <2>10. Counted'
    <3>1. ASSUME NEW s \in Subjects, NEW w \in Times
          PROVE  rate'[s][w] <= calls /\ admitted'[s][w] <= calls
      <4>1. rate[s][w] \in 0..(calls - 1) /\ admitted[s][w] \in 0..(calls - 1)
        BY <2>3
      <4>2. rate'[s][w] \in {0, rate[s][w], rate[s][w] + 1}
        BY <2>4
      <4>3. admitted'[s][w] \in {admitted[s][w], admitted[s][w] + 1}
        BY <2>6
      <4> QED BY <1>2, <4>1, <4>2, <4>3
    <3>2. \A t \in Tokens : uses'[t] <= calls
      BY <1>1, <2>1 DEF Counted
    <3> QED BY <1>2, <2>1, <3>1, <3>2 DEF Counted
  <2> QED BY <1>1, <2>9, <2>10 DEF TInv
<1>7. CASE UNCHANGED vars
  BY <1>1, <1>7 DEF vars, TInv, TypeOK, Counted
<1> QED BY <1>3, <1>4, <1>5, <1>6, <1>7 DEF Next

\* Types of the tables and counters; a row of rate_windows always starts a window.
THEOREM GuardTyped == Spec => []TypeOK
<1>1. TInv => TypeOK
  BY DEF TInv
<1> QED BY <1>1, TypesInit, TypesStep, PTL DEF Spec

-----------------------------------------------------------------------------
(* Sums over a finite set.  Admissions is a fold; its value is the number    *)
(* of pairs of a second and a number up to the count of that second, so that *)
(* what sums do follows from what cardinalities do.                          *)

Total(g, S) == MapThenSumSet(LAMBDA t : g[t], S)

\* One pair for each admission that g counts in S.
Pairs(g, S) == {p \in S \X (1..MaxCalls) : p[2] <= g[p[1]]}

\* Among subsets of a finite set there is one with no proper subset among them.
LEMMA SmallestSubset ==
  ASSUME NEW S, IsFiniteSet(S), NEW T \in SUBSET (SUBSET S), T # {}
  PROVE  \E s \in T : \A k \in T : ~(k \subseteq s /\ k # s)
<1> DEFINE R == StrictSubsetOrdering(S)
<1>1. IsWellFoundedOn(R, SUBSET S)
  BY FS_StrictSubsetOrderingWellFounded, FS_FiniteSubsetsOfFinite
<1>2. PICK s \in T : \A k \in T : ~(<<k, s>> \in R)
  <2> HIDE DEF R
  <2> QED BY <1>1, WFMin
<1>3. ASSUME NEW k \in T, k \subseteq s, k # s PROVE FALSE
  <2>1. <<k, s>> \in R
    BY <1>3 DEF StrictSubsetOrdering
  <2> QED BY <1>2, <2>1
<1> QED BY <1>3

\* Pairs of a finite set are finitely many.
LEMMA PairsFinite ==
  ASSUME NEW g, NEW S, IsFiniteSet(S)
  PROVE  IsFiniteSet(Pairs(g, S)) /\ Cardinality(Pairs(g, S)) \in Nat
<1>1. IsFiniteSet(1..MaxCalls)
  BY GuardConstants, FS_Interval
<1>2. IsFiniteSet(S \X (1..MaxCalls))
  BY <1>1, FS_Product
<1>3. Pairs(g, S) \in SUBSET (S \X (1..MaxCalls))
  BY DEF Pairs
<1>4. IsFiniteSet(Pairs(g, S))
  BY <1>2, <1>3, FS_Subset
<1> QED BY <1>4, FS_CardinalityType

\* An element takes its own pairs with it.
LEMMA PairsStep ==
  ASSUME NEW g, NEW S, IsFiniteSet(S), NEW x \in S, g[x] \in 0..MaxCalls
  PROVE  Cardinality(Pairs(g, S)) = g[x] + Cardinality(Pairs(g, S \ {x}))
<1> DEFINE own == {x} \X (1..g[x])
           rest == Pairs(g, S \ {x})
<1>0. MaxCalls \in Nat /\ g[x] \in Nat /\ g[x] <= MaxCalls
  BY GuardConstants
<1>1. IsFiniteSet({x}) /\ Cardinality({x}) = 1
  BY FS_Singleton
<1>2. IsFiniteSet(1..g[x]) /\ Cardinality(1..g[x]) = g[x]
  <2> DEFINE n == g[x]
  <2>1. n \in Int /\ 1 \in Int /\ n \in Nat
    BY <1>0
  <2> HIDE DEF n
  <2>2. IsFiniteSet(1..n) /\ Cardinality(1..n) = IF 1 > n THEN 0 ELSE n - 1 + 1
    BY <2>1, FS_Interval
  <2>3. IsFiniteSet(1..n) /\ Cardinality(1..n) = n
    BY <2>1, <2>2
  <2> QED BY <2>3 DEF n
<1>3. IsFiniteSet(own) /\ Cardinality(own) = 1 * g[x]
  BY <1>1, <1>2, FS_Product
<1>4. IsFiniteSet(S \ {x})
  BY FS_RemoveElement
<1>5. IsFiniteSet(rest) /\ Cardinality(rest) \in Nat
  BY <1>4, PairsFinite
<1>6. Pairs(g, S) = rest \cup own
  BY <1>0 DEF Pairs
<1>7. rest \cap own = {}
  BY DEF Pairs
<1> HIDE DEF own, rest
<1>8. Cardinality(rest \cup own) = Cardinality(rest) + Cardinality(own) - Cardinality(rest \cap own)
  BY <1>3, <1>5, FS_Union
<1>9. Cardinality({}) = 0
  BY FS_EmptySet
<1>10. Cardinality(rest \cap own) = 0
  BY <1>7, <1>9
<1>11. Cardinality(rest \cup own) = g[x] + Cardinality(rest)
  BY <1>0, <1>3, <1>5, <1>8, <1>10
<1>12. Cardinality(Pairs(g, S)) = g[x] + Cardinality(rest)
  BY <1>6, <1>11
<1> QED BY <1>12 DEF rest

\* The sum counts the pairs.
LEMMA SumIsCount ==
  ASSUME NEW g, NEW S, IsFiniteSet(S), \A t \in S : g[t] \in 0..MaxCalls
  PROVE  Total(g, S) = Cardinality(Pairs(g, S))
<1> DEFINE Eq(f) == f = [s \in SUBSET S |->
                          IF s = {} THEN 0
                          ELSE LET x == CHOOSE x \in s : TRUE IN g[x] + f[s \ {x}]]
           h == [s \in SUBSET S |-> Cardinality(Pairs(g, s))]
<1>1. \A s \in SUBSET S : IsFiniteSet(s) /\ Cardinality(s) \in Nat
  BY FS_Subset, FS_CardinalityType
<1>2. h[{}] = 0
  <2>1. Pairs(g, {}) = {}
    BY DEF Pairs
  <2> QED BY <2>1, FS_EmptySet
<1>3. ASSUME NEW s \in SUBSET S, s # {}
      PROVE  LET x == CHOOSE x \in s : TRUE IN
               x \in s /\ h[s] = g[x] + h[s \ {x}]
  <2> DEFINE x == CHOOSE x \in s : TRUE
  <2>1. x \in s
    BY <1>3
  <2> HIDE DEF x
  <2>2. Cardinality(Pairs(g, s)) = g[x] + Cardinality(Pairs(g, s \ {x}))
    BY <1>1, <2>1, PairsStep
  <2>3. h[s] = g[x] + h[s \ {x}]
    BY <2>2
  <2> QED BY <2>1, <2>3 DEF x
<1>4. Eq(h)
  <2> DEFINE k == [s \in SUBSET S |->
                          IF s = {} THEN 0
                          ELSE LET x == CHOOSE x \in s : TRUE IN g[x] + h[s \ {x}]]
  <2>1. ASSUME NEW s \in SUBSET S PROVE h[s] = k[s]
    BY <1>2, <1>3
  <2>2. h = [s \in SUBSET S |-> h[s]] /\ k = [s \in SUBSET S |-> k[s]]
    OBVIOUS
  <2> HIDE DEF h, k
  <2>3. h = k
    BY <2>1, <2>2
  <2> QED BY <2>3 DEF k
<1> DEFINE iter == CHOOSE f : Eq(f)
<1>5. Eq(iter)
  <2> HIDE DEF Eq
  <2> QED BY <1>4
<1>6. Total(g, S) = iter[S]
  BY DEF Total, MapThenSumSet, MapThenFoldSet
<1>7. iter[S] = h[S]
  <2> HIDE DEF iter, h
  <2> DEFINE bad == {s \in SUBSET S : iter[s] # h[s]}
  <2>1. SUFFICES ASSUME bad # {} PROVE FALSE
    OBVIOUS
  <2>2. bad \in SUBSET (SUBSET S)
    OBVIOUS
  <2> HIDE DEF bad
  <2>3. PICK s \in bad : \A k \in bad : ~(k \subseteq s /\ k # s)
    BY <2>1, <2>2, SmallestSubset
  <2> USE DEF bad
  <2>4. iter[s] = IF s = {} THEN 0
                  ELSE LET x == CHOOSE x \in s : TRUE IN g[x] + iter[s \ {x}]
    BY <1>5
  <2>5. s # {}
    BY <1>2, <2>3, <2>4
  <2> DEFINE x == CHOOSE x \in s : TRUE
  <2>6. x \in s /\ h[s] = g[x] + h[s \ {x}] /\ iter[s] = g[x] + iter[s \ {x}]
    BY <1>3, <2>4, <2>5
  <2> HIDE DEF x
  <2>7. s \ {x} \subseteq s /\ s \ {x} # s
    BY <2>6
  <2>8. s \ {x} \notin bad /\ s \ {x} \in SUBSET S
    BY <2>3, <2>7
  <2>9. iter[s \ {x}] = h[s \ {x}]
    BY <2>8
  <2> QED BY <2>3, <2>6, <2>9
<1> QED BY <1>6, <1>7

\* A sum has the value its pairs have, and that is a natural number.
LEMMA TotalType ==
  ASSUME NEW g, NEW S, IsFiniteSet(S), \A t \in S : g[t] \in 0..MaxCalls
  PROVE  Total(g, S) \in Nat
BY SumIsCount, PairsFinite

\* Functions that agree on a set have the same sum over it.
LEMMA TotalSame ==
  ASSUME NEW f, NEW g, NEW S, IsFiniteSet(S),
         \A t \in S : g[t] \in 0..MaxCalls /\ f[t] = g[t]
  PROVE  Total(f, S) = Total(g, S)
<1>1. Pairs(f, S) = Pairs(g, S)
  BY DEF Pairs
<1> QED BY <1>1, SumIsCount

\* A sum of zeros is zero.
LEMMA TotalZero ==
  ASSUME NEW g, NEW S, IsFiniteSet(S), \A t \in S : g[t] = 0
  PROVE  Total(g, S) = 0
<1>1. Pairs(g, S) = {}
  BY DEF Pairs
<1>2. \A t \in S : g[t] \in 0..MaxCalls
  BY GuardConstants
<1> QED BY <1>1, <1>2, SumIsCount, FS_EmptySet

\* One more at one element of the set is one more in the sum.
LEMMA TotalPlusOne ==
  ASSUME NEW f, NEW g, NEW S, IsFiniteSet(S), NEW x \in S,
         \A t \in S : g[t] \in 0..MaxCalls /\ f[t] \in 0..MaxCalls,
         \A t \in S \ {x} : f[t] = g[t], f[x] = g[x] + 1
  PROVE  Total(f, S) = Total(g, S) + 1
<1>1. Pairs(f, S \ {x}) = Pairs(g, S \ {x})
  BY DEF Pairs
<1>2. IsFiniteSet(S \ {x})
  BY FS_RemoveElement
<1>3. Cardinality(Pairs(g, S \ {x})) \in Nat /\ g[x] \in Nat
  BY <1>2, PairsFinite, GuardConstants
<1>4. /\ Cardinality(Pairs(f, S)) = f[x] + Cardinality(Pairs(f, S \ {x}))
      /\ Cardinality(Pairs(g, S)) = g[x] + Cardinality(Pairs(g, S \ {x}))
  BY PairsStep
<1>5. Cardinality(Pairs(f, S)) = Cardinality(Pairs(g, S)) + 1
  BY <1>1, <1>3, <1>4
<1> QED BY <1>5, SumIsCount

\* A sum is at most the sum over a larger set.
LEMMA TotalMonotone ==
  ASSUME NEW g, NEW T, IsFiniteSet(T), \A t \in T : g[t] \in 0..MaxCalls,
         NEW S \in SUBSET T
  PROVE  Total(g, S) <= Total(g, T)
<1>1. IsFiniteSet(S) /\ IsFiniteSet(Pairs(g, T))
  BY FS_Subset, PairsFinite
<1>2. Pairs(g, S) \in SUBSET Pairs(g, T)
  BY DEF Pairs
<1>3. Cardinality(Pairs(g, S)) <= Cardinality(Pairs(g, T))
  BY <1>1, <1>2, FS_Subset
<1> QED BY <1>1, <1>3, SumIsCount

\* A sum over two sets is at most the two sums together.
LEMMA TotalUnion ==
  ASSUME NEW g, NEW S, NEW T, IsFiniteSet(S), IsFiniteSet(T),
         \A t \in S \cup T : g[t] \in 0..MaxCalls
  PROVE  Total(g, S \cup T) <= Total(g, S) + Total(g, T)
<1>1. Pairs(g, S \cup T) = Pairs(g, S) \cup Pairs(g, T)
  BY DEF Pairs
<1>2. /\ IsFiniteSet(Pairs(g, S)) /\ Cardinality(Pairs(g, S)) \in Nat
      /\ IsFiniteSet(Pairs(g, T)) /\ Cardinality(Pairs(g, T)) \in Nat
      /\ IsFiniteSet(S \cup T)
  BY PairsFinite, FS_Union
<1> DEFINE both == Pairs(g, S) \cap Pairs(g, T)
<1>3. IsFiniteSet(both)
  BY <1>2, FS_Intersection
<1>4. Cardinality(both) \in Nat
  BY <1>3, FS_CardinalityType
<1>5. Cardinality(Pairs(g, S) \cup Pairs(g, T))
        = Cardinality(Pairs(g, S)) + Cardinality(Pairs(g, T)) - Cardinality(both)
  BY <1>2, FS_Union
<1> DEFINE a == Cardinality(Pairs(g, S))
           b == Cardinality(Pairs(g, T))
           c == Cardinality(both)
           n == Cardinality(Pairs(g, S \cup T))
<1>6. a \in Nat /\ b \in Nat /\ c \in Nat /\ n = a + b - c
  BY <1>1, <1>2, <1>4, <1>5
<1> HIDE DEF both, a, b, c, n
<1>7. n <= a + b
  BY <1>6
<1> QED BY <1>2, <1>7, SumIsCount DEF a, b, n

-----------------------------------------------------------------------------
(* The rate limit.  The row of a window that can still be used is exact up  *)
(* to the limit, and a window that has passed keeps what it admitted.       *)

Seconds(w) == {t \in Times : WindowAt(t) = w}
Allowed(n) == IF n <= Limit THEN n ELSE Limit

\* No window admits more than the limit.
WithinLimit == \A s \in Subjects, w \in Nat : Admissions(s, Seconds(w)) <= Limit

\* The row of the current window, and of those to come, has counted every admission.
RowsCount ==
  \A s \in Subjects, w \in Times :
    WindowAt(now) <= w => Admissions(s, Seconds(w)) = Allowed(rate[s][w])

Budget == WithinLimit /\ RowsCount /\ RefusedOnlyAtLimit

BInv == TInv /\ Budget

\* Different multiples of the window are a window apart.
LEMMA Multiples ==
  ASSUME NEW m \in Nat, NEW n \in Nat, m < n
  PROVE  /\ Window * m \in Nat /\ Window * n \in Nat
         /\ Window * m + Window <= Window * n
<1>1. Window \in Nat
  BY GuardConstants
<1>2. PICK k \in Nat : n = m + 1 + k
  <2>1. n - (m + 1) \in Nat /\ n = m + 1 + (n - (m + 1))
    OBVIOUS
  <2> QED BY <2>1
<1>3. Window * n = Window * m + Window + Window * k /\ Window * k \in Nat /\ Window * m \in Nat
  BY <1>1, <1>2
<1> QED BY <1>1, <1>3

\* The window of a time starts at the last multiple of the window before it.
LEMMA WindowStart ==
  ASSUME NEW t \in Times
  PROVE  \E q \in Nat : /\ WindowAt(t) = Window * q /\ Window * q \in Nat
                        /\ Window * q <= t /\ t < Window * q + Window
<1> DEFINE q == t \div Window
           r == t % Window
<1>1. t \in Nat /\ Window \in Nat \ {0}
  BY GuardConstants DEF Times
<1>2. q \in Nat /\ r \in 0..(Window - 1) /\ t = Window * q + r
  BY <1>1
<1>3. WindowAt(t) = t - r
  BY DEF WindowAt
<1> HIDE DEF q, r
<1>4. Window * q \in Nat
  BY <1>1, <1>2
<1>5. WindowAt(t) = Window * q /\ Window * q <= t /\ t < Window * q + Window
  BY <1>1, <1>2, <1>3, <1>4
<1> QED BY <1>2, <1>4, <1>5

\* A later time is not in an earlier window.
LEMMA WindowMonotone ==
  ASSUME NEW t \in Times, NEW u \in Times, t <= u
  PROVE  WindowAt(t) <= WindowAt(u)
<1>1. PICK q \in Nat : /\ WindowAt(t) = Window * q /\ Window * q \in Nat
                       /\ Window * q <= t /\ t < Window * q + Window
  BY WindowStart
<1>2. PICK p \in Nat : /\ WindowAt(u) = Window * p /\ Window * p \in Nat
                       /\ Window * p <= u /\ u < Window * p + Window
  BY WindowStart
<1>3. t \in Nat /\ u \in Nat /\ Window \in Nat
  BY GuardConstants DEF Times
<1>4. CASE p < q
  <2>1. Window * p + Window <= Window * q
    BY <1>4, Multiples
  <2> QED BY <1>1, <1>2, <1>3, <2>1
<1>5. CASE p = q
  BY <1>1, <1>2, <1>5
<1>6. CASE q < p
  <2>1. Window * q + Window <= Window * p
    BY <1>6, Multiples
  <2> QED BY <1>1, <1>2, <1>3, <2>1
<1> QED BY <1>4, <1>5, <1>6

\* Within one window's length of a time there is its window and the next; from the
\* start of a window there is only that window.
LEMMA WindowsOfSpan ==
  ASSUME NEW from \in Times, NEW t \in Times, from <= t, t < from + Window
  PROVE  /\ WindowAt(from) \in Nat
         /\ WindowAt(t) \in {WindowAt(from), WindowAt(from) + Window}
         /\ from % Window = 0 => WindowAt(from) = from /\ WindowAt(t) = from
<1>1. PICK q \in Nat : /\ WindowAt(from) = Window * q /\ Window * q \in Nat
                       /\ Window * q <= from /\ from < Window * q + Window
  BY WindowStart
<1>2. PICK p \in Nat : /\ WindowAt(t) = Window * p /\ Window * p \in Nat
                       /\ Window * p <= t /\ t < Window * p + Window
  BY WindowStart
<1>3. from \in Nat /\ t \in Nat /\ Window \in Nat
  BY GuardConstants DEF Times
<1>4. ~(p < q)
  <2>1. SUFFICES ASSUME p < q PROVE FALSE
    OBVIOUS
  <2>2. Window * p + Window <= Window * q
    BY <2>1, Multiples
  <2> QED BY <1>1, <1>2, <1>3, <2>2
<1>5. ~(q + 1 < p)
  <2>1. SUFFICES ASSUME q + 1 < p PROVE FALSE
    OBVIOUS
  <2>2. Window * (q + 1) + Window <= Window * p
    BY <2>1, Multiples
  <2>3. Window * (q + 1) = Window * q + Window
    BY <1>3
  <2> QED BY <1>1, <1>2, <1>3, <2>2, <2>3
<1>6. p = q \/ p = q + 1
  BY <1>4, <1>5
<1>7. Window * (q + 1) = Window * q + Window
  BY <1>3
<1>8. WindowAt(t) \in {WindowAt(from), WindowAt(from) + Window}
  BY <1>1, <1>2, <1>6, <1>7
<1>9. ASSUME from % Window = 0 PROVE WindowAt(from) = from /\ WindowAt(t) = from
  <2>1. WindowAt(from) = from
    BY <1>3, <1>9 DEF WindowAt
  <2>2. p # q + 1
    BY <1>1, <1>2, <1>3, <1>7, <2>1
  <2> QED BY <1>1, <1>2, <1>6, <2>1, <2>2
<1> QED BY <1>1, <1>8, <1>9

\* The seconds of a window are finitely many.
LEMMA SecondsFinite ==
  ASSUME NEW w
  PROVE  IsFiniteSet(Seconds(w)) /\ Seconds(w) \in SUBSET Times
<1>1. IsFiniteSet(Times)
  BY GuardConstants, FS_Interval DEF Times
<1>2. Seconds(w) \in SUBSET Times
  BY DEF Seconds
<1> QED BY <1>1, <1>2, FS_Subset

\* Nobody has been admitted at the start.
LEMMA BudgetInit == Init => BInv
<1> SUFFICES ASSUME Init PROVE BInv
  OBVIOUS
<1>1. ASSUME NEW s \in Subjects, NEW w PROVE Admissions(s, Seconds(w)) = 0
  <2>1. \A t \in Seconds(w) : admitted[s][t] = 0
    BY SecondsFinite DEF Init
  <2>2. Total(admitted[s], Seconds(w)) = 0
    BY <2>1, SecondsFinite, TotalZero
  <2> QED BY <2>2 DEF Admissions, Total
<1>2. Limit \in Nat \ {0}
  BY GuardConstants
<1>3. WithinLimit
  BY <1>1, <1>2 DEF WithinLimit
<1>4. RowsCount
  <2>1. \A s \in Subjects, w \in Times : rate[s][w] = 0
    BY DEF Init
  <2> QED BY <1>1, <1>2, <2>1 DEF RowsCount, Allowed
<1>5. RefusedOnlyAtLimit
  BY DEF Init, RefusedOnlyAtLimit
<1> QED BY <1>3, <1>4, <1>5, TypesInit DEF BInv, Budget

\* Admissions is the sum of the subject's admissions by second.
LEMMA AdmissionsTotal ==
  ASSUME NEW s, NEW S
  PROVE  Admissions(s, S) = Total(admitted[s], S) /\ Admissions(s, S)' = Total(admitted'[s], S)
BY DEF Admissions, Total, MapThenSumSet, MapThenFoldSet

\* A step that admits nobody, leaves the rows and forgets no refusal keeps the budget,
\* whatever it does to the clock: later windows are among those to come.
LEMMA BudgetAside ==
  ASSUME BInv, TypeOK', UNCHANGED <<rate, admitted, refused>>, now <= now'
  PROVE  Budget'
<1>1. now \in Times /\ now' \in Times
  BY DEF BInv, TInv, TypeOK
<1>2. WindowAt(now) <= WindowAt(now') /\ WindowAt(now) \in Times /\ WindowAt(now') \in Times
  BY <1>1, WindowMonotone, WindowOfTime
<1>3. ASSUME NEW s, NEW S PROVE Admissions(s, S)' = Admissions(s, S)
  BY AdmissionsTotal
<1>4. WithinLimit'
  BY <1>3 DEF BInv, Budget, WithinLimit
<1>5. RowsCount'
  <2> SUFFICES ASSUME NEW s \in Subjects, NEW w \in Times, WindowAt(now') <= w
               PROVE  Admissions(s, Seconds(w))' = Allowed(rate'[s][w])
    BY DEF RowsCount
  <2>1. WindowAt(now) <= w
    BY <1>2 DEF Times
  <2> QED BY <1>3, <2>1 DEF BInv, Budget, RowsCount
<1>6. RefusedOnlyAtLimit'
  BY <1>3 DEF BInv, Budget, RefusedOnlyAtLimit, Seconds
<1> QED BY <1>4, <1>5, <1>6 DEF Budget

\* check_rate keeps the budget: the row it reads is exact up to the limit, the rows it
\* deletes are of windows that are over.
LEMMA BudgetCheck ==
  ASSUME BInv, TInv', CheckRate
  PROVE  Budget'
<1> DEFINE sub == SubjectOf[token]
           w0 == WindowAt(now)
           count == rate[sub][w0] + 1
<1>1. /\ at = "rate" /\ token \in Tokens /\ sub \in Subjects /\ now' = now
      /\ rate' = Trimmed([rate EXCEPT ![sub][w0] = count])
      /\ \/ /\ count <= Limit /\ refused' = refused
            /\ admitted' = [admitted EXCEPT ![sub][now] = @ + 1]
         \/ /\ ~(count <= Limit) /\ admitted' = admitted
            /\ refused' = refused \cup {<<sub, w0>>}
  BY GuardConstants DEF CheckRate, ThisWindow, BInv, TInv, TypeOK
<1>2. /\ now \in Times /\ w0 \in Times /\ w0 \in Nat /\ MaxTime \in Nat
      /\ now \in Seconds(w0) /\ \A w : w # w0 => now \notin Seconds(w)
  <2>1. now \in Times /\ MaxTime \in Nat
    BY GuardConstants DEF BInv, TInv, TypeOK
  <2>2. w0 \in Times
    BY <2>1, WindowOfTime
  <2> HIDE DEF w0
  <2>3. w0 \in Nat
    BY <2>2 DEF Times
  <2>4. now \in Seconds(w0) /\ \A w : w # w0 => now \notin Seconds(w)
    BY <2>1 DEF Seconds, w0
  <2> QED BY <2>1, <2>2, <2>3, <2>4
<1>3. /\ rate \in [Subjects -> [Times -> 0..MaxCalls]]
      /\ admitted \in [Subjects -> [Times -> 0..MaxCalls]]
      /\ admitted' \in [Subjects -> [Times -> 0..MaxCalls]]
      /\ refused \subseteq Subjects \X Times /\ MaxCalls \in Nat /\ Limit \in Nat \ {0}
  BY GuardConstants DEF BInv, TInv, TypeOK
<1>4. /\ rate[sub][w0] \in Nat /\ count = rate[sub][w0] + 1
      /\ rate'[sub][w0] = count
      /\ \A s \in Subjects, w \in Times :
           w0 <= w /\ <<s, w>> # <<sub, w0>> => rate'[s][w] = rate[s][w]
  <2>1. Window \in Nat /\ \A w \in Times : w0 <= w => w \in Nat /\ ~(w + 2 * Window < w0)
    BY <1>2, GuardConstants DEF Times
  <2> HIDE DEF w0, sub
  <2>2. \A s \in Subjects, w \in Times :
          w0 <= w => rate'[s][w] = [rate EXCEPT ![sub][w0] = count][s][w]
    BY <1>1, <2>1 DEF Trimmed, w0
  <2>3. rate'[sub][w0] = count
    <3>1. w0 <= w0
      BY <1>2
    <3> QED BY <1>1, <1>2, <1>3, <2>2, <3>1
  <2>4. ASSUME NEW s \in Subjects, NEW w \in Times, w0 <= w, <<s, w>> # <<sub, w0>>
        PROVE  rate'[s][w] = rate[s][w]
    <3>1. rate'[s][w] = [rate EXCEPT ![sub][w0] = count][s][w]
      BY <2>2, <2>4
    <3>2. CASE s # sub
      BY <1>3, <3>1, <3>2
    <3>3. CASE s = sub /\ w # w0
      BY <1>1, <1>3, <3>1, <3>3
    <3> QED BY <2>4, <3>2, <3>3
  <2>5. rate[sub][w0] \in Nat
    BY <1>1, <1>2, <1>3
  <2> QED BY <2>3, <2>4, <2>5 DEF count
<1> HIDE DEF sub, w0, count
<1>6. ASSUME NEW s \in Subjects, NEW w, <<s, w>> # <<sub, w0>>
      PROVE  Admissions(s, Seconds(w))' = Admissions(s, Seconds(w))
  <2>1. \A t \in Seconds(w) : admitted[s][t] \in 0..MaxCalls /\ admitted'[s][t] = admitted[s][t]
    BY <1>1, <1>2, <1>3, <1>6, SecondsFinite
  <2> QED BY AdmissionsTotal, <2>1, SecondsFinite, TotalSame
<1>7. Admissions(sub, Seconds(w0)) = Allowed(rate[sub][w0])
  BY <1>1, <1>2 DEF BInv, Budget, RowsCount, w0
<1>8. CASE count <= Limit
  <2>1. admitted' = [admitted EXCEPT ![sub][now] = @ + 1] /\ refused' = refused
    BY <1>1, <1>8
  <2>2. Total(admitted'[sub], Seconds(w0)) = Total(admitted[sub], Seconds(w0)) + 1
    <3>1. \A t \in Seconds(w0) : admitted[sub][t] \in 0..MaxCalls /\ admitted'[sub][t] \in 0..MaxCalls
      BY <1>1, <1>3, SecondsFinite
    <3>2. \A t \in Seconds(w0) \ {now} : admitted'[sub][t] = admitted[sub][t]
      BY <1>1, <1>3, <2>1, SecondsFinite
    <3>3. admitted'[sub][now] = admitted[sub][now] + 1
      BY <1>1, <1>2, <1>3, <2>1
    <3>4. IsFiniteSet(Seconds(w0)) /\ now \in Seconds(w0)
      BY <1>2, SecondsFinite
    <3> DEFINE f == admitted'[sub]
               g == admitted[sub]
               S == Seconds(w0)
    <3>5. /\ IsFiniteSet(S) /\ now \in S
          /\ \A t \in S : g[t] \in 0..MaxCalls /\ f[t] \in 0..MaxCalls
          /\ \A t \in S \ {now} : f[t] = g[t]
          /\ f[now] = g[now] + 1
      BY <3>1, <3>2, <3>3, <3>4
    <3> HIDE DEF f, g, S
    <3>6. Total(f, S) = Total(g, S) + 1
      BY <3>5, TotalPlusOne
    <3> QED BY <3>6 DEF f, g, S
  <2>3. count \in Nat /\ Admissions(sub, Seconds(w0)) = count - 1
    <3>1. count \in Nat /\ rate[sub][w0] = count - 1
      BY <1>4
    <3>2. Allowed(rate[sub][w0]) = count - 1
      BY <1>3, <1>8, <3>1 DEF Allowed
    <3> QED BY <1>7, <3>1, <3>2
  <2>4. ASSUME NEW s, NEW w, s = sub, w = w0 PROVE Admissions(s, Seconds(w))' = count
    <3>1. Admissions(s, Seconds(w))' = Total(admitted'[sub], Seconds(w0))
      BY <2>4, AdmissionsTotal
    <3>2. Admissions(sub, Seconds(w0)) = Total(admitted[sub], Seconds(w0))
      BY AdmissionsTotal
    <3> QED BY <2>2, <2>3, <3>1, <3>2
  <2>5. WithinLimit'
    BY <1>6, <1>8, <2>4 DEF BInv, Budget, WithinLimit
  <2>6. RowsCount'
    <3> SUFFICES ASSUME NEW s \in Subjects, NEW w \in Times, w0 <= w
                 PROVE  Admissions(s, Seconds(w))' = Allowed(rate'[s][w])
      BY <1>1 DEF RowsCount, w0
    <3>1. CASE <<s, w>> = <<sub, w0>>
      <4>1. s = sub /\ w = w0
        BY <3>1
      <4>2. Allowed(count) = count
        BY <1>8 DEF Allowed
      <4> QED BY <1>4, <2>4, <4>1, <4>2
    <3>2. CASE <<s, w>> # <<sub, w0>>
      BY <1>4, <1>6, <3>2 DEF BInv, Budget, RowsCount, w0
    <3> QED BY <3>1, <3>2
  <2>7. RefusedOnlyAtLimit'
    <3> SUFFICES ASSUME NEW r \in refused PROVE Admissions(r[1], Seconds(r[2]))' = Limit
      BY <2>1 DEF RefusedOnlyAtLimit, Seconds
    <3>1. Admissions(r[1], Seconds(r[2])) = Limit
      BY DEF BInv, Budget, RefusedOnlyAtLimit, Seconds
    <3>2. <<r[1], r[2]>> # <<sub, w0>>
      BY <1>3, <1>4, <1>8, <2>3, <3>1
    <3> QED BY <1>3, <1>6, <3>1, <3>2
  <2> QED BY <2>5, <2>6, <2>7 DEF Budget
<1>9. CASE ~(count <= Limit)
  <2>1. admitted' = admitted /\ refused' = refused \cup {<<sub, w0>>}
    BY <1>1, <1>9
  <2>2. ASSUME NEW s, NEW S PROVE Admissions(s, S)' = Admissions(s, S)
    BY <2>1, AdmissionsTotal
  <2>3. Admissions(sub, Seconds(w0)) = Limit
    <3>1. rate[sub][w0] \in Nat /\ Limit \in Nat /\ ~(rate[sub][w0] + 1 <= Limit)
      BY <1>3, <1>4, <1>9
    <3>2. Allowed(rate[sub][w0]) = Limit
      BY <3>1 DEF Allowed
    <3> QED BY <1>7, <3>2
  <2>4. WithinLimit'
    BY <2>2 DEF BInv, Budget, WithinLimit
  <2>5. RowsCount'
    <3> SUFFICES ASSUME NEW s \in Subjects, NEW w \in Times, w0 <= w
                 PROVE  Admissions(s, Seconds(w))' = Allowed(rate'[s][w])
      BY <1>1 DEF RowsCount, w0
    <3>1. CASE <<s, w>> = <<sub, w0>>
      BY <1>4, <1>9, <2>2, <2>3, <3>1 DEF Allowed
    <3>2. CASE <<s, w>> # <<sub, w0>>
      BY <1>4, <2>2, <3>2 DEF BInv, Budget, RowsCount, w0
    <3> QED BY <3>1, <3>2
  <2>6. RefusedOnlyAtLimit'
    BY <2>1, <2>2, <2>3 DEF BInv, Budget, RefusedOnlyAtLimit, Seconds
  <2> QED BY <2>4, <2>5, <2>6 DEF Budget
<1> QED BY <1>8, <1>9

\* Every step keeps the budget.
LEMMA BudgetStep == BInv /\ [Next]_vars => BInv'
<1> SUFFICES ASSUME BInv, [Next]_vars PROVE BInv'
  OBVIOUS
<1>1. TInv' /\ TypeOK'
  BY TypesStep DEF BInv, TInv
<1>2. now \in Nat
  BY DEF BInv, TInv, TypeOK, Times
<1> USE DEF tables, history
<1>3. CASE Tick
  <2>1. UNCHANGED <<rate, admitted, refused>> /\ now <= now'
    BY <1>2, <1>3 DEF Tick
  <2> QED BY <1>1, <2>1, BudgetAside DEF BInv
<1>4. ASSUME NEW t \in Tokens, Decode(t) PROVE BInv'
  <2>1. UNCHANGED <<rate, admitted, refused>> /\ now <= now'
    BY <1>2, <1>4 DEF Decode
  <2> QED BY <1>1, <2>1, BudgetAside DEF BInv
<1>5. CASE AcceptJti
  <2>1. UNCHANGED <<rate, admitted, refused>> /\ now <= now'
    BY <1>2, <1>5 DEF AcceptJti
  <2> QED BY <1>1, <2>1, BudgetAside DEF BInv
<1>6. CASE CheckRate
  BY <1>1, <1>6, BudgetCheck DEF BInv
<1>7. CASE UNCHANGED vars
  <2>1. UNCHANGED <<rate, admitted, refused>> /\ now <= now'
    BY <1>2, <1>7 DEF vars
  <2> QED BY <1>1, <2>1, BudgetAside DEF BInv
<1> QED BY <1>3, <1>4, <1>5, <1>6, <1>7 DEF Next

\* Wherever a span of one window begins, it lies in two windows, or in one.
LEMMA BudgetBoundsSpans == BInv => RateBound
<1> SUFFICES ASSUME BInv, NEW s \in Subjects, NEW from \in Times
             PROVE  Admissions(s, {t \in Times : from <= t /\ t < from + Window})
                      <= IF from % Window = 0 THEN Limit ELSE 2 * Limit
  BY DEF RateBound
<1> DEFINE span == {t \in Times : from <= t /\ t < from + Window}
           w == WindowAt(from)
           first == Seconds(w)
           second == Seconds(w + Window)
<1>1. /\ w \in Nat /\ w + Window \in Nat /\ Limit \in Nat /\ from \in Times
      /\ from % Window = 0 => w = from
  <2>1. w \in Times /\ Window \in Nat \ {0} /\ Limit \in Nat
    BY WindowOfTime, GuardConstants
  <2>2. from \in Nat /\ w \in Nat
    BY <2>1 DEF Times
  <2>3. from <= from /\ from < from + Window
    BY <2>1, <2>2
  <2> QED BY <2>1, <2>2, <2>3, WindowsOfSpan
<1>2. \A t \in Times : admitted[s][t] \in 0..MaxCalls
  BY DEF BInv, TInv, TypeOK
<1>3. /\ IsFiniteSet(first) /\ first \in SUBSET Times
      /\ IsFiniteSet(second) /\ second \in SUBSET Times
      /\ IsFiniteSet(first \cup second)
  BY SecondsFinite, FS_Union
<1>4. /\ Total(admitted[s], first) \in Nat /\ Total(admitted[s], first) <= Limit
      /\ Total(admitted[s], second) \in Nat /\ Total(admitted[s], second) <= Limit
  <2>1. Total(admitted[s], first) <= Limit /\ Total(admitted[s], second) <= Limit
    BY <1>1 DEF BInv, Budget, WithinLimit, Admissions, Total
  <2> QED BY <1>2, <1>3, <2>1, TotalType
<1>5. Admissions(s, span) = Total(admitted[s], span)
  BY DEF Admissions, Total
<1>6. ASSUME NEW t \in span
      PROVE  /\ t \in first \cup second
             /\ from % Window = 0 => t \in first
  <2>1. t \in Times /\ from <= t /\ t < from + Window
    OBVIOUS
  <2>2. /\ WindowAt(t) \in {w, w + Window}
        /\ from % Window = 0 => w = from /\ WindowAt(t) = from
    BY <2>1, WindowsOfSpan
  <2> QED BY <2>1, <2>2 DEF Seconds
<1> HIDE DEF span, w, first, second
<1>7. CASE from % Window = 0
  <2>1. span \in SUBSET first
    BY <1>6, <1>7
  <2>2. Total(admitted[s], span) <= Total(admitted[s], first)
    BY <1>2, <1>3, <2>1, TotalMonotone
  <2>3. span \subseteq Times /\ IsFiniteSet(span)
    BY <1>3, <2>1, FS_Subset
  <2>4. Total(admitted[s], span) \in Nat
    BY <1>2, <2>3, TotalType
  <2> QED BY <1>1, <1>4, <1>5, <1>7, <2>2, <2>4 DEF span
<1>8. CASE from % Window # 0
  <2>1. span \in SUBSET (first \cup second)
    BY <1>6
  <2>2. Total(admitted[s], span) <= Total(admitted[s], first \cup second)
    BY <1>2, <1>3, <2>1, TotalMonotone
  <2>3. Total(admitted[s], first \cup second)
          <= Total(admitted[s], first) + Total(admitted[s], second)
    BY <1>2, <1>3, TotalUnion
  <2>4. span \subseteq Times /\ IsFiniteSet(span)
    BY <1>3, <2>1, FS_Subset
  <2>5. Total(admitted[s], span) \in Nat /\ Total(admitted[s], first \cup second) \in Nat
    BY <1>2, <1>3, <2>4, TotalType
  <2>6. Total(admitted[s], span) <= 2 * Limit
    BY <1>1, <1>4, <2>2, <2>3, <2>5
  <2> QED BY <1>5, <1>8, <2>6 DEF span
<1> QED BY <1>7, <1>8

\* A span of one window's length sees at most twice the limit, and one that starts with a
\* window at most the limit (repository.check_rate), wherever it starts and whatever rows
\* were deleted meanwhile.
THEOREM RateIsBounded == Spec => []RateBound
<1> QED BY BudgetBoundsSpans, BudgetInit, BudgetStep, PTL DEF Spec

\* The limit refuses a call only in a window in which its subject has had all its calls
\* (repository.check_rate): nothing else ever counts against a subject.
THEOREM RefusalIsDeserved == Spec => []RefusedOnlyAtLimit
<1>1. BInv => RefusedOnlyAtLimit
  BY DEF BInv, Budget
<1> QED BY <1>1, BudgetInit, BudgetStep, PTL DEF Spec
=============================================================================
