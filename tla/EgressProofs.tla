---------------------------- MODULE EgressProofs ----------------------------
(***************************************************************************)
(* Proofs about Egress: no restricted address is dialed, no signature goes *)
(* stale, a pass ends within the time its policy allows, and two passes on *)
(* a flaky receiver both deliver.                                          *)
(***************************************************************************)
EXTENDS Egress, WellFoundedInduction, TLAPS

(***************************************************************************)
(* Functions defined by recursion                                          *)
(***************************************************************************)

\* Induction over the numbers, for sets: every nonempty set of them has a least element.
LEMMA LeastElement ==
    ASSUME NEW T \in SUBSET Nat, T # {}
    PROVE  \E x \in T : \A y \in T : x <= y
<1> DEFINE R == {ss \in Nat \X Nat : ss[1] < ss[2]}
<1>1. R = OpToRel(<, Nat)
    BY Zenon DEF OpToRel
<1>2. IsWellFoundedOn(R, Nat)
    BY <1>1, NatLessThanWellFounded
<1>3. PICK x \in T : \A y \in T : ~(<<y, x>> \in R)
    <2> HIDE DEF R
    <2> QED BY <1>2, WFMin, Zenon
<1>4. ASSUME NEW y \in T PROVE x <= y
    <2>1. ~(y < x)
        BY <1>3
    <2> QED BY <2>1
<1> QED BY <1>4

\* f begins with a and goes on by steps.
Follows(f, a, step) == f[0] = a /\ \A n \in Nat : f[n + 1] = step[n][f[n]]

\* A step function and a first value define a function on the natural numbers.
LEMMA Recursion ==
    ASSUME NEW S, NEW a, a \in S, NEW step, step \in [Nat -> [S -> S]]
    PROVE  \E f \in [Nat -> S] : Follows(f, a, step)
<1> DEFINE Upto(n) == {g \in [0 .. n -> S] :
                          g[0] = a /\ \A i \in 0 .. n - 1 : g[i + 1] = step[i][g[i]]}
           G(n) == CHOOSE g : g \in Upto(n)
           f == [n \in Nat |-> G(n)[n]]
<1>1. ASSUME NEW n \in Nat PROVE Upto(n) # {}
    <2> DEFINE T == {m \in Nat : Upto(m) = {}}
    <2> SUFFICES ASSUME T # {} PROVE FALSE
        OBVIOUS
    <2>1. PICK m \in T : \A k \in T : m <= k
        <3>1. T \in SUBSET Nat
            OBVIOUS
        <3> HIDE DEF T
        <3> QED BY <3>1, LeastElement
    <2>2. [i \in 0 .. 0 |-> a] \in Upto(0)
        OBVIOUS
    <2>3. m # 0 /\ m - 1 \in Nat /\ m - 1 \notin T
        <3>1. m \in Nat /\ 0 \notin T
            <4> HIDE DEF Upto
            <4> QED BY <2>2
        <3> HIDE DEF T
        <3> QED BY <2>1, <3>1
    <2>4. PICK g : g \in Upto(m - 1)
        <3> HIDE DEF Upto
        <3> QED BY <2>3
    <2> DEFINE h == [i \in 0 .. m |-> IF i = m THEN step[m - 1][g[m - 1]] ELSE g[i]]
    <2>5. h \in [0 .. m -> S] /\ h[0] = a
        BY <2>3, <2>4
    <2>6. ASSUME NEW i \in 0 .. m - 1 PROVE h[i + 1] = step[i][h[i]]
        <3>1. h[i] = g[i]
            BY <2>3
        <3>2. CASE i = m - 1
            <4>1. m \in 0 .. m /\ i + 1 = m
                BY <2>3, <3>2
            <4>2. h[m] = step[m - 1][g[m - 1]]
                BY <4>1
            <4> QED BY <3>1, <3>2, <4>1, <4>2
        <3>3. CASE i \in 0 .. (m - 1) - 1
            <4>1. g[i + 1] = step[i][g[i]]
                BY <2>4, <3>3
            <4>2. h[i + 1] = g[i + 1]
                BY <2>3, <3>3
            <4> QED BY <3>1, <4>1, <4>2
        <3> QED BY <2>3, <3>2, <3>3
    <2>7. h \in Upto(m)
        <3> HIDE DEF h
        <3> QED BY <2>5, <2>6
    <2> QED BY <2>1, <2>7
<1>2. ASSUME NEW n \in Nat PROVE G(n) \in Upto(n)
    <2> HIDE DEF Upto
    <2> QED BY <1>1, Zenon
<1>3. ASSUME NEW n \in Nat PROVE G(n + 1)[n] = G(n)[n]
    <2> DEFINE g == G(n)
               h == G(n + 1)
               T == {i \in 0 .. n : g[i] # h[i]}
    <2>1. g \in Upto(n) /\ h \in Upto(n + 1)
        <3> HIDE DEF Upto, G
        <3>1. n + 1 \in Nat
            OBVIOUS
        <3> QED BY <1>2, <3>1
    <2> SUFFICES ASSUME T # {} PROVE FALSE
        <3> HIDE DEF g, h
        <3>1. n \in 0 .. n
            OBVIOUS
        <3>2. ASSUME T = {} PROVE g[n] = h[n]
            BY <3>1, <3>2
        <3> QED BY <3>2 DEF g, h
    <2> HIDE DEF g, h
    <2>2. PICK i \in T : \A k \in T : i <= k
        <3>1. T \in SUBSET Nat
            OBVIOUS
        <3> HIDE DEF T
        <3> QED BY <3>1, LeastElement
    <2>3. i # 0 /\ i - 1 \in 0 .. n - 1 /\ i - 1 \notin T
        BY <2>1, <2>2
    <2>4. g[i - 1] = h[i - 1]
        BY <2>3
    <2>5. PICK j \in 0 .. n - 1 : j = i - 1
        BY <2>3
    <2>6. g[j + 1] = step[j][g[j]] /\ h[j + 1] = step[j][h[j]]
        BY <2>1, <2>5
    <2>7. g[i] = h[i]
        BY <2>2, <2>4, <2>5, <2>6
    <2> QED BY <2>2, <2>7
<1>4. f \in [Nat -> S]
    <2>1. ASSUME NEW n \in Nat PROVE G(n)[n] \in S
        <3>1. G(n) \in [0 .. n -> S]
            BY <1>2
        <3> HIDE DEF G
        <3> QED BY <3>1
    <2> HIDE DEF G
    <2> QED BY <2>1
<1>5. f[0] = a
    <2>1. G(0)[0] = a
        BY <1>2
    <2> HIDE DEF G
    <2> QED BY <2>1
<1>6. ASSUME NEW n \in Nat PROVE f[n + 1] = step[n][f[n]]
    <2>1. G(n + 1) \in Upto(n + 1)
        <3>1. n + 1 \in Nat
            OBVIOUS
        <3> HIDE DEF Upto, G
        <3> QED BY <1>2, <3>1
    <2>2. G(n + 1)[n + 1] = step[n][G(n + 1)[n]]
        <3> HIDE DEF G
        <3> QED BY <2>1
    <2>3. f[n + 1] = G(n + 1)[n + 1] /\ f[n] = G(n)[n]
        <3> HIDE DEF G
        <3> QED OBVIOUS
    <2> HIDE DEF f, G
    <2> QED BY <1>3, <2>2, <2>3
<1> HIDE DEF f
<1> QED BY <1>4, <1>5, <1>6 DEF Follows

\* The interval is defined for every attempt.
LEMMA IntervalFacts ==
    /\ interval \in [Nat -> Nat]
    /\ \A n \in Nat : interval[n] = IF n <= 1 THEN InitialInterval ELSE 2 * interval[n - 1]
<1> DEFINE step == [n \in Nat |-> [v \in Nat |-> IF n = 0 THEN InitialInterval ELSE 2 * v]]
<1>1. step \in [Nat -> [Nat -> Nat]] /\ InitialInterval \in Nat
    BY ConstantsAssumption
<1>2. \A n \in Nat, v \in Nat : step[n][v] = IF n = 0 THEN InitialInterval ELSE 2 * v
    OBVIOUS
<1> HIDE DEF step
<1>3. PICK f \in [Nat -> Nat] : Follows(f, InitialInterval, step)
    BY <1>1, Recursion, Zenon
<1>4. ASSUME NEW n \in Nat
      PROVE  f[n] = IF n <= 1 THEN InitialInterval ELSE 2 * f[n - 1]
    <2>1. CASE n = 0
        BY <1>3, <2>1 DEF Follows
    <2>2. CASE n # 0
        <3>1. PICK m \in Nat : n = m + 1
            BY <2>2
        <3>2. f[n] = step[m][f[m]]
            BY <1>3, <3>1 DEF Follows
        <3>3. f[n] = IF m = 0 THEN InitialInterval ELSE 2 * f[m]
            BY <1>2, <3>2
        <3> QED BY <3>1, <3>3
    <2> QED BY <2>1, <2>2
<1>5. f = [n \in Nat |-> IF n <= 1 THEN InitialInterval ELSE 2 * f[n - 1]]
    BY <1>3, <1>4
<1>6. interval = [n \in Nat |-> IF n <= 1 THEN InitialInterval ELSE 2 * interval[n - 1]]
    BY <1>5, Zenon DEF interval
<1>7. \A n \in Nat : interval[n] = IF n <= 1 THEN InitialInterval ELSE 2 * interval[n - 1]
    BY <1>6
<1>8. ASSUME NEW n \in Nat PROVE interval[n] \in Nat
    <2> DEFINE T == {m \in Nat : interval[m] \notin Nat}
    <2> SUFFICES ASSUME T # {} PROVE FALSE
        OBVIOUS
    <2>1. PICK m \in T : \A k \in T : m <= k
        <3>1. T \in SUBSET Nat
            OBVIOUS
        <3> HIDE DEF T
        <3> QED BY <3>1, LeastElement
    <2>2. ~(m <= 1)
        BY <1>1, <1>7
    <2>3. m - 1 \in Nat /\ m - 1 \notin T
        <3> HIDE DEF T
        <3> m \in Nat
            BY DEF T
        <3> QED BY <2>1, <2>2
    <2>4. interval[m - 1] \in Nat
        BY <2>3
    <2>5. interval[m] = 2 * interval[m - 1]
        BY <1>7, <2>2
    <2> QED BY <2>4, <2>5
<1> QED BY <1>6, <1>7, <1>8

LEMMA CapFacts ==
    ASSUME NEW n \in Nat
    PROVE  Cap(n) \in Nat /\ Cap(n) = Lesser(MaxInterval, interval[n])
<1>1. interval[n] \in Nat /\ MaxInterval \in Nat
    BY IntervalFacts, ConstantsAssumption
<1> HIDE DEF interval
<1> QED BY <1>1 DEF Cap, Lesser

\* So is the time a pass may take, which grows with the number of its attempts.
LEMMA LongestFacts ==
    /\ longestPass \in [Nat -> Nat]
    /\ longestPass[1] = Timeout
    /\ \A n \in Nat \ {0} : longestPass[n + 1] = longestPass[n] + Timeout + Cap(n + 1)
<1> DEFINE step == [n \in Nat |-> [v \in Nat |->
                       IF n = 0 THEN Timeout ELSE v + Timeout + Cap(n + 1)]]
<1>0. Timeout \in Nat
    BY ConstantsAssumption
<1>1. step \in [Nat -> [Nat -> Nat]]
    <2>1. ASSUME NEW n \in Nat, NEW v \in Nat
          PROVE  (IF n = 0 THEN Timeout ELSE v + Timeout + Cap(n + 1)) \in Nat
        <3>1. Cap(n + 1) \in Nat
            BY CapFacts
        <3> QED BY <1>0, <3>1
    <2> QED BY <2>1
<1>2. \A n \in Nat, v \in Nat :
        step[n][v] = IF n = 0 THEN Timeout ELSE v + Timeout + Cap(n + 1)
    OBVIOUS
<1> HIDE DEF step
<1>3. PICK f \in [Nat -> Nat] : Follows(f, Timeout, step)
    BY <1>0, <1>1, Recursion, Zenon
<1>4. ASSUME NEW n \in Nat
      PROVE  f[n] = IF n <= 1 THEN Timeout
                    ELSE f[n - 1] + Timeout + Lesser(MaxInterval, interval[n])
    <2>1. CASE n = 0
        BY <1>3, <2>1 DEF Follows
    <2>2. CASE n # 0
        <3>1. PICK m \in Nat : n = m + 1
            BY <2>2
        <3>2. f[n] = step[m][f[m]]
            BY <1>3, <3>1 DEF Follows
        <3>3. f[n] = IF m = 0 THEN Timeout ELSE f[m] + Timeout + Cap(n)
            BY <1>2, <3>1, <3>2
        <3>4. Cap(n) = Lesser(MaxInterval, interval[n])
            BY CapFacts
        <3>5. m = n - 1 /\ (m = 0 <=> n <= 1)
            BY <3>1
        <3> QED BY <3>3, <3>4, <3>5
    <2> QED BY <2>1, <2>2
<1>5. f = [n \in Nat |-> IF n <= 1 THEN Timeout
                         ELSE f[n - 1] + Timeout + Lesser(MaxInterval, interval[n])]
    BY <1>3, <1>4
<1>6. longestPass = [n \in Nat |-> IF n <= 1 THEN Timeout
                         ELSE longestPass[n - 1] + Timeout + Lesser(MaxInterval, interval[n])]
    BY <1>5, Zenon DEF longestPass
<1>7. longestPass[1] = Timeout /\ longestPass[0] = Timeout
    BY <1>6
<1>8. ASSUME NEW n \in Nat \ {0}
      PROVE  longestPass[n + 1] = longestPass[n] + Timeout + Cap(n + 1)
    <2>1. PICK k \in Nat : k = n + 1
        OBVIOUS
    <2>2. longestPass[k] = longestPass[k - 1] + Timeout + Lesser(MaxInterval, interval[k])
        BY <1>6, <2>1
    <2>3. Cap(k) = Lesser(MaxInterval, interval[k]) /\ k - 1 = n
        BY CapFacts, <2>1
    <2> QED BY <2>1, <2>2, <2>3
<1>9. ASSUME NEW n \in Nat PROVE longestPass[n] \in Nat
    <2> DEFINE T == {m \in Nat : longestPass[m] \notin Nat}
    <2> SUFFICES ASSUME T # {} PROVE FALSE
        OBVIOUS
    <2>1. PICK m \in T : \A k \in T : m <= k
        <3>1. T \in SUBSET Nat
            OBVIOUS
        <3> HIDE DEF T
        <3> QED BY <3>1, LeastElement
    <2>2. m \notin {0, 1} /\ m \in Nat
        BY <1>0, <1>7
    <2>3. PICK k \in Nat \ {0} : m = k + 1
        BY <2>2
    <2>4. k \notin T
        <3> HIDE DEF T
        <3> QED BY <2>1, <2>3
    <2>5. longestPass[k] \in Nat /\ Cap(k + 1) \in Nat
        BY <2>4, CapFacts
    <2> QED BY <1>0, <1>8, <2>3, <2>5
<1>10. longestPass \in [Nat -> Nat]
    BY <1>6, <1>9
<1> QED BY <1>7, <1>8, <1>10

LEMMA LongestGrows ==
    ASSUME NEW n \in 1 .. MaxRetries
    PROVE  longestPass[n] <= longestPass[MaxRetries]
<1> DEFINE T == {d \in 0 .. MaxRetries - 1 :
                    ~(longestPass[MaxRetries - d] <= longestPass[MaxRetries])}
<1>0. MaxRetries \in Nat \ {0} /\ Timeout \in Nat
    BY ConstantsAssumption
<1>1. T = {}
    <2> SUFFICES ASSUME T # {} PROVE FALSE
        OBVIOUS
    <2>1. PICK d \in T : \A k \in T : d <= k
        <3>1. T \in SUBSET Nat
            BY <1>0
        <3> HIDE DEF T
        <3> QED BY <3>1, LeastElement
    <2>2. d # 0
        <3>1. longestPass[MaxRetries] \in Nat
            BY <1>0, LongestFacts
        <3> QED BY <1>0, <3>1
    <2>3. PICK m \in Nat \ {0} : m = MaxRetries - d
        BY <1>0
    <2>4. d - 1 \in 0 .. MaxRetries - 1 /\ d - 1 \notin T /\ MaxRetries - (d - 1) = m + 1
        <3>1. d \in 0 .. MaxRetries - 1
            OBVIOUS
        <3> HIDE DEF T
        <3> QED BY <1>0, <2>1, <2>2, <2>3, <3>1
    <2>5. longestPass[m + 1] <= longestPass[MaxRetries]
        BY <2>4
    <2>6. longestPass[m + 1] = longestPass[m] + Timeout + Cap(m + 1) /\ Cap(m + 1) \in Nat
        BY LongestFacts, CapFacts
    <2>7. longestPass[m] \in Nat /\ longestPass[m + 1] \in Nat /\ longestPass[MaxRetries] \in Nat
        BY <1>0, LongestFacts
    <2>8. longestPass[m] <= longestPass[MaxRetries]
        BY <1>0, <2>5, <2>6, <2>7
    <2> QED BY <2>3, <2>8
<1>2. PICK d \in 0 .. MaxRetries - 1 : n = MaxRetries - d
    BY <1>0
<1> QED BY <1>1, <1>2

(***************************************************************************)
(* Types, addresses and ages                                               *)
(***************************************************************************)

UnderWay == {"dial", "resolved", "sent", "answered", "lost"}
Codes == {NoCode, 200, 400, 500}

\* What TypeOK leaves open: no receiver answers 401, and connections lead to addresses
\* that were dialed.
StateOK ==
    /\ age \in [Passes -> Nat] /\ timer \in [Passes -> Nat] /\ elapsed \in [Passes -> Nat]
    /\ code \in [Passes -> Codes]
    /\ conn \in [Passes -> opened \cup {NoAddress}]

\* The age of a signature and what is left of the client's timeout.
AgeInv == \A p \in Passes : pc[p] \in UnderWay => age[p] + timer[p] <= Timeout

\* How long a pass has taken, and may still take before its next attempt or its end.
TimeInv ==
    \A p \in Passes :
        /\ pc[p] \in UnderWay => elapsed[p] + timer[p] <= longestPass[attempt[p]]
        /\ pc[p] = "backoff" => elapsed[p] + timer[p] + Timeout <= longestPass[attempt[p]]
        /\ pc[p] = "ready" => elapsed[p] + Timeout <= longestPass[attempt[p]]
        /\ Over(p) => elapsed[p] = 0

EgressInv == TypeOK /\ StateOK /\ AgeInv /\ TimeInv /\ DialedIsAllowed

USE DEF UnderWay, Codes, NoCode

LEMMA ConstantFacts ==
    /\ MaxRetries \in Nat /\ MaxRetries >= 1
    /\ Timeout \in Nat /\ Timeout >= 1 /\ Tolerance \in Nat /\ Timeout <= Tolerance
    /\ NoAddress \notin Addresses /\ MaxFaults \in Nat
    /\ \A n \in 1 .. MaxRetries : longestPass[n] \in Nat
BY ConstantsAssumption, LongestFacts

LEMMA InitEgress == ASSUME Init PROVE EgressInv
<1> USE ConstantFacts
<1>1. TypeOK
    BY DEF Init, TypeOK
<1>2. StateOK /\ AgeInv /\ DialedIsAllowed
    BY DEF Init, StateOK, AgeInv, DialedIsAllowed
<1>3. TimeInv
    BY LongestFacts DEF Init, TimeInv, Over
<1> QED BY <1>1, <1>2, <1>3 DEF EgressInv

\* The end of an attempt: what it leaves of the pass, and that it is about no other pass.
LEMMA OutcomeFacts ==
    ASSUME TypeOK, StateOK, NEW p \in Passes, NEW c, Outcome(p, c)
    PROVE  /\ pc' \in [Passes -> {"ready", "dial", "resolved", "sent", "answered", "lost",
                                  "backoff", "delivered", "dead"}]
           /\ attempt' \in [Passes -> 1 .. MaxRetries]
           /\ age' \in [Passes -> Nat] /\ timer' \in [Passes -> Nat]
           /\ elapsed' \in [Passes -> Nat] /\ code' \in [Passes -> Codes]
           /\ conn' \in [Passes -> opened \cup {NoAddress}]
           /\ code'[p] = NoCode /\ conn'[p] = NoAddress
           /\ \/ c \in 200 .. 299 /\ pc'[p] = "delivered" /\ elapsed'[p] = 0
              \/ c \notin 200 .. 299 /\ pc'[p] = "dead" /\ elapsed'[p] = 0
                 /\ ~(IsRetryable(c) /\ attempt[p] < MaxRetries)
              \/ /\ c \notin 200 .. 299 /\ pc'[p] = "backoff" /\ attempt[p] < MaxRetries
                 /\ attempt'[p] = attempt[p] + 1
                 /\ timer'[p] <= Cap(attempt[p] + 1) /\ elapsed'[p] = elapsed[p]
           /\ \A q \in Passes \ {p} :
                 /\ pc'[q] = pc[q] /\ attempt'[q] = attempt[q] /\ age'[q] = age[q]
                 /\ timer'[q] = timer[q] /\ elapsed'[q] = elapsed[q]
                 /\ code'[q] = code[q] /\ conn'[q] = conn[q]
<1> USE ConstantFacts DEF Outcome, OutcomeWithin, Goto, EndPass, TypeOK, StateOK
<1>1. CASE c \in 200 .. 299
    BY <1>1
<1>2. CASE c \notin 200 .. 299 /\ IsRetryable(c) /\ attempt[p] < MaxRetries
    <2>1. PICK t \in 0 .. Cap(attempt[p] + 1) : timer' = [timer EXCEPT ![p] = t]
        BY <1>2
    <2>2. Cap(attempt[p] + 1) \in Nat
        <3>1. attempt[p] + 1 \in Nat
            OBVIOUS
        <3> QED BY <3>1, CapFacts
    <2>3. t \in Nat /\ t <= Cap(attempt[p] + 1)
        BY <2>1, <2>2
    <2>4. attempt' \in [Passes -> 1 .. MaxRetries] /\ attempt'[p] = attempt[p] + 1
        BY <1>2
    <2> HIDE DEF IsRetryable
    <2> QED BY <1>2, <2>1, <2>3, <2>4
<1>3. CASE c \notin 200 .. 299 /\ ~(IsRetryable(c) /\ attempt[p] < MaxRetries)
    BY <1>3
<1> QED BY <1>1, <1>2, <1>3

LEMMA OutcomeKeeps ==
    ASSUME EgressInv, NEW p \in Passes, NEW c, Outcome(p, c), pc[p] \in UnderWay,
           UNCHANGED <<route, dns, count, opened, faults>>, idle' \subseteq opened
    PROVE  EgressInv'
<1> USE ConstantFacts
<1>0. TypeOK /\ StateOK /\ AgeInv /\ TimeInv /\ DialedIsAllowed
    BY DEF EgressInv
<1>1. TypeOK'
    BY <1>0, OutcomeFacts DEF TypeOK, StateOK
<1>2. StateOK' /\ DialedIsAllowed'
    BY <1>0, OutcomeFacts DEF StateOK, DialedIsAllowed
<1>3. AgeInv'
    BY <1>0, OutcomeFacts DEF AgeInv
<1>4. TimeInv'
    <2> SUFFICES ASSUME NEW q \in Passes
                 PROVE  /\ pc'[q] \in UnderWay =>
                             elapsed'[q] + timer'[q] <= longestPass[attempt'[q]]
                        /\ pc'[q] = "backoff" =>
                             elapsed'[q] + timer'[q] + Timeout <= longestPass[attempt'[q]]
                        /\ pc'[q] = "ready" => elapsed'[q] + Timeout <= longestPass[attempt'[q]]
                        /\ pc'[q] \in {"delivered", "dead"} => elapsed'[q] = 0
        BY DEF TimeInv, Over
    <2>1. CASE q # p
        BY <1>0, <2>1, OutcomeFacts DEF TimeInv, Over
    <2>2. CASE q = p /\ pc'[p] # "backoff"
        BY <1>0, <2>2, OutcomeFacts
    <2>3. CASE q = p /\ pc'[p] = "backoff"
        <3>1. PICK a \in 1 .. MaxRetries : a = attempt[p]
            BY <1>0 DEF TypeOK
        <3>2. PICK e \in Nat, t \in Nat, u \in Nat :
                 e = elapsed[p] /\ t = timer'[p] /\ u = timer[p]
            BY <1>0, OutcomeFacts DEF StateOK
        <3>3. attempt'[p] = a + 1 /\ elapsed'[p] = e /\ t <= Cap(a + 1)
            BY <1>0, <2>3, <3>1, <3>2, OutcomeFacts
        <3>4. e + u <= longestPass[a]
            BY <1>0, <3>1, <3>2 DEF TimeInv
        <3>5. longestPass[a + 1] = longestPass[a] + Timeout + Cap(a + 1)
            BY LongestFacts
        <3>6. longestPass[a] \in Nat /\ Cap(a + 1) \in Nat
            BY LongestFacts, CapFacts
        <3>7. e + t + Timeout <= longestPass[a + 1]
            BY <3>3, <3>4, <3>5, <3>6
        <3> QED BY <2>3, <3>2, <3>3, <3>7
    <2> QED BY <2>1, <2>2, <2>3
<1> QED BY <1>1, <1>2, <1>3, <1>4 DEF EgressInv

\* The steps of one pass.
LEMMA PassStep ==
    ASSUME EgressInv, NEW p \in Passes, Step(p) \/ Receive(p) \/ Lose(p)
    PROVE  EgressInv'
<1> USE ConstantFacts
<1>0. TypeOK /\ StateOK /\ AgeInv /\ TimeInv /\ DialedIsAllowed
    BY DEF EgressInv
<1>1. CASE Dispatch(p)
    <2>1. /\ pc[p] = "ready" /\ pc' = [pc EXCEPT ![p] = "dial"]
          /\ age' = [age EXCEPT ![p] = 0] /\ timer' = [timer EXCEPT ![p] = Timeout]
          /\ UNCHANGED <<route, attempt, elapsed, code, conn, idle, dns, count, opened, faults>>
        BY <1>1 DEF Dispatch, SignPayload, Goto
    <2>2. TypeOK' /\ StateOK'
        BY <1>0, <2>1 DEF TypeOK, StateOK
    <2>3. AgeInv' /\ DialedIsAllowed'
        BY <1>0, <2>1 DEF TypeOK, StateOK, AgeInv, DialedIsAllowed
    <2>4. TimeInv'
        BY <1>0, <2>1 DEF TypeOK, StateOK, TimeInv, Over
    <2> QED BY <2>2, <2>3, <2>4 DEF EgressInv
<1>2. CASE Reuse(p)
    <2>1. PICK a \in idle : /\ idle' = idle \ {a} /\ conn' = [conn EXCEPT ![p] = a]
                            /\ pc[p] = "dial" /\ pc' = [pc EXCEPT ![p] = "sent"]
                            /\ UNCHANGED <<route, attempt, age, timer, elapsed, code, dns, count,
                                           opened, faults>>
        BY <1>2 DEF Reuse, Goto
    <2>2. TypeOK' /\ StateOK'
        BY <1>0, <2>1 DEF TypeOK, StateOK
    <2>3. AgeInv' /\ DialedIsAllowed' /\ TimeInv'
        BY <1>0, <2>1 DEF TypeOK, AgeInv, DialedIsAllowed, TimeInv, Over
    <2> QED BY <2>2, <2>3 DEF EgressInv
<1>3. CASE Lookup(p)
    <2>1. CASE Outcome(p, -1)
        BY <1>0, <1>3, <2>1, OutcomeKeeps DEF Lookup, TypeOK
    <2>2. CASE ~Outcome(p, -1)
        <3>1. /\ pc[p] = "dial" /\ pc' = [pc EXCEPT ![p] = "resolved"]
              /\ UNCHANGED <<route, attempt, age, timer, elapsed, code, conn, idle, dns, count,
                             opened, faults>>
            BY <1>3, <2>2 DEF Lookup, Goto
        <3>2. TypeOK' /\ StateOK'
            BY <1>0, <3>1 DEF TypeOK, StateOK
        <3>3. AgeInv' /\ DialedIsAllowed' /\ TimeInv'
            BY <1>0, <3>1 DEF TypeOK, AgeInv, DialedIsAllowed, TimeInv, Over
        <3> QED BY <3>2, <3>3 DEF EgressInv
    <2> QED BY <2>1, <2>2
<1>4. CASE Dial(p)
    <2>1. CASE Outcome(p, -1) /\ UNCHANGED opened
        BY <1>0, <1>4, <2>1, OutcomeKeeps DEF Dial, TypeOK
    <2>2. CASE ~(Outcome(p, -1) /\ UNCHANGED opened)
        <3>1. PICK a \in dns :
                /\ AllowPrivate \/ a \notin Restricted
                /\ conn' = [conn EXCEPT ![p] = a] /\ opened' = opened \cup {a}
                /\ pc[p] = "resolved" /\ pc' = [pc EXCEPT ![p] = "sent"]
                /\ UNCHANGED <<route, attempt, age, timer, elapsed, code, idle, dns, count, faults>>
            BY <1>4, <2>2 DEF Dial, Goto, IsRestrictedIP
        <3>2. TypeOK' /\ StateOK'
            BY <1>0, <3>1 DEF TypeOK, StateOK
        <3>3. AgeInv' /\ DialedIsAllowed' /\ TimeInv'
            BY <1>0, <3>1 DEF TypeOK, AgeInv, DialedIsAllowed, TimeInv, Over
        <3> QED BY <3>2, <3>3 DEF EgressInv
    <2> QED BY <2>1, <2>2
<1>5. CASE Reply(p)
    <2>1. conn[p] \in opened
        BY <1>0, <1>5 DEF TypeOK, StateOK, Reply
    <2> QED BY <1>0, <1>5, <2>1, OutcomeKeeps DEF Reply, TypeOK
<1>6. CASE TimeOut(p)
    BY <1>0, <1>6, OutcomeKeeps DEF TimeOut, TypeOK
<1>7. CASE Wake(p)
    <2>1. /\ pc[p] = "backoff" /\ timer[p] = 0 /\ pc' = [pc EXCEPT ![p] = "ready"]
          /\ UNCHANGED <<route, attempt, age, timer, elapsed, code, conn, idle, dns, count,
                         opened, faults>>
        BY <1>7 DEF Wake, Goto
    <2>2. TypeOK' /\ StateOK'
        BY <1>0, <2>1 DEF TypeOK, StateOK
    <2>3. AgeInv' /\ DialedIsAllowed' /\ TimeInv'
        BY <1>0, <2>1 DEF TypeOK, StateOK, AgeInv, DialedIsAllowed, TimeInv, Over
    <2> QED BY <2>2, <2>3 DEF EgressInv
<1>8. CASE Receive(p)
    <2>1. age[p] <= Tolerance
        BY <1>0, <1>8 DEF Receive, AgeInv, StateOK
    <2>2. PICK r \in Routes : r = route[p]
        BY <1>0, ConstantsAssumption DEF TypeOK
    <2>3. Answer(p) \in {200, 400, 500}
        BY <2>1, <2>2 DEF Answer, Routes, Flaky, VerifySignature
    <2>4. /\ pc[p] = "sent" /\ pc' = [pc EXCEPT ![p] = "answered"]
          /\ code' = [code EXCEPT ![p] = Answer(p)]
          /\ UNCHANGED <<route, attempt, age, timer, elapsed, conn, idle, dns, opened, faults>>
        BY <1>8 DEF Receive, Goto
    <2>5. count' \in Nat
        BY <1>0, <1>8 DEF Receive, TypeOK
    <2> HIDE DEF Answer
    <2>6. TypeOK' /\ StateOK'
        BY <1>0, <2>3, <2>4, <2>5 DEF TypeOK, StateOK
    <2>7. AgeInv' /\ DialedIsAllowed' /\ TimeInv'
        BY <1>0, <2>4 DEF TypeOK, AgeInv, DialedIsAllowed, TimeInv, Over
    <2> QED BY <2>6, <2>7 DEF EgressInv
<1>9. CASE Lose(p)
    <2>1. /\ pc[p] \in {"sent", "answered"} /\ pc' = [pc EXCEPT ![p] = "lost"]
          /\ code' = [code EXCEPT ![p] = NoCode] /\ faults < MaxFaults /\ faults' = faults + 1
          /\ UNCHANGED <<route, attempt, age, timer, elapsed, conn, idle, dns, count, opened>>
        BY <1>9 DEF Lose, Goto, Fault
    <2>2. TypeOK' /\ StateOK'
        BY <1>0, <2>1 DEF TypeOK, StateOK
    <2>3. AgeInv' /\ DialedIsAllowed' /\ TimeInv'
        BY <1>0, <2>1 DEF TypeOK, AgeInv, DialedIsAllowed, TimeInv, Over
    <2> QED BY <2>2, <2>3 DEF EgressInv
<1> QED BY <1>1, <1>2, <1>3, <1>4, <1>5, <1>6, <1>7, <1>8, <1>9 DEF Step

\* Time passes: what ages has a timer that runs down.
LEMMA TickStep == ASSUME EgressInv, Tick PROVE EgressInv'
<1> USE ConstantFacts
<1>0. TypeOK /\ StateOK /\ AgeInv /\ TimeInv /\ DialedIsAllowed
    BY DEF EgressInv
<1>1. /\ age' = [p \in Passes |-> IF ~Over(p) /\ pc[p] # "backoff" THEN age[p] + 1 ELSE age[p]]
      /\ elapsed' = [p \in Passes |-> IF ~Over(p) THEN elapsed[p] + 1 ELSE elapsed[p]]
      /\ timer' = [p \in Passes |-> IF ~Over(p) THEN timer[p] - 1 ELSE timer[p]]
      /\ UNCHANGED <<route, pc, attempt, code, conn, idle, dns, count, opened, faults>>
    BY DEF Tick
<1>2. \A p \in Passes : ~Over(p) => timer[p] # 0 /\ pc[p] # "ready"
    BY DEF Tick, Urgent
<1>3. \A p \in Passes : age'[p] \in Nat /\ timer'[p] \in Nat /\ elapsed'[p] \in Nat
    BY <1>0, <1>1, <1>2 DEF StateOK
<1>4. TypeOK' /\ StateOK'
    BY <1>0, <1>1, <1>3 DEF TypeOK, StateOK
<1>5. AgeInv' /\ DialedIsAllowed'
    BY <1>0, <1>1, <1>2 DEF TypeOK, StateOK, AgeInv, DialedIsAllowed, Over
<1>6. TimeInv'
    BY <1>0, <1>1, <1>2 DEF TypeOK, StateOK, TimeInv, Over
<1> QED BY <1>4, <1>5, <1>6 DEF EgressInv

LEMMA EgressInvariant == Spec => []EgressInv
<1>1. Init => EgressInv
    BY InitEgress
<1>2. EgressInv /\ [Next]_vars => EgressInv'
    <2> SUFFICES ASSUME EgressInv, [Next]_vars PROVE EgressInv'
        OBVIOUS
    <2> USE DEF EgressInv, TypeOK, StateOK, AgeInv, TimeInv, DialedIsAllowed, Over
    <2>1. ASSUME NEW p \in Passes, Step(p) \/ Receive(p) \/ Lose(p) PROVE EgressInv'
        BY <2>1, PassStep
    <2>2. CASE ChangeDNS
        BY <2>2, ConstantFacts DEF ChangeDNS, Fault, passVars
    <2>3. CASE CloseIdle
        BY <2>3 DEF CloseIdle, passVars
    <2>4. CASE Tick
        BY <2>4, TickStep
    <2>5. CASE UNCHANGED vars
        BY <2>5 DEF vars, passVars
    <2> QED BY <2>1, <2>2, <2>3, <2>4, <2>5 DEF Next, AllOver
<1> QED BY <1>1, <1>2, PTL DEF Spec

\* Every pass is where its attempt, its timer and its connection say, for any number of
\* passes and any policy, and no pass goes beyond the last attempt of the policy.
THEOREM EgressType == Spec => []TypeOK
BY EgressInvariant, PTL DEF EgressInv

\* The guard of ssrf.go: whatever the host's records change to between the two lookups,
\* and whichever connections are kept, no restricted address is ever dialed.
THEOREM NoRestrictedDial == Spec => []DialedIsAllowed
BY EgressInvariant, PTL DEF EgressInv

\* Since Dispatch signs every attempt anew and the client's timeout is within the
\* tolerance of VerifySignature, a verifying receiver never refuses one as stale.
THEOREM SignaturesStayFresh == Spec => []NeverStale
<1>1. EgressInv => NeverStale
    BY DEF EgressInv, StateOK, NeverStale
<1> QED BY <1>1, EgressInvariant, PTL

\* A pass of processMessage takes no longer than the timeouts of its attempts and the
\* capped backoffs between them, for every policy.
THEOREM PassIsBounded == Spec => []PassEndsInTime
<1>1. EgressInv => PassEndsInTime
    <2> SUFFICES ASSUME EgressInv, NEW p \in Passes
                 PROVE  elapsed[p] <= longestPass[MaxRetries]
        BY DEF PassEndsInTime
    <2>1. /\ attempt[p] \in 1 .. MaxRetries /\ elapsed[p] \in Nat /\ timer[p] \in Nat
          /\ longestPass[MaxRetries] \in Nat /\ longestPass[attempt[p]] \in Nat
        BY ConstantFacts DEF EgressInv, TypeOK, StateOK
    <2>2. longestPass[attempt[p]] <= longestPass[MaxRetries]
        BY <2>1, LongestGrows
    <2>3. elapsed[p] <= longestPass[attempt[p]]
        BY <2>1, ConstantFacts DEF EgressInv, TypeOK, TimeInv, Over
    <2> QED BY <2>1, <2>2, <2>3
<1> QED BY <1>1, EgressInvariant, PTL

(***************************************************************************)
(* Two passes on a flaky receiver                                          *)
(***************************************************************************)

\* Nothing was lost and the host resolves, as it did from the beginning.
Calm == faults = 0 /\ Resolves

\* A pass that was answered 200, and the 500s a pass has had.
Score(p) == IF route[p] = "flaky" /\ (pc[p] = "delivered" \/ code[p] = 200) THEN 1 ELSE 0
Failures(p) == attempt[p] - 1 + (IF code[p] = 500 THEN 1 ELSE 0)

\* Of n requests, those that were answered 500.
Refused(n) == n - (n \div 3)

\* A pass on the flaky receiver gets an answer in time to every request, and has had no
\* more 500s than the receiver has given.
FlakyOK(p) ==
    /\ pc[p] \notin {"dead", "lost"}
    /\ pc[p] \in UnderWay => timer[p] >= 1
    /\ pc[p] = "answered" => code[p] \in {200, 500}
    /\ Score(p) = 0 => Failures(p) <= Refused(count)

\* Every 200 of the receiver has gone to a pass, which ends with it.
FlakyInv(w, r) ==
    Calm => /\ count \div 3 <= Score(w) + Score(r)
            /\ \A p \in Passes : route[p] = "flaky" => FlakyOK(p)

\* One request more is answered 500, or 200 when it is a third.
LEMMA CountFacts ==
    ASSUME NEW n \in Nat
    PROVE  /\ n \div 3 \in Nat /\ Refused(n) \in Nat
           /\ n \div 3 <= 1 => Refused(n) <= 4
           /\ Flaky(n + 1) = 200 => /\ (n + 1) \div 3 = (n \div 3) + 1
                                    /\ Refused(n + 1) = Refused(n)
           /\ Flaky(n + 1) # 200 => /\ Flaky(n + 1) = 500 /\ (n + 1) \div 3 = n \div 3
                                    /\ Refused(n + 1) = Refused(n) + 1
BY DEF Refused, Flaky

LEMMA InitFlaky ==
    ASSUME NEW w \in Passes, NEW r \in Passes, Init
    PROVE  FlakyInv(w, r)
<1>1. 0 \div 3 = 0 /\ Refused(0) = 0
    BY DEF Refused
<1>2. \A p \in Passes : Score(p) = 0 /\ Failures(p) = 0 /\ pc[p] = "ready"
    BY DEF Init, Score, Failures
<1> QED BY <1>1, <1>2 DEF FlakyInv, FlakyOK, Init

LEMMA FlakyPassStep ==
    ASSUME NEW w, NEW r, Passes = {w, r}, MaxRetries >= 5, EgressInv, FlakyInv(w, r),
           NEW p \in Passes, Step(p) \/ Receive(p), Calm, UNCHANGED <<route, dns, faults>>
    PROVE  FlakyInv(w, r)'
<1> USE ConstantFacts
<1>0. /\ TypeOK /\ StateOK
      /\ count \in Nat /\ \A q \in Passes : Score(q) \in {0, 1}
      /\ \A q \in Passes : Score(q)' \in {0, 1}
    BY DEF EgressInv, TypeOK, Score
<1>1. /\ count \div 3 <= Score(w) + Score(r)
      /\ \A q \in Passes : route[q] = "flaky" => FlakyOK(q)
    BY DEF FlakyInv
<1>2. /\ count \div 3 \in Nat /\ Refused(count) \in Nat
    BY <1>0, CountFacts
\* It is enough to look at the pass itself.
<1>3. ASSUME \A q \in Passes \ {p} : /\ pc'[q] = pc[q] /\ attempt'[q] = attempt[q]
                                     /\ timer'[q] = timer[q] /\ code'[q] = code[q],
             count' = count,
             Score(p)' >= Score(p), route[p] = "flaky" => FlakyOK(p)'
      PROVE  FlakyInv(w, r)'
    <2>1. \A q \in Passes \ {p} : Score(q)' = Score(q) /\ (FlakyOK(q) => FlakyOK(q)')
        BY <1>3 DEF FlakyOK, Score, Failures
    <2>2. \A q \in Passes : Score(q)' >= Score(q)
        BY <1>0, <1>3, <2>1
    <2>3. count' \div 3 <= Score(w)' + Score(r)'
        <3>1. PICK sw \in {0, 1}, sr \in {0, 1} : sw = Score(w) /\ sr = Score(r)
            BY <1>0
        <3>2. PICK tw \in {0, 1}, tr \in {0, 1} : tw = Score(w)' /\ tr = Score(r)'
            BY <1>0
        <3> QED BY <1>1, <1>2, <1>3, <2>2, <3>1, <3>2
    <2>4. \A q \in Passes : route'[q] = "flaky" => FlakyOK(q)'
        BY <1>1, <1>3, <2>1
    <2> QED BY <2>3, <2>4 DEF FlakyInv
<1>4. CASE Dispatch(p)
    <2>1. /\ pc[p] = "ready" /\ pc' = [pc EXCEPT ![p] = "dial"]
          /\ timer' = [timer EXCEPT ![p] = Timeout] /\ UNCHANGED <<attempt, code, count>>
        BY <1>4 DEF Dispatch, Goto
    <2>2. \A q \in Passes \ {p} : pc'[q] = pc[q] /\ timer'[q] = timer[q]
        BY <1>0, <2>1 DEF TypeOK, StateOK
    <2>3. pc'[p] = "dial" /\ timer'[p] = Timeout
        BY <1>0, <2>1 DEF TypeOK, StateOK
    <2>4. Score(p)' = Score(p) /\ Failures(p)' = Failures(p)
        BY <2>1, <2>3 DEF Score, Failures
    <2>5. route[p] = "flaky" => FlakyOK(p)'
        BY <1>1, <2>1, <2>3, <2>4 DEF FlakyOK
    <2> QED BY <1>0, <1>3, <2>1, <2>2, <2>4, <2>5
<1>5. ASSUME pc[p] \in {"dial", "resolved"}, NEW where \in {"resolved", "sent"},
             pc' = [pc EXCEPT ![p] = where], UNCHANGED <<attempt, timer, code, count>>
      PROVE  FlakyInv(w, r)'
    <2>1. pc'[p] = where /\ \A q \in Passes \ {p} : pc'[q] = pc[q]
        BY <1>0, <1>5 DEF TypeOK
    <2>2. Score(p)' = Score(p) /\ Failures(p)' = Failures(p)
        BY <1>5, <2>1 DEF Score, Failures
    <2>3. route[p] = "flaky" => FlakyOK(p)'
        BY <1>1, <1>5, <2>1, <2>2 DEF FlakyOK
    <2> QED BY <1>0, <1>3, <1>5, <2>1, <2>2, <2>3
<1>6. CASE Reuse(p) \/ Lookup(p)
    BY <1>5, <1>6 DEF Reuse, Lookup, Goto, Calm, Resolves, IsRestrictedIP
<1>7. CASE Dial(p)
    <2>1. \E a \in dns : AllowPrivate \/ ~IsRestrictedIP(a)
        BY DEF Calm, Resolves, IsRestrictedIP
    <2> QED BY <1>5, <1>7, <2>1 DEF Dial, Goto
<1>8. CASE Wake(p)
    <2>1. /\ pc[p] = "backoff" /\ pc' = [pc EXCEPT ![p] = "ready"]
          /\ UNCHANGED <<attempt, timer, code, count>>
        BY <1>8 DEF Wake, Goto
    <2>2. pc'[p] = "ready" /\ \A q \in Passes \ {p} : pc'[q] = pc[q]
        BY <1>0, <2>1 DEF TypeOK
    <2>3. Score(p)' = Score(p) /\ Failures(p)' = Failures(p)
        BY <2>1, <2>2 DEF Score, Failures
    <2>4. route[p] = "flaky" => FlakyOK(p)'
        BY <1>1, <2>1, <2>2, <2>3 DEF FlakyOK
    <2> QED BY <1>0, <1>3, <2>1, <2>2, <2>3, <2>4
<1>9. CASE TimeOut(p)
    <2>1. route[p] # "flaky"
        BY <1>1, <1>9 DEF TimeOut, FlakyOK
    <2>2. Score(p) = 0 /\ Score(p)' = 0
        BY <2>1 DEF Score
    <2> QED BY <1>0, <1>3, <1>9, <2>1, <2>2, OutcomeFacts DEF TimeOut
<1>10. CASE Reply(p)
    <2>1. Outcome(p, code[p]) /\ pc[p] = "answered" /\ UNCHANGED count
        BY <1>10 DEF Reply
    <2>2. CASE route[p] # "flaky"
        <3>1. Score(p) = 0 /\ Score(p)' = 0
            BY <2>2 DEF Score
        <3> QED BY <1>0, <1>3, <2>1, <2>2, <3>1, OutcomeFacts
    <2>3. CASE route[p] = "flaky" /\ code[p] = 200
        <3>1. pc'[p] = "delivered"
            BY <1>0, <2>1, <2>3, OutcomeFacts
        <3>2. Score(p)' = 1
            BY <2>3, <3>1 DEF Score
        <3>3. FlakyOK(p)'
            BY <3>1, <3>2 DEF FlakyOK
        <3> QED BY <1>0, <1>3, <2>1, <3>2, <3>3, OutcomeFacts
    <2>4. CASE route[p] = "flaky" /\ code[p] = 500
        <3>1. Score(p) = 0 /\ Failures(p) = attempt[p]
            BY <1>0, <2>1, <2>4 DEF Score, Failures, TypeOK
        <3>2. attempt[p] <= Refused(count)
            BY <1>1, <2>4, <3>1 DEF FlakyOK
        <3>3. count \div 3 <= 1
            BY <1>0, <1>1, <1>2, <3>1
        <3>4. attempt[p] <= 4
            BY <1>0, <1>2, <3>2, <3>3, CountFacts DEF TypeOK
        <3>5. IsRetryable(code[p]) /\ attempt[p] < MaxRetries /\ code[p] \notin 200 .. 299
            BY <1>0, <2>4, <3>4 DEF IsRetryable, TypeOK
        <3>6. pc'[p] = "backoff" /\ attempt'[p] = attempt[p] + 1 /\ code'[p] = NoCode
            BY <1>0, <2>1, <3>5, OutcomeFacts
        <3>7. Score(p)' = 0 /\ Failures(p)' = attempt[p]
            BY <1>0, <3>6 DEF Score, Failures, TypeOK
        <3>8. FlakyOK(p)'
            BY <2>1, <3>2, <3>6, <3>7 DEF FlakyOK
        <3> QED BY <1>0, <1>3, <2>1, <3>1, <3>7, <3>8, OutcomeFacts
    <2> QED BY <1>1, <2>1, <2>2, <2>3, <2>4 DEF FlakyOK
<1>11. CASE Receive(p)
    <2>1. /\ pc[p] = "sent" /\ pc' = [pc EXCEPT ![p] = "answered"]
          /\ code' = [code EXCEPT ![p] = Answer(p)] /\ UNCHANGED <<attempt, timer>>
        BY <1>11 DEF Receive, Goto
    <2>2. /\ pc'[p] = "answered" /\ code'[p] = Answer(p) /\ code[p] = NoCode
          /\ \A q \in Passes \ {p} : pc'[q] = pc[q] /\ code'[q] = code[q]
        <3> HIDE DEF Answer
        <3> QED BY <1>0, <2>1 DEF TypeOK, StateOK
    <2>3. CASE route[p] # "flaky"
        <3>1. Score(p) = 0 /\ Score(p)' = 0 /\ count' = count
            BY <1>11, <2>3 DEF Score, Receive
        <3> QED BY <1>0, <1>3, <2>1, <2>2, <2>3, <3>1
    <2>4. CASE route[p] = "flaky"
        <3>1. count' = count + 1 /\ code'[p] = Flaky(count + 1)
            BY <1>11, <2>2, <2>4 DEF Receive, Answer
        <3>2. Score(p) = 0 /\ Failures(p) = attempt[p] - 1 /\ attempt[p] \in Nat
            BY <1>0, <2>1, <2>2 DEF Score, Failures, TypeOK
        <3>3. attempt[p] - 1 <= Refused(count) /\ timer[p] >= 1
            BY <1>1, <2>1, <2>4, <3>2 DEF FlakyOK
        <3>4. \A q \in Passes \ {p} : Score(q)' = Score(q)
            BY <2>2 DEF Score
        <3>5. Refused(count') >= Refused(count) /\ Refused(count') \in Nat
            BY <1>0, <1>2, <3>1, CountFacts
        <3>6. \A q \in Passes \ {p} : FlakyOK(q) => FlakyOK(q)'
            <4> SUFFICES ASSUME NEW q \in Passes \ {p}, FlakyOK(q) PROVE FlakyOK(q)'
                OBVIOUS
            <4>1. Failures(q)' = Failures(q) /\ Failures(q) \in Int
                BY <1>0, <2>1, <2>2 DEF Failures, TypeOK
            <4>2. Score(q)' = 0 => Failures(q)' <= Refused(count)'
                BY <1>2, <3>4, <3>5, <4>1 DEF FlakyOK
            <4> QED BY <2>1, <2>2, <4>2 DEF FlakyOK
        <3>7. CASE Flaky(count + 1) = 200
            <4>1. Score(p)' = 1
                BY <2>2, <2>4, <3>1, <3>7 DEF Score
            <4>2. count' \div 3 = (count \div 3) + 1
                BY <1>0, <3>1, <3>7, CountFacts
            <4>3. count' \div 3 <= Score(w)' + Score(r)'
                BY <1>0, <1>1, <1>2, <3>2, <3>4, <4>1, <4>2
            <4>4. FlakyOK(p)'
                BY <2>1, <2>2, <3>1, <3>3, <3>7, <4>1 DEF FlakyOK
            <4> QED BY <1>1, <3>6, <4>3, <4>4 DEF FlakyInv
        <3>8. CASE Flaky(count + 1) # 200
            <4>1. Score(p)' = 0 /\ code'[p] = 500
                BY <1>0, <2>2, <3>1, <3>8, CountFacts DEF Score
            <4>2. count' \div 3 = count \div 3 /\ Refused(count') = Refused(count) + 1
                BY <1>0, <3>1, <3>8, CountFacts
            <4>3. count' \div 3 <= Score(w)' + Score(r)'
                BY <1>0, <1>1, <1>2, <3>2, <3>4, <4>1, <4>2
            <4>4. Failures(p)' = attempt[p]
                BY <2>1, <3>2, <4>1 DEF Failures
            <4>5. FlakyOK(p)'
                BY <1>2, <2>1, <2>2, <3>2, <3>3, <4>1, <4>2, <4>4 DEF FlakyOK
            <4> QED BY <1>1, <3>6, <4>3, <4>5 DEF FlakyInv
        <3> QED BY <3>7, <3>8
    <2> QED BY <2>3, <2>4
<1> QED BY <1>4, <1>6, <1>7, <1>8, <1>9, <1>10, <1>11 DEF Step

LEMMA FlakyStep ==
    ASSUME NEW w, NEW r, Passes = {w, r}, MaxRetries >= 5, EgressInv, FlakyInv(w, r),
           [Next]_vars
    PROVE  FlakyInv(w, r)'
<1> SUFFICES ASSUME Calm' PROVE FlakyInv(w, r)'
    BY DEF FlakyInv
<1>0. TypeOK /\ StateOK /\ faults \in Nat
    BY ConstantFacts DEF EgressInv, TypeOK
<1>1. faults' = 0
    BY DEF Calm
<1>2. ASSUME NEW p \in Passes, Step(p) \/ Receive(p) PROVE FlakyInv(w, r)'
    <2>1. UNCHANGED <<route, dns, faults>>
        BY <1>2 DEF Step, Dispatch, Reuse, Lookup, Dial, Reply, TimeOut, Wake, Receive
    <2>2. Calm
        BY <2>1 DEF Calm, Resolves
    <2> QED BY <1>2, <2>1, <2>2, FlakyPassStep
<1>3. ASSUME NEW p \in Passes, Lose(p) PROVE FALSE
    BY <1>0, <1>1, <1>3 DEF Lose, Fault
<1>4. CASE ChangeDNS
    BY <1>0, <1>1, <1>4 DEF ChangeDNS, Fault
<1>5. CASE Tick
    <2>1. UNCHANGED <<route, pc, attempt, code, dns, count, faults>>
        BY <1>5 DEF Tick
    <2>2. Calm
        BY <2>1 DEF Calm, Resolves
    <2>3. \A p \in Passes : Score(p)' = Score(p) /\ Failures(p)' = Failures(p)
        BY <2>1 DEF Score, Failures
    <2>4. ASSUME NEW p \in Passes, route[p] = "flaky", FlakyOK(p) PROVE FlakyOK(p)'
        <3>1. pc[p] \notin UnderWay
            BY <1>5, <2>4 DEF Tick, Urgent, Patient, FlakyOK
        <3> QED BY <2>1, <2>3, <2>4, <3>1 DEF FlakyOK
    <2> QED BY <2>1, <2>2, <2>3, <2>4 DEF FlakyInv
<1>6. CASE CloseIdle \/ UNCHANGED vars
    <2>1. UNCHANGED <<route, pc, attempt, timer, code, dns, count, faults>>
        BY <1>6 DEF CloseIdle, vars, passVars
    <2>2. Calm
        BY <2>1 DEF Calm, Resolves
    <2>3. \A p \in Passes : /\ Score(p)' = Score(p) /\ Failures(p)' = Failures(p)
                            /\ FlakyOK(p) => FlakyOK(p)'
        BY <2>1 DEF Score, Failures, FlakyOK
    <2> QED BY <2>1, <2>2, <2>3 DEF FlakyInv
<1> QED BY <1>2, <1>3, <1>4, <1>5, <1>6 DEF Next, AllOver

\* Two passes on one event share the count of handleWebhookFlaky, and each may take the
\* other's turn; still five attempts, the default policy, deliver both: no more than one
\* of the receiver's 200s goes to the other pass, so that a pass meets four 500s at most.
THEOREM FlakyDelivers ==
    ASSUME NEW w, NEW r, Passes = {w, r}, MaxRetries >= 5
    PROVE  Spec => []FlakyIsDelivered
<1>1. Init => FlakyInv(w, r)
    BY InitFlaky
<1>2. EgressInv /\ FlakyInv(w, r) /\ [Next]_vars => FlakyInv(w, r)'
    BY FlakyStep
<1>3. EgressInv /\ FlakyInv(w, r) => FlakyIsDelivered
    BY ConstantFacts DEF EgressInv, TypeOK, FlakyInv, FlakyOK, FlakyIsDelivered, Calm
<1> QED BY <1>1, <1>2, <1>3, EgressInvariant, PTL DEF Spec

=============================================================================
