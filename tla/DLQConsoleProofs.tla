-------------------------- MODULE DLQConsoleProofs --------------------------
(***************************************************************************)
(* Proofs about DLQConsole: the row locks and the conditions of the UPDATE *)
(* make replays reopen what is dead-lettered once, all or nothing, of the  *)
(* tenant that asked, and never without a record that carries it on.       *)
(***************************************************************************)
EXTENDS DLQConsole, SequenceTheorems, FiniteSetTheorems, WellFoundedInduction, TLAPS

(***************************************************************************)
(* Pages, batches and numbers                                              *)
(***************************************************************************)

LEMMA ConstantFacts ==
    /\ MaxEvent \in Nat /\ HomeTenant \in Tenants
    /\ TenantOf \in [Events -> Tenants]
    /\ Dashboards \cap Programs = {}
    /\ \A b \in Batches : b \in Seq(Events)
    /\ PageSize \in Nat /\ PageSize >= 1 /\ MaxBatch \in Nat /\ PageSize <= MaxBatch
BY ConstantsAssumption

\* Every set of numbers has a least element.
LEMMA LeastNumber ==
    ASSUME NEW T \in SUBSET Nat, T # {}
    PROVE  \E x \in T : \A y \in T : x <= y
<1> DEFINE R == {ss \in Nat \X Nat : ss[1] < ss[2]}
<1>1. R = OpToRel(<, Nat)
    BY Zenon DEF OpToRel
<1>2. IsWellFoundedOn(R, Nat)
    BY <1>1, NatLessThanWellFounded
<1>3. PICK x \in T : \A y \in T : ~(<<y, x>> \in R)
    <2> HIDE DEF R
    <2> QED BY <1>2, WFMin, Zenon
<1>4. ASSUME NEW y \in T PROVE x <= y
    <2>1. ~(y < x)
        BY <1>3
    <2> QED BY <2>1
<1> QED BY <1>4

LEMMA EventSets ==
    ASSUME NEW S \in SUBSET Events
    PROVE  IsFiniteSet(S) /\ Cardinality(S) \in Nat
<1>1. IsFiniteSet(Events)
    BY ConstantFacts, FS_Interval DEF Events
<1>2. IsFiniteSet(S)
    BY <1>1, FS_Subset
<1> QED BY <1>2, FS_CardinalityType

\* A page has PageSize rows at most: all but its oldest are newer than that one.
LEMMA PageFacts ==
    ASSUME NEW t
    PROVE  /\ GetDLQEvents(t) \in SUBSET Events
           /\ Cardinality(GetDLQEvents(t)) \in Nat
           /\ Cardinality(GetDLQEvents(t)) <= MaxBatch
<1> DEFINE D == {e \in Events : status[e] = "DLQ" /\ TenantOf[e] = t}
           T == {e \in D : Cardinality({f \in D : f > e}) < PageSize}
<1>1. T = GetDLQEvents(t)
    BY DEF GetDLQEvents
<1>2. D \in SUBSET Events /\ T \in SUBSET D /\ T \in SUBSET Events /\ Events \in SUBSET Nat
    BY ConstantFacts DEF Events
<1>3. Cardinality(T) \in Nat
    BY <1>2, EventSets
<1>4. Cardinality(T) <= PageSize
    <2>1. CASE T = {}
        <3>1. IsFiniteSet(T)
            BY <1>2, EventSets
        <3> HIDE DEF T
        <3>2. Cardinality(T) = 0
            BY <2>1, <3>1, FS_EmptySet
        <3> QED BY <3>2, ConstantFacts
    <2>2. CASE T # {}
        <3>1. PICK o \in T : \A y \in T : o <= y
            <4>1. T \in SUBSET Nat
                BY <1>2
            <4> HIDE DEF T
            <4> QED BY <2>2, <4>1, LeastNumber
        <3> DEFINE Newer == {f \in D : f > o}
        <3>2. Cardinality(Newer) < PageSize
            BY <3>1
        <3>3. T \ {o} \subseteq Newer
            <4> SUFFICES ASSUME NEW y \in T, y # o PROVE y \in D /\ y > o
                OBVIOUS
            <4>1. o <= y /\ y \in Nat /\ o \in Nat
                BY <1>2, <3>1
            <4> QED BY <4>1
        <3>4. Newer \in SUBSET Events
            OBVIOUS
        <3> HIDE DEF T, Newer
        <3>5. IsFiniteSet(T) /\ IsFiniteSet(Newer) /\ Cardinality(Newer) \in Nat
            BY <1>2, <3>4, EventSets
        <3>6. /\ Cardinality(T \ {o}) <= Cardinality(Newer)
              /\ Cardinality(T \ {o}) = Cardinality(T) - 1
            BY <3>1, <3>3, <3>5, FS_Subset, FS_RemoveElement
        <3> QED BY <1>3, <3>2, <3>5, <3>6, ConstantFacts
    <2> QED BY <2>1, <2>2
<1> HIDE DEF T, D
<1> QED BY <1>1, <1>2, <1>3, <1>4, ConstantFacts

LEMMA OrdersFacts ==
    ASSUME NEW S \in SUBSET Events, NEW s \in Orders(S)
    PROVE  s \in Seq(Events)
<1>1. Cardinality(S) \in Nat
    BY EventSets
<1>2. s \in [1 .. Cardinality(S) -> Events]
    BY DEF Orders
<1> QED BY <1>1, <1>2, IsASeq

(***************************************************************************)
(* Calls                                                                   *)
(***************************************************************************)

Call == [by : Dashboards \cup Programs, tenant : Tenants, ids : Seq(Events)]
Stages == {"sent", "tx", "ended"}
Answers == {"none", "OK", "BadRequest", "Error", "CommitError", "Lost"}

CallsOK ==
    /\ calls \in Seq(Call)
    /\ pc \in Seq(Stages) /\ Len(pc) = Len(calls)
    /\ next \in Seq(Nat) /\ Len(next) = Len(calls)
    /\ touched \in Seq(SUBSET Events) /\ Len(touched) = Len(calls)
    /\ granted \in Seq(SUBSET Events) /\ Len(granted) = Len(calls)
    /\ answer \in Seq(Answers) /\ Len(answer) = Len(calls)
    /\ \A k \in 1 .. Len(calls) : next[k] \in 1 .. Len(calls[k].ids) + 1

\* The step leaves call j alone.
SameCall(j) ==
    /\ calls'[j] = calls[j] /\ pc'[j] = pc[j] /\ next'[j] = next[j]
    /\ touched'[j] = touched[j] /\ granted'[j] = granted[j] /\ answer'[j] = answer[j]

LEMMA CallFacts ==
    ASSUME CallsOK
    PROVE  /\ Len(calls) \in Nat
           /\ DOMAIN calls = 1 .. Len(calls) /\ DOMAIN pc = 1 .. Len(calls)
           /\ DOMAIN touched = 1 .. Len(calls)
           /\ \A k \in 1 .. Len(calls) :
                /\ calls[k] \in Call /\ Len(calls[k].ids) \in Nat
                /\ pc[k] \in Stages /\ next[k] \in 1 .. Len(calls[k].ids) + 1
                /\ touched[k] \in SUBSET Events /\ granted[k] \in SUBSET Events
                /\ answer[k] \in Answers
<1>1. Len(calls) \in Nat /\ \A k \in 1 .. Len(calls) : calls[k] \in Call
    BY LenProperties, ElementOfSeq DEF CallsOK
<1>2. \A k \in 1 .. Len(calls) : Len(calls[k].ids) \in Nat
    BY <1>1, LenProperties DEF Call
<1> QED BY <1>1, <1>2, LenProperties, ElementOfSeq DEF CallsOK

LEMMA SendFacts ==
    ASSUME CallsOK, NEW by \in Dashboards \cup Programs, NEW t \in Tenants,
           NEW ids \in Seq(Events), Send(by, t, ids)
    PROVE  /\ CallsOK'
           /\ Len(calls') = Len(calls) + 1
           /\ \A j \in 1 .. Len(calls) : SameCall(j)
           /\ calls'[Len(calls) + 1] = [by |-> by, tenant |-> t, ids |-> ids]
           /\ pc'[Len(calls) + 1] = "sent" /\ answer'[Len(calls) + 1] = "none"
           /\ touched'[Len(calls) + 1] = {} /\ granted'[Len(calls) + 1] = {}
<1> DEFINE c == [by |-> by, tenant |-> t, ids |-> ids]
<1>0. c \in Call /\ c.ids = ids /\ Len(ids) \in Nat
    BY LenProperties DEF Call
<1>1. /\ calls' = Append(calls, c) /\ pc' = Append(pc, "sent") /\ next' = Append(next, 1)
      /\ touched' = Append(touched, {}) /\ granted' = Append(granted, {})
      /\ answer' = Append(answer, "none")
    BY DEF Send
<1>2. /\ "sent" \in Stages /\ "none" \in Answers /\ {} \in SUBSET Events /\ 1 \in Nat
    BY DEF Stages, Answers
<1>3. Len(calls) \in Nat
    BY CallFacts
<1> HIDE DEF c
<1>4. /\ calls' \in Seq(Call) /\ Len(calls') = Len(calls) + 1 /\ calls'[Len(calls) + 1] = c
      /\ \A j \in 1 .. Len(calls) : calls'[j] = calls[j]
    BY <1>0, <1>1, AppendProperties DEF CallsOK
<1>5. /\ pc' \in Seq(Stages) /\ Len(pc') = Len(calls) + 1 /\ pc'[Len(calls) + 1] = "sent"
      /\ \A j \in 1 .. Len(calls) : pc'[j] = pc[j]
    BY <1>1, <1>2, AppendProperties DEF CallsOK
<1>6. /\ next' \in Seq(Nat) /\ Len(next') = Len(calls) + 1 /\ next'[Len(calls) + 1] = 1
      /\ \A j \in 1 .. Len(calls) : next'[j] = next[j]
    BY <1>1, <1>2, AppendProperties DEF CallsOK
<1>7. /\ touched' \in Seq(SUBSET Events) /\ Len(touched') = Len(calls) + 1
      /\ touched'[Len(calls) + 1] = {}
      /\ \A j \in 1 .. Len(calls) : touched'[j] = touched[j]
    BY <1>1, <1>2, AppendProperties DEF CallsOK
<1>8. /\ granted' \in Seq(SUBSET Events) /\ Len(granted') = Len(calls) + 1
      /\ granted'[Len(calls) + 1] = {}
      /\ \A j \in 1 .. Len(calls) : granted'[j] = granted[j]
    BY <1>1, <1>2, AppendProperties DEF CallsOK
<1>9. /\ answer' \in Seq(Answers) /\ Len(answer') = Len(calls) + 1
      /\ answer'[Len(calls) + 1] = "none"
      /\ \A j \in 1 .. Len(calls) : answer'[j] = answer[j]
    BY <1>1, <1>2, AppendProperties DEF CallsOK
<1>10. \A j \in 1 .. Len(calls) : SameCall(j)
    BY <1>4, <1>5, <1>6, <1>7, <1>8, <1>9 DEF SameCall
<1>11. ASSUME NEW j \in 1 .. Len(calls) + 1 PROVE next'[j] \in 1 .. Len(calls'[j].ids) + 1
    <2>1. CASE j \in 1 .. Len(calls)
        BY <1>4, <1>6, <2>1 DEF CallsOK
    <2>2. CASE j = Len(calls) + 1
        BY <1>0, <1>4, <1>6, <2>2
    <2> QED BY <1>3, <2>1, <2>2
<1>12. CallsOK'
    BY <1>4, <1>5, <1>6, <1>7, <1>8, <1>9, <1>11 DEF CallsOK
<1> QED BY <1>4, <1>5, <1>7, <1>8, <1>9, <1>10, <1>12 DEF c

\* What Ended, on its own, does to the sequences of the calls.
LEMMA EndedFacts ==
    ASSUME CallsOK, NEW k \in 1 .. Len(calls), NEW what \in Answers, Ended(k, what),
           NEW G \in SUBSET Events, granted' = [granted EXCEPT ![k] = G]
    PROVE  /\ CallsOK'
           /\ Len(calls') = Len(calls)
           /\ \A j \in 1 .. Len(calls) : j # k => SameCall(j)
           /\ calls'[k].by = calls[k].by /\ calls'[k].tenant = calls[k].tenant
           /\ pc'[k] = "ended" /\ answer'[k] = what
           /\ touched'[k] = {} /\ granted'[k] = G
<1> DEFINE c == [by |-> calls[k].by, tenant |-> calls[k].tenant, ids |-> << >>]
<1>0. calls[k] \in Call /\ Len(calls) \in Nat
    BY CallFacts
<1>1. c \in Call /\ c.ids = << >> /\ Len(c.ids) = 0
    BY <1>0, EmptySeq DEF Call
<1>2. /\ calls' = [calls EXCEPT ![k] = c] /\ pc' = [pc EXCEPT ![k] = "ended"]
      /\ next' = [next EXCEPT ![k] = 1] /\ touched' = [touched EXCEPT ![k] = {}]
      /\ answer' = [answer EXCEPT ![k] = what]
    <2>1. [calls[k] EXCEPT !.ids = << >>] = c
        BY <1>0 DEF Call
    <2>2. calls' = [calls EXCEPT ![k] = [calls[k] EXCEPT !.ids = << >>]]
        BY DEF Ended
    <2> QED BY <2>1, <2>2 DEF Ended
<1>3. "ended" \in Stages /\ {} \in SUBSET Events /\ 1 \in Nat
    BY DEF Stages
<1> HIDE DEF c
<1>4. /\ calls' \in Seq(Call) /\ Len(calls') = Len(calls)
      /\ \A j \in 1 .. Len(calls) : calls'[j] = IF j = k THEN c ELSE calls[j]
    BY <1>1, <1>2, ExceptSeq DEF CallsOK
<1>5. /\ pc' \in Seq(Stages) /\ Len(pc') = Len(calls)
      /\ \A j \in 1 .. Len(calls) : pc'[j] = IF j = k THEN "ended" ELSE pc[j]
    BY <1>2, <1>3, ExceptSeq DEF CallsOK
<1>6. /\ next' \in Seq(Nat) /\ Len(next') = Len(calls)
      /\ \A j \in 1 .. Len(calls) : next'[j] = IF j = k THEN 1 ELSE next[j]
    BY <1>2, <1>3, ExceptSeq DEF CallsOK
<1>7. /\ touched' \in Seq(SUBSET Events) /\ Len(touched') = Len(calls)
      /\ \A j \in 1 .. Len(calls) : touched'[j] = IF j = k THEN {} ELSE touched[j]
    BY <1>2, <1>3, ExceptSeq DEF CallsOK
<1>8. /\ granted' \in Seq(SUBSET Events) /\ Len(granted') = Len(calls)
      /\ \A j \in 1 .. Len(calls) : granted'[j] = IF j = k THEN G ELSE granted[j]
    BY <1>2, ExceptSeq DEF CallsOK
<1>9. /\ answer' \in Seq(Answers) /\ Len(answer') = Len(calls)
      /\ \A j \in 1 .. Len(calls) : answer'[j] = IF j = k THEN what ELSE answer[j]
    BY <1>2, ExceptSeq DEF CallsOK
<1>10. \A j \in 1 .. Len(calls) : j # k => SameCall(j)
    BY <1>4, <1>5, <1>6, <1>7, <1>8, <1>9 DEF SameCall
<1>11. ASSUME NEW j \in 1 .. Len(calls) PROVE next'[j] \in 1 .. Len(calls'[j].ids) + 1
    <2>1. CASE j = k
        BY <1>1, <1>4, <1>6, <2>1
    <2>2. CASE j # k
        BY <1>4, <1>6, <2>2 DEF CallsOK
    <2> QED BY <2>1, <2>2
<1>12. CallsOK'
    BY <1>4, <1>5, <1>6, <1>7, <1>8, <1>9, <1>11 DEF CallsOK
<1> QED BY <1>4, <1>5, <1>7, <1>8, <1>9, <1>10, <1>12 DEF c

\* Another call may have been sent or ended; this one has its transaction open.
LEMMA BeginFacts ==
    ASSUME CallsOK, NEW k \in 1 .. Len(calls), pc' = [pc EXCEPT ![k] = "tx"],
           UNCHANGED <<calls, next, touched, granted, answer>>
    PROVE  CallsOK' /\ \A j \in 1 .. Len(calls) : pc'[j] = IF j = k THEN "tx" ELSE pc[j]
<1>1. "tx" \in Stages
    BY DEF Stages
<1>2. /\ pc' \in Seq(Stages) /\ Len(pc') = Len(calls)
      /\ \A j \in 1 .. Len(calls) : pc'[j] = IF j = k THEN "tx" ELSE pc[j]
    BY <1>1, ExceptSeq DEF CallsOK
<1> QED BY <1>2 DEF CallsOK

\* The row of the next UPDATE is an event.
LEMMA RowFacts ==
    ASSUME CallsOK, NEW k \in 1 .. Len(calls), InLoop(k)
    PROVE  Row(k) \in Events
<1>1. calls[k].ids \in Seq(Events) /\ next[k] \in 1 .. Len(calls[k].ids)
    BY CallFacts DEF Call, InLoop
<1> QED BY <1>1, ElementOfSeq DEF Row

LEMMA UpdateFacts ==
    ASSUME CallsOK, NEW k \in 1 .. Len(calls), UpdateRow(k)
    PROVE  /\ CallsOK'
           /\ UNCHANGED <<calls, pc, granted, answer>>
           /\ \A j \in 1 .. Len(calls) : j # k => touched'[j] = touched[j]
           /\ touched'[k] = touched[k]
              \/ (Matches(k) /\ touched'[k] = touched[k] \cup {Row(k)})
<1> DEFINE U == IF Matches(k) THEN touched[k] \cup {Row(k)} ELSE touched[k]
<1>1. InLoop(k) /\ Row(k) \in Events
    BY RowFacts DEF UpdateRow
<1>2. U \in SUBSET Events
    BY <1>1, CallFacts
<1>3. touched' = [touched EXCEPT ![k] = U] /\ next' = [next EXCEPT ![k] = next[k] + 1]
    BY DEF UpdateRow
<1>4. next[k] \in Nat /\ next[k] + 1 \in 1 .. Len(calls[k].ids) + 1
    BY <1>1, CallFacts DEF InLoop
<1>5. UNCHANGED <<calls, pc, granted, answer>>
    BY DEF UpdateRow
<1>6. U = touched[k] \/ (Matches(k) /\ U = touched[k] \cup {Row(k)})
    OBVIOUS
<1> HIDE DEF U
<1>7. /\ touched' \in Seq(SUBSET Events) /\ Len(touched') = Len(calls)
      /\ \A j \in 1 .. Len(calls) : touched'[j] = IF j = k THEN U ELSE touched[j]
    BY <1>2, <1>3, ExceptSeq DEF CallsOK
<1>8. /\ next' \in Seq(Nat) /\ Len(next') = Len(calls)
      /\ \A j \in 1 .. Len(calls) : next'[j] = IF j = k THEN next[k] + 1 ELSE next[j]
    <2>1. next[k] + 1 \in Nat
        BY <1>4
    <2> QED BY <1>3, <2>1, ExceptSeq DEF CallsOK
<1>9. \A j \in 1 .. Len(calls) : next'[j] \in 1 .. Len(calls[j].ids) + 1
    BY <1>4, <1>8 DEF CallsOK
<1>10. CallsOK'
    BY <1>5, <1>7, <1>8, <1>9 DEF CallsOK
<1> QED BY <1>5, <1>6, <1>7, <1>10

LEMMA CrashFacts ==
    ASSUME CallsOK, Crash
    PROVE  /\ CallsOK'
           /\ Len(calls') = Len(calls) /\ UNCHANGED granted
           /\ \A j \in 1 .. Len(calls) :
                /\ calls'[j].tenant = calls[j].tenant
                /\ pc'[j] = "ended" /\ touched'[j] = {}
                /\ answer'[j] = IF pc[j] = "ended" THEN answer[j] ELSE "Lost"
<1> DEFINE n == Len(calls)
           c(j) == [by |-> calls[j].by, tenant |-> calls[j].tenant, ids |-> << >>]
<1>1. n \in Nat /\ DOMAIN pc = 1 .. n /\ \A j \in 1 .. n : calls[j] \in Call
    BY CallFacts
<1>2. \A j \in 1 .. n : c(j) \in Call /\ [calls[j] EXCEPT !.ids = << >>] = c(j)
    BY <1>1, EmptySeq DEF Call
<1>3. /\ calls' = [j \in 1 .. n |-> c(j)]
      /\ pc' = [j \in 1 .. n |-> "ended"] /\ next' = [j \in 1 .. n |-> 1]
      /\ touched' = [j \in 1 .. n |-> {}] /\ UNCHANGED granted
      /\ answer' = [j \in 1 .. n |-> IF pc[j] = "ended" THEN answer[j] ELSE "Lost"]
    BY <1>1, <1>2 DEF Crash
<1>4. calls' \in Seq(Call) /\ Len(calls') = n /\ \A j \in 1 .. n : calls'[j] = c(j)
    <2> HIDE DEF c
    <2> QED BY <1>1, <1>2, <1>3, IsASeq, LenProperties
<1>5. pc' \in Seq(Stages) /\ Len(pc') = n
    BY <1>1, <1>3, IsASeq, LenProperties DEF Stages
<1>6. next' \in Seq(Nat) /\ Len(next') = n
    BY <1>1, <1>3, IsASeq, LenProperties
<1>7. touched' \in Seq(SUBSET Events) /\ Len(touched') = n
    BY <1>1, <1>3, IsASeq, LenProperties
<1>8. answer' \in Seq(Answers) /\ Len(answer') = n
    <2>1. \A j \in 1 .. n : (IF pc[j] = "ended" THEN answer[j] ELSE "Lost") \in Answers
        BY CallFacts DEF Answers
    <2> QED BY <1>1, <1>3, <2>1, IsASeq, LenProperties
<1>9. \A j \in 1 .. n : calls'[j].ids = << >> /\ calls'[j].tenant = calls[j].tenant
    <2>1. \A j \in 1 .. n : c(j).ids = << >> /\ c(j).tenant = calls[j].tenant
        OBVIOUS
    <2> HIDE DEF c
    <2> QED BY <1>4, <2>1
<1>10. \A j \in 1 .. n : next'[j] \in 1 .. Len(calls'[j].ids) + 1
    <2> SUFFICES ASSUME NEW j \in 1 .. n PROVE next'[j] \in 1 .. Len(calls'[j].ids) + 1
        OBVIOUS
    <2>1. Len(calls'[j].ids) = 0
        BY <1>9, EmptySeq
    <2>2. next'[j] = 1
        BY <1>3
    <2> QED BY <2>1, <2>2
<1>11. CallsOK'
    BY <1>3, <1>4, <1>5, <1>6, <1>7, <1>8, <1>10 DEF CallsOK
<1> QED BY <1>3, <1>4, <1>9, <1>11

(***************************************************************************)
(* Locks and grants                                                        *)
(***************************************************************************)

\* The rows a transaction has updated are, as committed, dead letters of its tenant, and
\* no two transactions have updated the same.
LockInv ==
    /\ \A k \in 1 .. Len(calls) : \A e \in touched[k] :
          status[e] = "DLQ" /\ TenantOf[e] = calls[k].tenant
    /\ \A j, k \in 1 .. Len(calls) : j # k => touched[j] \cap touched[k] = {}

\* A call that has not ended has reopened nothing.
GrantInv ==
    \A k \in 1 .. Len(calls) : pc[k] # "ended" => granted[k] = {} /\ answer[k] = "none"

\* AllOrNothing and TenantsApart, on the numbers of the calls.
HonestInv ==
    \A k \in 1 .. Len(calls) :
        /\ answer[k] \in {"BadRequest", "Error", "Lost"} => granted[k] = {}
        /\ \A e \in granted[k] : TenantOf[e] = calls[k].tenant

ReplayInv == LockInv /\ GrantInv /\ HonestInv

LEMMA SendReplay ==
    ASSUME CallsOK, ReplayInv, NEW by \in Dashboards \cup Programs, NEW t \in Tenants,
           NEW ids \in Seq(Events), Send(by, t, ids), UNCHANGED status
    PROVE  ReplayInv'
<1> DEFINE n == Len(calls)
<1>1. /\ n \in Nat /\ Len(calls') = n + 1
      /\ \A j \in 1 .. n : SameCall(j)
      /\ pc'[n + 1] = "sent" /\ answer'[n + 1] = "none"
      /\ touched'[n + 1] = {} /\ granted'[n + 1] = {}
    BY SendFacts, CallFacts
<1>2. \A j \in 1 .. n + 1 : j \in 1 .. n \/ j = n + 1
    BY <1>1
<1> HIDE DEF n
<1>3. LockInv'
    BY <1>1, <1>2 DEF LockInv, ReplayInv, SameCall, n
<1>4. GrantInv' /\ HonestInv'
    BY <1>1, <1>2 DEF GrantInv, HonestInv, ReplayInv, SameCall, n
<1> QED BY <1>3, <1>4 DEF ReplayInv

\* A call ends: with a commit, of what it has updated, or with nothing.
LEMMA EndedReplay ==
    ASSUME CallsOK, ReplayInv, NEW k \in 1 .. Len(calls), NEW what \in Answers \ {"none"},
           Ended(k, what), pc[k] # "ended",
           \/ UNCHANGED <<granted, status>>
           \/ what \in {"OK", "CommitError"} /\ Reopen(k, touched[k])
    PROVE  CallsOK' /\ ReplayInv'
<1>1. touched[k] \in SUBSET Events /\ granted[k] = {} /\ Len(calls) \in Nat
    BY CallFacts DEF ReplayInv, GrantInv
<1>2. PICK G \in SUBSET Events :
        /\ granted' = [granted EXCEPT ![k] = G]
        /\ G = {} \/ (what \in {"OK", "CommitError"} /\ G = touched[k])
        /\ \A e \in Events : e \notin touched[k] => status'[e] = status[e]
    <2>1. CASE UNCHANGED <<granted, status>>
        <3>1. granted = [granted EXCEPT ![k] = {}]
            BY <1>1, CallFacts DEF CallsOK
        <3> QED BY <2>1, <3>1
    <2>2. CASE what \in {"OK", "CommitError"} /\ Reopen(k, touched[k])
        <3>1. granted' = [granted EXCEPT ![k] = touched[k]]
            BY <1>1, <2>2 DEF Reopen
        <3>2. \A e \in Events : e \notin touched[k] => status'[e] = status[e]
            BY <2>2 DEF Reopen
        <3> QED BY <1>1, <2>2, <3>1, <3>2
    <2> QED BY <2>1, <2>2
<1>3. /\ CallsOK' /\ Len(calls') = Len(calls)
      /\ \A j \in 1 .. Len(calls) : j # k => SameCall(j)
      /\ calls'[k].tenant = calls[k].tenant
      /\ pc'[k] = "ended" /\ answer'[k] = what /\ touched'[k] = {} /\ granted'[k] = G
    BY <1>2, EndedFacts
<1>4. LockInv'
    <2>1. ASSUME NEW j \in 1 .. Len(calls), NEW e \in touched'[j]
          PROVE  status'[e] = "DLQ" /\ TenantOf[e] = calls'[j].tenant
        <3>1. j # k
            BY <1>3, <2>1
        <3>2. e \in touched[j] /\ calls'[j] = calls[j]
            BY <1>3, <2>1, <3>1 DEF SameCall
        <3>3. e \notin touched[k] /\ e \in Events
            BY <3>1, <3>2, CallFacts DEF ReplayInv, LockInv
        <3> QED BY <1>2, <3>2, <3>3 DEF ReplayInv, LockInv
    <2>2. \A i, j \in 1 .. Len(calls) : i # j => touched'[i] \cap touched'[j] = {}
        BY <1>3 DEF SameCall, ReplayInv, LockInv
    <2> QED BY <1>3, <2>1, <2>2 DEF LockInv
<1>5. GrantInv'
    BY <1>3 DEF SameCall, ReplayInv, GrantInv
<1>6. HonestInv'
    <2>1. \A e \in G : TenantOf[e] = calls[k].tenant
        BY <1>2 DEF ReplayInv, LockInv
    <2> QED BY <1>2, <1>3, <2>1 DEF SameCall, ReplayInv, HonestInv
<1> QED BY <1>3, <1>4, <1>5, <1>6 DEF ReplayInv

LEMMA BeginReplay ==
    ASSUME CallsOK, ReplayInv, NEW k \in 1 .. Len(calls), pc[k] = "sent",
           pc' = [pc EXCEPT ![k] = "tx"],
           UNCHANGED <<calls, next, touched, granted, answer, status>>
    PROVE  CallsOK' /\ ReplayInv'
<1>1. CallsOK' /\ \A j \in 1 .. Len(calls) : pc'[j] = IF j = k THEN "tx" ELSE pc[j]
    BY BeginFacts
<1>2. LockInv' /\ HonestInv'
    BY DEF ReplayInv, LockInv, HonestInv
<1>3. GrantInv'
    BY <1>1 DEF ReplayInv, GrantInv
<1> QED BY <1>1, <1>2, <1>3 DEF ReplayInv

\* A row that is updated was locked by nobody else.
LEMMA UpdateReplay ==
    ASSUME CallsOK, ReplayInv, NEW k \in 1 .. Len(calls), UpdateRow(k)
    PROVE  CallsOK' /\ ReplayInv'
<1>1. /\ CallsOK' /\ UNCHANGED <<calls, pc, granted, answer, status>>
      /\ \A j \in 1 .. Len(calls) : j # k => touched'[j] = touched[j]
      /\ touched'[k] = touched[k] \/ (Matches(k) /\ touched'[k] = touched[k] \cup {Row(k)})
    BY UpdateFacts DEF UpdateRow, database
<1>2. CASE touched'[k] = touched[k]
    <2>1. \A j \in 1 .. Len(calls) : touched'[j] = touched[j]
        BY <1>1, <1>2
    <2> QED BY <1>1, <2>1 DEF ReplayInv, LockInv, GrantInv, HonestInv
<1>3. CASE Matches(k) /\ touched'[k] = touched[k] \cup {Row(k)}
    <2>1. status[Row(k)] = "DLQ" /\ TenantOf[Row(k)] = calls[k].tenant
        BY <1>3 DEF Matches
    <2>2. \A h \in 1 .. Len(calls) : h # k => Row(k) \notin touched[h]
        BY <1>3, CallFacts DEF UpdateRow, WaitsFor, LockedBy
    <2>3. LockInv'
        BY <1>1, <1>3, <2>1, <2>2 DEF ReplayInv, LockInv
    <2> QED BY <1>1, <2>3 DEF ReplayInv, GrantInv, HonestInv
<1> QED BY <1>1, <1>2, <1>3

LEMMA CrashReplay ==
    ASSUME CallsOK, ReplayInv, Crash
    PROVE  CallsOK' /\ ReplayInv'
<1>1. UNCHANGED status
    BY DEF Crash, database
<1> QED BY <1>1, CrashFacts DEF ReplayInv, LockInv, GrantInv, HonestInv

\* A step that leaves the calls alone, and the rows they have locked.
LEMMA SameReplay ==
    ASSUME CallsOK, ReplayInv, UNCHANGED callVars,
           \A k \in 1 .. Len(calls) : \A e \in touched[k] : status'[e] = status[e]
    PROVE  CallsOK' /\ ReplayInv'
<1>1. UNCHANGED <<calls, pc, next, touched, granted, answer>>
    BY DEF callVars
<1>2. CallsOK'
    BY <1>1 DEF CallsOK
<1>3. LockInv'
    BY <1>1 DEF ReplayInv, LockInv
<1>4. GrantInv' /\ HonestInv'
    BY <1>1 DEF ReplayInv, GrantInv, HonestInv
<1> QED BY <1>2, <1>3, <1>4 DEF ReplayInv

(***************************************************************************)
(* The database                                                            *)
(***************************************************************************)

DataOK ==
    /\ status \in [Events -> {"PENDING", "DELIVERED", "DLQ"}]
    /\ reopened \in [Events -> Nat] /\ dead \in [Events -> Nat]
    /\ records \in SUBSET (Events \X Nat) /\ passes \in SUBSET (Events \X Nat)

DataInv == DataOK /\ ReopenedOnce /\ ReopenedIsCarried

\* What is reopened was a dead letter, and has a new record.
LEMMA ReopenData ==
    ASSUME DataInv, NEW k, NEW S \in SUBSET Events, Reopen(k, S), UNCHANGED passes,
           \A e \in S : status[e] = "DLQ"
    PROVE  DataInv'
<1> USE DEF DataInv, DataOK
<1>1. /\ status' = [e \in Events |-> IF e \in S THEN "PENDING" ELSE status[e]]
      /\ reopened' = [e \in Events |-> IF e \in S THEN reopened[e] + 1 ELSE reopened[e]]
      /\ records' = records \cup {<<e, reopened'[e]>> : e \in S}
      /\ UNCHANGED dead
    BY DEF Reopen
<1>2. \A e \in Events : reopened'[e] \in Nat
    BY <1>1
<1>3. DataOK'
    BY <1>1, <1>2
<1>4. ReopenedOnce'
    BY <1>1 DEF ReopenedOnce
<1>5. ReopenedIsCarried'
    <2> SUFFICES ASSUME NEW e \in Events, status'[e] = "PENDING"
                 PROVE  \E r \in records' : r[1] = e
        BY DEF ReopenedIsCarried
    <2>1. CASE e \in S
        <3>1. <<e, reopened'[e]>> \in records'
            BY <1>1, <2>1
        <3>2. <<e, reopened'[e]>>[1] = e
            OBVIOUS
        <3> QED BY <3>1, <3>2
    <2>2. CASE e \notin S
        BY <1>1, <2>2 DEF ReopenedIsCarried
    <2> QED BY <2>1, <2>2
<1> QED BY <1>3, <1>4, <1>5

LEMMA TakeData == ASSUME DataInv, NEW r \in records, Take(r) PROVE DataInv'
<1> USE DEF DataInv, DataOK
<1>1. r \in Events \X Nat /\ UNCHANGED <<status, reopened, dead>>
    BY DEF Take
<1>2. CASE status[r[1]] = "PENDING" /\ passes' = passes \cup {r} /\ UNCHANGED records
    BY <1>1, <1>2 DEF ReopenedOnce, ReopenedIsCarried
<1>3. CASE status[r[1]] # "PENDING" /\ records' = records \ {r} /\ UNCHANGED passes
    BY <1>1, <1>3 DEF ReopenedOnce, ReopenedIsCarried
<1> QED BY <1>2, <1>3 DEF Take

LEMMA FinishData == ASSUME DataInv, NEW r \in passes, Finish(r) PROVE DataInv'
<1> USE DEF DataInv, DataOK
<1>1. /\ r[1] \in Events /\ records' = records \ {r} /\ UNCHANGED reopened
      /\ passes' \in SUBSET (Events \X Nat)
    BY DEF Finish
<1>2. \/ status' = [status EXCEPT ![r[1]] = "DELIVERED"] /\ UNCHANGED dead
      \/ /\ status' = [status EXCEPT ![r[1]] = "DLQ"]
         /\ dead' = [dead EXCEPT ![r[1]] = IF status[r[1]] = "DLQ" THEN dead[r[1]]
                                           ELSE dead[r[1]] + 1]
    BY DEF Finish
<1>3. DataOK'
    BY <1>1, <1>2
<1>4. ReopenedOnce'
    BY <1>1, <1>2 DEF ReopenedOnce
<1>5. ReopenedIsCarried'
    BY <1>1, <1>2 DEF ReopenedIsCarried
<1> QED BY <1>3, <1>4, <1>5

LEMMA SameData ==
    ASSUME DataInv, UNCHANGED database, passes' \in {passes, {}}
    PROVE  DataInv'
BY DEF DataInv, DataOK, ReopenedOnce, ReopenedIsCarried, database

(***************************************************************************)
(* The dashboards                                                          *)
(***************************************************************************)

\* A request for a list, and what it has been answered: a page at most.
ListOK(l) ==
    /\ l = [n |-> l.n, by |-> l.by, tenant |-> l.tenant, after |-> l.after,
            state |-> l.state, rows |-> l.rows]
    /\ l.by \in Dashboards /\ l.tenant \in Tenants /\ l.after \in BOOLEAN
    /\ l.rows \in SUBSET Events /\ Cardinality(l.rows) <= MaxBatch

ViewOK ==
    /\ tenant \in [Dashboards -> Tenants]
    /\ shown \in [Dashboards -> SUBSET Events]
    /\ selected \in [Dashboards -> SUBSET Events]
    /\ \A d \in Dashboards : selected[d] \subseteq shown[d] /\ Cardinality(shown[d]) <= MaxBatch
    /\ loading \in [Dashboards -> BOOLEAN] /\ replaying \in [Dashboards -> BOOLEAN]
    /\ asked \in Nat
    /\ \A l \in lists : ListOK(l)

LEMMA FetchView ==
    ASSUME ViewOK, NEW d \in Dashboards, NEW t \in Tenants, NEW after \in BOOLEAN,
           FetchDLQ(d, t, after), UNCHANGED <<shown, selected, replaying>>,
           tenant' \in [Dashboards -> Tenants]
    PROVE  ViewOK'
<1>1. PICK l : l = [n |-> Ticket, by |-> d, tenant |-> t, after |-> after,
                    state |-> "asked", rows |-> {}]
    OBVIOUS
<1>2. lists' = lists \cup {l} /\ asked' = asked + 1 /\ loading' = [loading EXCEPT ![d] = TRUE]
    BY <1>1 DEF FetchDLQ
<1>3. /\ l.n = Ticket /\ l.by = d /\ l.tenant = t /\ l.after = after /\ l.state = "asked"
      /\ l.rows = {}
    BY <1>1
<1>4. Cardinality({}) = 0
    BY FS_EmptySet
<1>5. ListOK(l)
    <2>1. l = [n |-> l.n, by |-> l.by, tenant |-> l.tenant, after |-> l.after,
               state |-> l.state, rows |-> l.rows]
        BY <1>1, <1>3
    <2> QED BY <1>3, <1>4, <2>1, ConstantFacts DEF ListOK
<1> HIDE DEF ListOK
<1> QED BY <1>2, <1>5 DEF ViewOK

LEMMA EndedView ==
    ASSUME CallsOK, ViewOK, NEW k \in 1 .. Len(calls), NEW what, Ended(k, what)
    PROVE  ViewOK'
<1>1. calls[k].by \in Dashboards \cup Programs /\ calls[k].tenant \in Tenants
    BY CallFacts DEF Call
<1>2. CASE UNCHANGED viewVars
    BY <1>2 DEF ViewOK, viewVars
<1>3. CASE /\ calls[k].by \in Dashboards /\ FetchDLQ(calls[k].by, calls[k].tenant, TRUE)
           /\ UNCHANGED <<tenant, shown, selected, replaying>>
    BY <1>1, <1>3, FetchView DEF ViewOK
<1>4. CASE /\ calls[k].by \in Dashboards
           /\ replaying' = [replaying EXCEPT ![calls[k].by] = FALSE]
           /\ UNCHANGED <<tenant, shown, selected, loading, lists, asked>>
    BY <1>4 DEF ViewOK
<1> QED BY <1>2, <1>3, <1>4 DEF Ended

LEMMA ListView == ASSUME ViewOK, NEW l \in lists, ListStep(l) PROVE ViewOK'
<1>1. ListOK(l)
    BY DEF ViewOK
<1>2. CASE HandleListDLQ(l)
    <2>1. PICK rows : rows = GetDLQEvents(l.tenant)
        OBVIOUS
    <2>2. rows \in SUBSET Events /\ Cardinality(rows) <= MaxBatch
        BY <2>1, PageFacts
    <2>3. PICK m : m = [n |-> l.n, by |-> l.by, tenant |-> l.tenant, after |-> l.after,
                        state |-> "answered", rows |-> rows]
        OBVIOUS
    <2>4. m = [l EXCEPT !.state = "answered", !.rows = rows]
        <3>1. PICK a, b, t, f, s, q :
                /\ l = [n |-> a, by |-> b, tenant |-> t, after |-> f, state |-> s, rows |-> q]
                /\ a = l.n /\ b = l.by /\ t = l.tenant /\ f = l.after
            BY <1>1 DEF ListOK
        <3>2. PICK u : u = [n |-> a, by |-> b, tenant |-> t, after |-> f,
                            state |-> "answered", rows |-> q]
            OBVIOUS
        <3>3. [l EXCEPT !.state = "answered"] = u
            BY <3>1, <3>2
        <3>4. [u EXCEPT !.rows = rows] = m
            BY <2>3, <3>1, <3>2
        <3>5. [l EXCEPT !.state = "answered", !.rows = rows]
                = [[l EXCEPT !.state = "answered"] EXCEPT !.rows = rows]
            OBVIOUS
        <3> QED BY <3>3, <3>4, <3>5
    <2>5. /\ m.n = l.n /\ m.by = l.by /\ m.tenant = l.tenant /\ m.after = l.after
          /\ m.state = "answered" /\ m.rows = rows
        BY <2>3
    <2>6. ListOK(m)
        <3>1. m = [n |-> m.n, by |-> m.by, tenant |-> m.tenant, after |-> m.after,
                   state |-> m.state, rows |-> m.rows]
            BY <2>3, <2>5
        <3> QED BY <1>1, <2>2, <2>5, <3>1 DEF ListOK
    <2>7. /\ lists' = (lists \ {l}) \cup {m}
          /\ UNCHANGED <<tenant, shown, selected, loading, replaying, asked>>
        BY <1>2, <2>1, <2>4 DEF HandleListDLQ
    <2> HIDE DEF ListOK
    <2> QED BY <2>6, <2>7 DEF ViewOK
<1>3. CASE TakeList(l)
    <2>1. /\ lists' = lists \ {l} /\ shown' = [shown EXCEPT ![l.by] = l.rows]
          /\ selected' = [selected EXCEPT ![l.by] = selected[l.by] \cap l.rows]
          /\ loading' = [loading EXCEPT ![l.by] = FALSE]
          /\ replaying' = [replaying EXCEPT ![l.by] = replaying[l.by] /\ ~l.after]
          /\ UNCHANGED <<tenant, asked>>
        BY <1>3 DEF TakeList
    <2>2. /\ l.by \in Dashboards /\ l.rows \in SUBSET Events
          /\ Cardinality(l.rows) <= MaxBatch
        BY <1>1 DEF ListOK
    <2>3. replaying' \in [Dashboards -> BOOLEAN] /\ loading' \in [Dashboards -> BOOLEAN]
        <3>1. PICK b \in BOOLEAN : replaying' = [replaying EXCEPT ![l.by] = b]
            BY <2>1
        <3> QED BY <2>1, <3>1 DEF ViewOK
    <2>4. /\ shown' \in [Dashboards -> SUBSET Events]
          /\ selected' \in [Dashboards -> SUBSET Events]
          /\ \A d \in Dashboards :
                selected'[d] \subseteq shown'[d] /\ Cardinality(shown'[d]) <= MaxBatch
        BY <2>1, <2>2 DEF ViewOK
    <2> HIDE DEF ListOK
    <2> QED BY <2>1, <2>3, <2>4 DEF ViewOK
<1>4. CASE ListFails(l)
    <2>1. /\ lists' = lists \ {l}
          /\ loading' = [loading EXCEPT ![l.by] = FALSE]
          /\ replaying' = [replaying EXCEPT ![l.by] = replaying[l.by] /\ ~l.after]
          /\ UNCHANGED <<tenant, shown, selected, asked>>
        BY <1>4 DEF ListFails
    <2>2. replaying' \in [Dashboards -> BOOLEAN] /\ loading' \in [Dashboards -> BOOLEAN]
        <3>1. PICK b \in BOOLEAN : replaying' = [replaying EXCEPT ![l.by] = b]
            BY <2>1
        <3> QED BY <2>1, <3>1 DEF ViewOK
    <2> HIDE DEF ListOK
    <2> QED BY <2>1, <2>2 DEF ViewOK
<1> QED BY <1>2, <1>3, <1>4 DEF ListStep

LEMMA SelectView == ASSUME ViewOK, NEW d \in Dashboards, Select(d) PROVE ViewOK'
<1>1. PICK e \in shown[d] :
        selected' \in {[selected EXCEPT ![d] = (@ \cup {e}) \ (@ \cap {e})],
                       [selected EXCEPT ![d] = shown[d]],
                       [selected EXCEPT ![d] = {}]}
    BY DEF Select
<1>2. UNCHANGED <<tenant, shown, loading, replaying, lists, asked>>
    BY DEF Select
<1>3. PICK S \in SUBSET shown[d] : selected' = [selected EXCEPT ![d] = S]
    <2>1. (selected[d] \cup {e}) \ (selected[d] \cap {e}) \in SUBSET shown[d]
        BY DEF ViewOK
    <2> QED BY <1>1, <2>1
<1>4. /\ selected' \in [Dashboards -> SUBSET Events]
      /\ \A c \in Dashboards : selected'[c] \subseteq shown[c]
    BY <1>3 DEF ViewOK
<1> QED BY <1>2, <1>4 DEF ViewOK

(***************************************************************************)
(* All steps                                                               *)
(***************************************************************************)

ConsoleInv == CallsOK /\ ReplayInv /\ DataInv /\ ViewOK /\ faults \in Nat

LEMMA InitConsole == ASSUME Init PROVE ConsoleInv
<1>1. CallsOK /\ Len(calls) = 0
    BY EmptySeq DEF Init, CallsOK
<1>2. ReplayInv
    BY <1>1 DEF ReplayInv, LockInv, GrantInv, HonestInv
<1>3. DataInv
    BY DEF Init, DataInv, DataOK, ReopenedOnce, ReopenedIsCarried
<1>4. ViewOK
    <2>1. \A t : GetDLQEvents(t) \in SUBSET Events /\ Cardinality(GetDLQEvents(t)) <= MaxBatch
        BY PageFacts
    <2>2. shown = [d \in Dashboards |-> GetDLQEvents(tenant[d])]
        BY DEF Init
    <2>3. /\ shown \in [Dashboards -> SUBSET Events]
          /\ \A d \in Dashboards : Cardinality(shown[d]) <= MaxBatch
        BY <2>1, <2>2
    <2> QED BY <2>3, ConstantFacts DEF Init, ViewOK
<1> QED BY <1>1, <1>2, <1>3, <1>4 DEF Init, ConsoleInv

LEMMA HandlerInv ==
    ASSUME ConsoleInv, NEW k \in DOMAIN calls, HandlerStep(k)
    PROVE  ConsoleInv'
<1>0. CallsOK /\ ReplayInv /\ DataInv /\ ViewOK /\ faults \in Nat
    BY DEF ConsoleInv
<1>1. /\ k \in 1 .. Len(calls) /\ touched[k] \in SUBSET Events
      /\ \A e \in touched[k] : status[e] = "DLQ"
    BY <1>0, CallFacts DEF ReplayInv, LockInv
<1>2. ASSUME NEW what \in {"BadRequest", "Error", "CommitError"}, Ended(k, what), pc[k] # "ended",
             UNCHANGED <<database, granted, passes>>, faults' \in Nat
      PROVE  ConsoleInv'
    <2>1. what \in Answers \ {"none"} /\ UNCHANGED <<granted, status>>
        BY <1>2 DEF Answers, database
    <2>2. CallsOK' /\ ReplayInv'
        BY <1>0, <1>1, <1>2, <2>1, EndedReplay
    <2>3. ViewOK'
        BY <1>0, <1>1, <1>2, EndedView
    <2>4. DataInv'
        BY <1>0, <1>2, SameData
    <2> QED BY <1>2, <2>2, <2>3, <2>4 DEF ConsoleInv
<1>3. ASSUME NEW what \in {"OK", "CommitError"}, Ended(k, what), pc[k] # "ended",
             Reopen(k, touched[k]), UNCHANGED passes, faults' \in Nat
      PROVE  ConsoleInv'
    <2>1. what \in Answers \ {"none"}
        BY DEF Answers
    <2>2. CallsOK' /\ ReplayInv'
        BY <1>0, <1>1, <1>3, <2>1, EndedReplay
    <2>3. ViewOK'
        BY <1>0, <1>1, <1>3, EndedView
    <2>4. DataInv'
        BY <1>0, <1>1, <1>3, ReopenData
    <2> QED BY <1>3, <2>2, <2>3, <2>4 DEF ConsoleInv
<1>4. CASE HandleReplayDLQ(k)
    <2>1. pc[k] = "sent" /\ UNCHANGED <<database, passes, faults>>
        BY <1>4 DEF HandleReplayDLQ
    <2>2. CASE Ended(k, "BadRequest") /\ UNCHANGED granted
        BY <1>0, <1>2, <2>1, <2>2
    <2>3. CASE /\ pc' = [pc EXCEPT ![k] = "tx"]
               /\ UNCHANGED <<calls, next, touched, granted, answer, viewVars>>
        <3>1. CallsOK' /\ ReplayInv'
            BY <1>0, <1>1, <2>1, <2>3, BeginReplay DEF database
        <3>2. ViewOK'
            BY <1>0, <2>3 DEF ViewOK, viewVars
        <3>3. DataInv'
            BY <1>0, <2>1, SameData
        <3> QED BY <1>0, <2>1, <3>1, <3>2, <3>3 DEF ConsoleInv
    <2> QED BY <1>4, <2>2, <2>3 DEF HandleReplayDLQ
<1>5. CASE UpdateRow(k)
    <2>1. UNCHANGED <<database, viewVars, passes, faults>>
        BY <1>5 DEF UpdateRow
    <2>2. CallsOK' /\ ReplayInv'
        BY <1>0, <1>1, <1>5, UpdateReplay
    <2>3. ViewOK'
        BY <1>0, <2>1 DEF ViewOK, viewVars
    <2>4. DataInv'
        BY <1>0, <2>1, SameData
    <2> QED BY <1>0, <2>1, <2>2, <2>3, <2>4 DEF ConsoleInv
<1>6. CASE Commit(k)
    BY <1>0, <1>3, <1>6 DEF Commit
<1>7. CASE CommitFails(k)
    <2>1. /\ pc[k] # "ended" /\ faults' \in Nat /\ Ended(k, "CommitError") /\ UNCHANGED passes
          /\ Reopen(k, touched[k]) \/ UNCHANGED <<database, granted>>
        BY <1>0, <1>7 DEF CommitFails, Fault
    <2> QED BY <1>2, <1>3, <2>1
<1>8. CASE StatementFails(k)
    BY <1>0, <1>2, <1>8 DEF StatementFails, InLoop, Fault
<1>9. CASE BreakDeadlock(k)
    <2>1. pc[k] # "ended"
        BY <1>9 DEF BreakDeadlock, Deadlocked, WaitsFor, InLoop
    <2> QED BY <1>0, <1>2, <1>9, <2>1 DEF BreakDeadlock
<1> QED BY <1>4, <1>5, <1>6, <1>7, <1>8, <1>9 DEF HandlerStep

LEMMA SendInv ==
    ASSUME ConsoleInv, NEW by \in Dashboards \cup Programs, NEW t \in Tenants,
           NEW ids \in Seq(Events), Send(by, t, ids), ViewOK',
           UNCHANGED <<database, passes, faults>>
    PROVE  ConsoleInv'
<1>1. CallsOK' /\ ReplayInv'
    BY SendFacts, SendReplay DEF ConsoleInv, database
<1>2. DataInv'
    BY SameData DEF ConsoleInv
<1> QED BY <1>1, <1>2 DEF ConsoleInv

LEMMA DashboardInv ==
    ASSUME ConsoleInv, NEW d \in Dashboards, DashboardStep(d)
    PROVE  ConsoleInv'
<1>0. CallsOK /\ ReplayInv /\ DataInv /\ ViewOK /\ faults \in Nat
    BY DEF ConsoleInv
<1>1. ASSUME UNCHANGED <<database, callVars, passes, faults>>, ViewOK' PROVE ConsoleInv'
    <2>1. CallsOK' /\ ReplayInv'
        BY <1>0, <1>1, SameReplay DEF database
    <2>2. DataInv'
        BY <1>0, <1>1, SameData
    <2> QED BY <1>0, <1>1, <2>1, <2>2 DEF ConsoleInv
<1>2. tenant[d] \in Tenants /\ shown[d] \in SUBSET Events /\ selected[d] \in SUBSET Events
    BY <1>0 DEF ViewOK
<1>3. CASE Refresh(d)
    <2>1. ViewOK'
        BY <1>0, <1>2, <1>3, FetchView DEF Refresh, ViewOK
    <2> QED BY <1>1, <1>3, <2>1 DEF Refresh
<1>4. ASSUME NEW t \in Tenants, SwitchTenant(d, t) PROVE ConsoleInv'
    <2>1. tenant' \in [Dashboards -> Tenants]
        BY <1>0, <1>4 DEF SwitchTenant, ViewOK
    <2>2. ViewOK'
        BY <1>0, <1>4, <2>1, FetchView DEF SwitchTenant
    <2> QED BY <1>1, <1>4, <2>2 DEF SwitchTenant
<1>5. CASE Select(d)
    <2>1. ViewOK'
        BY <1>0, <1>5, SelectView
    <2> QED BY <1>1, <1>5, <2>1 DEF Select
<1>6. CASE ReplayEvents(d)
    <2>1. ViewOK'
        BY <1>0, <1>6 DEF ReplayEvents, ViewOK
    <2>2. UNCHANGED <<database, passes, faults>>
        BY <1>6 DEF ReplayEvents
    <2>3. PICK ids \in Seq(Events) : Send(d, tenant[d], ids)
        <3>1. ASSUME NEW e \in shown[d], Send(d, tenant[d], <<e>>)
              PROVE  \E ids \in Seq(Events) : Send(d, tenant[d], ids)
            <4>1. <<e>> \in Seq(Events)
                BY <1>2
            <4> QED BY <3>1, <4>1
        <3>2. ASSUME NEW S \in SUBSET Events, NEW s \in Orders(S), Send(d, tenant[d], s)
              PROVE  \E ids \in Seq(Events) : Send(d, tenant[d], ids)
            BY <3>2, OrdersFacts
        <3> QED BY <1>2, <1>6, <3>1, <3>2 DEF ReplayEvents
    <2>4. d \in Dashboards \cup Programs
        OBVIOUS
    <2> QED BY <1>2, <2>1, <2>2, <2>3, <2>4, SendInv
<1> QED BY <1>3, <1>4, <1>5, <1>6 DEF DashboardStep

LEMMA OtherInv ==
    ASSUME ConsoleInv, [Next]_vars,
           ~(\E k \in DOMAIN calls : HandlerStep(k)),
           ~(\E d \in Dashboards : DashboardStep(d))
    PROVE  ConsoleInv'
<1>0. CallsOK /\ ReplayInv /\ DataInv /\ ViewOK /\ faults \in Nat
    BY DEF ConsoleInv
<1>1. ASSUME NEW p \in Programs, NEW ids \in Batches, ReplayDLQ(p, ids) PROVE ConsoleInv'
    <2>1. ViewOK'
        BY <1>0, <1>1 DEF ReplayDLQ, ViewOK, viewVars
    <2>2. p \in Dashboards \cup Programs /\ HomeTenant \in Tenants /\ ids \in Seq(Events)
        BY ConstantFacts
    <2>3. Send(p, HomeTenant, ids) /\ UNCHANGED <<database, passes, faults>>
        BY <1>1 DEF ReplayDLQ
    <2> QED BY <2>1, <2>2, <2>3, SendInv
<1>2. ASSUME NEW l \in lists, ListStep(l) PROVE ConsoleInv'
    <2>1. UNCHANGED <<database, callVars, passes>> /\ faults' \in Nat
        BY <1>0, <1>2 DEF ListStep, HandleListDLQ, TakeList, ListFails, Fault
    <2>2. CallsOK' /\ ReplayInv'
        BY <1>0, <2>1, SameReplay DEF database
    <2>3. ViewOK'
        BY <1>0, <1>2, ListView
    <2>4. DataInv'
        BY <1>0, <2>1, SameData
    <2> QED BY <2>1, <2>2, <2>3, <2>4 DEF ConsoleInv
<1>3. ASSUME NEW r \in records, Take(r) PROVE ConsoleInv'
    <2>1. UNCHANGED <<status, callVars, viewVars, faults>>
        BY <1>3 DEF Take
    <2>2. CallsOK' /\ ReplayInv'
        BY <1>0, <2>1, SameReplay
    <2>3. ViewOK'
        BY <1>0, <2>1 DEF ViewOK, viewVars
    <2>4. DataInv'
        BY <1>0, <1>3, TakeData
    <2> QED BY <1>0, <2>1, <2>2, <2>3, <2>4 DEF ConsoleInv
<1>4. ASSUME NEW r \in passes, Finish(r) PROVE ConsoleInv'
    <2>1. UNCHANGED <<callVars, viewVars, faults>>
        BY <1>4 DEF Finish
    <2>2. ASSUME NEW k \in 1 .. Len(calls), NEW e \in touched[k] PROVE status'[e] = status[e]
        <3>1. e \in Events /\ e # r[1]
            BY <1>0, <1>4, <2>2, CallFacts DEF Finish, LockedBy
        <3> QED BY <1>0, <1>4, <3>1 DEF Finish, DataInv, DataOK
    <2>3. CallsOK' /\ ReplayInv'
        BY <1>0, <2>1, <2>2, SameReplay
    <2>4. ViewOK'
        BY <1>0, <2>1 DEF ViewOK, viewVars
    <2>5. DataInv'
        BY <1>0, <1>4, FinishData
    <2> QED BY <1>0, <2>1, <2>3, <2>4, <2>5 DEF ConsoleInv
<1>5. CASE Crash
    <2>1. /\ UNCHANGED database /\ passes' = {} /\ faults' \in Nat
          /\ UNCHANGED <<tenant, shown, selected, loading, lists, asked>>
        BY <1>0, <1>5 DEF Crash, Fault
    <2>2. replaying' \in [Dashboards -> BOOLEAN]
        BY <1>5 DEF Crash
    <2>3. ViewOK'
        BY <1>0, <2>1, <2>2 DEF ViewOK
    <2>4. CallsOK' /\ ReplayInv'
        BY <1>0, <1>5, CrashReplay
    <2>5. DataInv'
        BY <1>0, <2>1, SameData
    <2> QED BY <2>1, <2>3, <2>4, <2>5 DEF ConsoleInv
<1>6. CASE UNCHANGED vars
    <2>1. UNCHANGED <<database, callVars, viewVars, passes, faults>>
        BY <1>6 DEF vars
    <2>2. CallsOK' /\ ReplayInv'
        BY <1>0, <2>1, SameReplay DEF database
    <2>3. ViewOK'
        BY <1>0, <2>1 DEF ViewOK, viewVars
    <2>4. DataInv'
        BY <1>0, <2>1, SameData
    <2> QED BY <1>0, <2>1, <2>2, <2>3, <2>4 DEF ConsoleInv
<1> QED BY <1>1, <1>2, <1>3, <1>4, <1>5, <1>6 DEF Next, Quiet

LEMMA ConsoleInvariant == Spec => []ConsoleInv
<1>1. Init => ConsoleInv
    BY InitConsole
<1>2. ConsoleInv /\ [Next]_vars => ConsoleInv'
    BY HandlerInv, DashboardInv, OtherInv
<1> QED BY <1>1, <1>2, PTL DEF Spec

\* For any number of events, tenants, dashboards and programs: rows, calls and views are of
\* their kind, what useDLQ has selected is on the screen in whatever order lists arrive,
\* and "Replay all" never asks for more than HandleReplayDLQ accepts.
THEOREM ConsoleType == Spec => []TypeOK
<1>1. ConsoleInv => TypeOK
    <2> SUFFICES ASSUME ConsoleInv PROVE TypeOK
        OBVIOUS
    <2>1. \A k \in DOMAIN calls :
            /\ calls[k] \in [by : Dashboards \cup Programs, tenant : Tenants, ids : Seq(Events)]
            /\ pc[k] \in {"sent", "tx", "ended"}
            /\ next[k] \in 1 .. Len(calls[k].ids) + 1
            /\ touched[k] \subseteq Events /\ granted[k] \subseteq Events
            /\ answer[k] \in {"none", "OK", "BadRequest", "Error", "CommitError", "Lost"}
        BY CallFacts DEF ConsoleInv, Call, Stages, Answers
    <2>2. /\ status \in [Events -> {"PENDING", "DELIVERED", "DLQ"}]
          /\ records \subseteq Events \X Nat
          /\ reopened \in [Events -> Nat] /\ dead \in [Events -> Nat]
        BY DEF ConsoleInv, DataInv, DataOK
    <2> QED BY <2>1, <2>2 DEF ConsoleInv, ViewOK, TypeOK
<1> QED BY <1>1, ConsoleInvariant, PTL

\* The condition "status = DLQ" of the UPDATE, looked at again once the row lock is there,
\* is enough: however many replays, retries and workers meet, each dead-lettering of an
\* event is reopened once at most.
THEOREM ReplayIsIdempotent == Spec => []ReopenedOnce
BY ConsoleInvariant, PTL DEF ConsoleInv, DataInv

\* ReplayDLQEvents writes the new outbox record in the transaction that reopens the event,
\* so no event is PENDING without a record that brings it to a worker.
THEOREM ReplayIsCarried == Spec => []ReopenedIsCarried
BY ConsoleInvariant, PTL DEF ConsoleInv, DataInv

\* The deferred Rollback: a replay that failed at any statement, lost a deadlock or died
\* with the server has reopened none of its events.
THEOREM ReplayIsAtomic == Spec => []AllOrNothing
<1>1. ConsoleInv => AllOrNothing
    BY CallFacts DEF ConsoleInv, ReplayInv, HonestInv, AllOrNothing
<1> QED BY <1>1, ConsoleInvariant, PTL

\* The condition on the tenant: whatever list a dashboard still shows when the tenant is
\* switched, a replay reopens events of the tenant it was asked for only.
THEOREM ReplayIsTenantScoped == Spec => []TenantsApart
<1>1. ConsoleInv => TenantsApart
    BY CallFacts DEF ConsoleInv, ReplayInv, HonestInv, TenantsApart
<1> QED BY <1>1, ConsoleInvariant, PTL

=============================================================================
