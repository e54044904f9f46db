---------------------------- MODULE ZeroLossProofs ----------------------------
(***************************************************************************)
(* Zero data loss, for every number of events, endpoints, workers and      *)
(* relays, every retry budget and every bound on failures.                 *)
(*                                                                         *)
(* NoEventStranded is not inductive: a pending entry carries nothing once  *)
(* a consumer is about to acknowledge it, and a pending outbox record      *)
(* carries nothing once a relay is about to mark it.  Live leaves those    *)
(* out, and PendingIsLive is inductive together with FlowInv, which says   *)
(* that a consumer acknowledges only after its event was final, unless the *)
(* context is done and the acknowledgement fails.                          *)
(*                                                                         *)
(* The second half is about the relays and the stream: what is published,  *)
(* in which order and how often (PublishInv, BatchInv, PaidInv), and that  *)
(* the stream is a ConsumerGroup.                                          *)
(***************************************************************************)
EXTENDS WebhookEngineProofs, FiniteSetTheorems

USE DEF Final, Busy, Positions

Marking(r)  == \E y \in Relays : relayPc[y] = "mark" /\ relayRecord[y] = r
Settling(m) == \E c \in Consumers : settled[c] /\ cur[c] = m

Live(e) ==
    \/ \E r \in PendingRecords : outbox[r].event = e /\ ~Marking(r)
    \/ \E m \in Unread \cup pel : stream[m].event = e /\ ~Settling(m)

PendingIsLive == \A e \in Events : status[e] = "PENDING" => Live(e)

FlowInv ==
    /\ trimmed = 0
    /\ endpoints # {}
    /\ \A c \in Consumers :
        /\ pc[c] = "ack" => settled[c] \/ cancelled
        /\ pc[c] = "record" /\ verdict[c] = "RETRYING" => attemptNum[c] < MaxRetries
        /\ pc[c] \in {"idle", "next"} => ~settled[c]

LossInv == TypeInv /\ HandInv /\ FlowInv /\ PendingIsLive

LEMMA LiveIsCarried == ASSUME PendingIsLive PROVE NoEventStranded
  BY DEF PendingIsLive, Live, NoEventStranded, Carried

LEMMA NoLossyFault == ASSUME SafeDeployment, NEW kind \in LossyFaults, Fault(kind) PROVE FALSE
  BY DEF SafeDeployment, Fault

(***************************************************************************)
(* When live events stay live                                              *)
(***************************************************************************)

\* A step that takes nothing off the carriers and starts no marking or settling.
LEMMA LiveFrame ==
    ASSUME PendingIsLive,
           UNCHANGED <<status, outbox, streamVars>>,
           \A r \in 1 .. Len(outbox) : Marking(r)' => Marking(r),
           \A m \in Unread \cup pel : Settling(m)' => Settling(m)
    PROVE  PendingIsLive'
  BY DEF PendingIsLive, Live, Unread, streamVars, PendingRecords

\* A consumer sees or makes its event final: the message it holds carries that event
\* no more, and all others are carried as before.
LEMMA LiveSettle ==
    ASSUME TypeInv, PendingIsLive, NEW c \in Consumers,
           UNCHANGED <<outbox, streamVars, relayVars, cur>>,
           settled' = [settled EXCEPT ![c] = TRUE],
           status'[EventOf(c)] # "PENDING",
           \A e \in Events : e # EventOf(c) => status'[e] = status[e]
    PROVE  PendingIsLive'
  <1> SUFFICES ASSUME NEW e \in Events, status'[e] = "PENDING" PROVE Live(e)'
    BY DEF PendingIsLive
  <1>1. e # EventOf(c) /\ Live(e)  BY DEF PendingIsLive
  <1>2. \A r : Marking(r)' = Marking(r)  BY DEF Marking, relayVars
  <1>3. ASSUME NEW m \in Unread \cup pel, stream[m].event = e, ~Settling(m)
        PROVE  ~Settling(m)'
    <2>1. cur[c] # m  BY <1>1, <1>3 DEF EventOf
    <2>2. \A d \in Consumers \ {c} : settled'[d] = settled[d]
      BY DEF TypeInv, TypeOK, ConsumerTypeOK
    <2>3. QED  BY <1>3, <2>1, <2>2 DEF Settling
  <1>4. (Unread \cup pel)' = Unread \cup pel /\ stream' = stream /\ outbox' = outbox
    BY DEF Unread, streamVars
  <1> QED  BY <1>1, <1>2, <1>3, <1>4 DEF Live, PendingRecords

LEMMA InitLossInv == ASSUME SafeDeployment, Init PROVE LossInv
  <1>1. TypeInv  BY InitTypeInv
  <1>2. FlowInv  BY DEF Init, FlowInv, SafeDeployment
  <1>3. PendingIsLive  BY DEF Init, PendingIsLive
  <1>4. HandInv  BY EmptySeq DEF Init, HandInv
  <1> QED  BY <1>1, <1>2, <1>3, <1>4 DEF LossInv

(***************************************************************************)
(* The API                                                                 *)
(***************************************************************************)

\* A transaction that takes nothing off the outbox leaves a live event live.
LEMMA LiveStays ==
    ASSUME NEW e, Live(e), UNCHANGED ApiLeavesAlone,
           \A r \in PendingRecords : r \in PendingRecords' /\ outbox'[r].event = outbox[r].event
    PROVE  Live(e)'
  <1>1. \A k : Marking(k)' = Marking(k)  BY DEF Marking, relayVars, ApiLeavesAlone
  <1>2. CASE \E r \in PendingRecords : outbox[r].event = e /\ ~Marking(r)
    BY <1>1, <1>2 DEF Live
  <1>3. CASE \E m \in Unread \cup pel : stream[m].event = e /\ ~Settling(m)
    BY <1>3 DEF Live, Unread, Settling, streamVars, consumerVars, ApiLeavesAlone
  <1> QED  BY <1>2, <1>3 DEF Live

LEMMA InsertLoss == ASSUME LossInv, NEW e \in Events, InsertRecord(e) PROVE PendingIsLive'
  <1> SUFFICES ASSUME NEW f \in Events, status'[f] = "PENDING" PROVE Live(f)'
    BY DEF PendingIsLive
  <1>1. UNCHANGED status /\ UNCHANGED ApiLeavesAlone  BY DEF InsertRecord, ApiLeavesAlone
  <1>2. /\ Len(outbox') = Len(outbox) + 1 /\ Len(outbox) \in Nat
        /\ \A k \in 1 .. Len(outbox) : outbox'[k] = outbox[k]
    BY InsertFacts, LenProperties DEF LossInv, TypeInv, TypeOK, RepoTypeOK
  <1>3. \A r \in PendingRecords : r \in PendingRecords' /\ outbox'[r].event = outbox[r].event
    BY <1>2 DEF PendingRecords
  <1> QED  BY <1>1, <1>3, LiveStays DEF LossInv, PendingIsLive

LEMMA RollbackLoss ==
    ASSUME LossInv, NEW S \in SUBSET OpenRecords, Rollback(S) PROVE PendingIsLive'
  <1> SUFFICES ASSUME NEW f \in Events, status'[f] = "PENDING" PROVE Live(f)'
    BY DEF PendingIsLive
  <1>1. UNCHANGED status /\ UNCHANGED ApiLeavesAlone  BY DEF Rollback, ApiLeavesAlone
  <1>2. /\ Len(outbox') = Len(outbox)
        /\ \A k \in 1 .. Len(outbox) : k \notin S => outbox'[k] = outbox[k]
    BY RollbackFacts DEF LossInv
  <1>3. \A r \in PendingRecords : r \in PendingRecords' /\ outbox'[r].event = outbox[r].event
    BY <1>2 DEF PendingRecords, OpenRecords
  <1> QED  BY <1>1, <1>3, LiveStays DEF LossInv, PendingIsLive

\* What is committed is PENDING together with a record that no relay has in hand.
LEMMA CommitLoss ==
    ASSUME LossInv, NEW S \in SUBSET OpenRecords, Commit(S) PROVE PendingIsLive'
  <1> SUFFICES ASSUME NEW f \in Events, status'[f] = "PENDING" PROVE Live(f)'
    BY DEF PendingIsLive
  <1>1. UNCHANGED ApiLeavesAlone  BY DEF Commit, ApiLeavesAlone
  <1>2. /\ Len(outbox') = Len(outbox)
        /\ \A k \in 1 .. Len(outbox) :
              outbox'[k] = IF k \in S THEN CommittedAs(k) ELSE outbox[k]
    BY CommitFacts DEF LossInv
  <1>3. CASE \E r \in S : outbox[r].event = f
    <2>1. PICK r \in S : outbox[r].event = f  BY <1>3
    <2>2. r \in 1 .. Len(outbox) /\ outbox[r].status = "UNCOMMITTED"  BY DEF OpenRecords
    <2>3. outbox'[r] = CommittedAs(r)  BY <1>2, <2>2
    <2>4. outbox'[r].event = f /\ outbox'[r].status = "PENDING"  BY <2>1, <2>3 DEF CommittedAs
    <2>5. r \in PendingRecords'  BY <1>2, <2>2, <2>4 DEF PendingRecords
    <2>6. ~Marking(r)
      BY <2>2 DEF Marking, LossInv, HandInv, Committed
    <2>7. ~Marking(r)'  BY <1>1, <2>6 DEF Marking, relayVars, ApiLeavesAlone
    <2> QED  BY <2>4, <2>5, <2>7 DEF Live
  <1>4. CASE ~ \E r \in S : outbox[r].event = f
    <2>1. Live(f)  BY <1>4 DEF Commit, LossInv, PendingIsLive
    <2>2. \A r \in PendingRecords : r \in PendingRecords' /\ outbox'[r].event = outbox[r].event
      BY <1>2 DEF PendingRecords, OpenRecords
    <2> QED  BY <1>1, <2>1, <2>2, LiveStays
  <1> QED  BY <1>3, <1>4

(***************************************************************************)
(* The relay                                                               *)
(***************************************************************************)

LEMMA RelayFetchLoss == ASSUME LossInv, NEW y \in Relays, RelayFetch(y) PROVE PendingIsLive'
  <1>1. UNCHANGED <<status, outbox, streamVars, settled, cur>>
    BY DEF RelayFetch, repoVars, consumerVars
  <1>2. \A r : Marking(r)' => Marking(r)
    BY DEF RelayFetch, RelayGoto, Marking, LossInv, TypeInv, TypeOK, RelayTypeOK
  <1>3. \A m : Settling(m)' => Settling(m)  BY <1>1 DEF Settling
  <1> QED  BY <1>1, <1>2, <1>3, LiveFrame DEF LossInv

LEMMA RelayExitLoss == ASSUME LossInv, NEW y \in Relays, RelayExit(y) PROVE PendingIsLive'
  <1>1. UNCHANGED <<status, outbox, streamVars, settled, cur>>
    BY DEF RelayExit, repoVars, consumerVars
  <1>2. \A r : Marking(r)' => Marking(r)
    BY DEF RelayExit, RelayGoto, Marking, LossInv, TypeInv, TypeOK, RelayTypeOK
  <1>3. \A m : Settling(m)' => Settling(m)  BY <1>1 DEF Settling
  <1> QED  BY <1>1, <1>2, <1>3, LiveFrame DEF LossInv

\* Publishing takes the record off the live ones only together with putting a
\* message of the same event into the stream.
LEMMA RelayPublishLoss ==
    ASSUME SafeDeployment, LossInv, NEW y \in Relays, RelayPublish(y)
    PROVE  PendingIsLive' /\ trimmed' = 0
  <1>1. PICK r \in relayBatch[y] :
          \/ XAdd(r) /\ RelayGoto(y, "mark", relayBatch[y], r)
          \/ XAdd(r) /\ RelayGoto(y, "idle", {}, 0)
          \/ UNCHANGED streamVars /\ RelayGoto(y, "idle", {}, 0)
    BY DEF RelayPublish
  <1>2. r \in 1 .. Len(outbox)  BY DEF LossInv, TypeInv, TypeOK, RelayTypeOK
  <1>3. UNCHANGED <<status, outbox, settled, cur>>
    BY DEF RelayPublish, repoVars, consumerVars
  <1>4. \A m : Settling(m)' = Settling(m)  BY <1>3 DEF Settling
  <1>5. relayPc[y] = "publish"  BY DEF RelayPublish
  <1>6. CASE UNCHANGED streamVars /\ RelayGoto(y, "idle", {}, 0)
    <2>1. \A k : Marking(k)' => Marking(k)
      BY <1>6 DEF RelayGoto, Marking, LossInv, TypeInv, TypeOK, RelayTypeOK
    <2>2. QED  BY <1>3, <1>4, <1>6, <2>1, LiveFrame DEF LossInv, FlowInv, streamVars
  <1>7. CASE XAdd(r)
    <2>0. Len(stream) \in Nat /\ pel \subseteq 1 .. Len(stream) /\ lastDelivered \in 0 .. Len(stream)
      BY LenProperties DEF LossInv, TypeInv, TypeOK, StreamTypeOK
    <2>8. TypeInv  BY DEF LossInv
    <2>9. /\ Len(stream') = Len(stream) + 1
          /\ \A m \in 1 .. Len(stream) : stream'[m] = stream[m]
          /\ stream'[Len(stream) + 1] = [event |-> outbox[r].event, record |-> r]
      BY <1>2, <1>7, <2>8, XAddFacts
    <2>1. /\ Len(stream') = Len(stream) + 1
          /\ \A m \in 1 .. Len(stream) : stream'[m] = stream[m]
          /\ stream'[Len(stream) + 1].event = outbox[r].event
      BY <2>9
    <2>2. trimmed' = 0 /\ lastDelivered' = lastDelivered /\ pel' = pel
      BY <1>7 DEF XAdd, SafeDeployment, LossInv, FlowInv
    <2>3. /\ \A m \in Unread \cup pel : m \in (Unread \cup pel)' /\ m \in 1 .. Len(stream)
          /\ Len(stream) + 1 \in Unread'
      <3>1. trimmed = 0  BY DEF LossInv, FlowInv
      <3>2. \A m \in Unread : m \in Unread' /\ m \in 1 .. Len(stream)
        BY <2>0, <2>1, <2>2, <3>1, SMTT(30) DEF Unread
      <3>3. \A m \in pel : m \in pel' /\ m \in 1 .. Len(stream)  BY <2>0, <2>2
      <3>4. Len(stream) + 1 \in Unread'
        <4> DEFINE n == Len(stream)
        <4>1. n \in Nat /\ lastDelivered \in 0 .. n /\ Len(stream') = n + 1  BY <2>0, <2>1
        <4> HIDE DEF n
        <4>2. n + 1 \in Unread'  BY <2>2, <4>1, SMTT(30) DEF Unread
        <4> QED  BY <4>2 DEF n
      <3> QED  BY <3>2, <3>3, <3>4
    <2>4. ~Settling(Len(stream) + 1)
      BY <2>0 DEF Settling, LossInv, TypeInv, TypeOK, ConsumerTypeOK
    <2>5. \A k : k # r /\ Marking(k)' => Marking(k)
      BY <1>1, <1>5 DEF RelayGoto, Marking, LossInv, TypeInv, TypeOK, RelayTypeOK
    <2>6. ASSUME NEW e \in Events, status'[e] = "PENDING" PROVE Live(e)'
      <3>1. Live(e)  BY <1>3, <2>6 DEF LossInv, PendingIsLive
      <3>2. CASE \E k \in PendingRecords : outbox[k].event = e /\ ~Marking(k)
        <4>1. PICK k \in PendingRecords : outbox[k].event = e /\ ~Marking(k)  BY <3>2
        <4>2. CASE k = r
          <5>1. stream'[Len(stream) + 1].event = e  BY <2>1, <4>1, <4>2 
          <5>2. QED  BY <1>4, <2>3, <2>4, <5>1 DEF Live
        <4>3. CASE k # r  BY <1>3, <2>5, <4>1, <4>3 DEF Live, PendingRecords
        <4>4. QED  BY <4>2, <4>3
      <3>3. CASE \E m \in Unread \cup pel : stream[m].event = e /\ ~Settling(m)
        BY <1>4, <2>1, <2>3, <3>3 DEF Live
      <3>4. QED  BY <3>1, <3>2, <3>3 DEF Live
    <2>7. QED  BY <2>2, <2>6 DEF PendingIsLive
  <1> QED  BY <1>1, <1>6, <1>7

\* Marking a record takes nothing off the live carriers: it was not one of them.
LEMMA RelayMarkLoss == ASSUME LossInv, NEW y \in Relays, RelayMark(y) PROVE PendingIsLive'
  <1> DEFINE r == relayRecord[y]
  <1>1. r \in 1 .. Len(outbox) /\ Marking(r)
    BY DEF RelayMark, Marking, LossInv, TypeInv, WhereOK
  <1>2. MarkRecord(r) \/ UNCHANGED outbox  BY DEF RelayMark
  <1>3. /\ Len(outbox') = Len(outbox)
        /\ \A k \in 1 .. Len(outbox) : k # r => outbox'[k] = outbox[k]
    BY <1>1, <1>2, MarkFacts DEF LossInv
  <1>4. UNCHANGED <<status, streamVars, settled, cur>>  BY DEF RelayMark, consumerVars
  <1>5. \A k : Marking(k)' => Marking(k)
    BY DEF RelayMark, RelayGoto, Marking, LossInv, TypeInv, TypeOK, RelayTypeOK
  <1>6. \A m : Settling(m)' = Settling(m)  BY <1>4 DEF Settling
  <1> HIDE DEF r
  <1>7. ASSUME NEW e \in Events, status'[e] = "PENDING" PROVE Live(e)'
    <2>1. Live(e)  BY <1>4, <1>7 DEF LossInv, PendingIsLive
    <2>2. CASE \E k \in PendingRecords : outbox[k].event = e /\ ~Marking(k)
      BY <1>1, <1>3, <1>5, <2>2 DEF Live, PendingRecords
    <2>3. CASE \E m \in Unread \cup pel : stream[m].event = e /\ ~Settling(m)
      BY <1>4, <1>6, <2>3 DEF Live, Unread, streamVars
    <2>4. QED  BY <2>1, <2>2, <2>3 DEF Live
  <1> QED  BY <1>7 DEF PendingIsLive

(***************************************************************************)
(* Reading and claiming                                                    *)
(***************************************************************************)

\* FirstOf takes a lower part of a finite set.
LEMMA FirstOfIsLower ==
    ASSUME NEW N \in Nat, NEW S \in SUBSET (1 .. N), NEW n \in Nat,
           NEW x \in S, NEW l \in FirstOf(S, n), x <= l
    PROVE  x \in FirstOf(S, n)
  <1> DEFINE below(z) == {y \in S : y < z}
  <1>1. IsFiniteSet(1 .. N)  BY FS_Interval
  <1>2. IsFiniteSet(S)  BY <1>1, FS_Subset
  <1>3. IsFiniteSet(below(l))  BY <1>2, FS_Subset
  <1>4. l \in S /\ l \in Nat /\ x \in Nat /\ Cardinality(below(l)) < n  BY DEF FirstOf
  <1>5. below(x) \subseteq below(l)
    <2>1. \A y \in S : y \in Nat  OBVIOUS
    <2>2. \A y \in S : y < x => y < l  BY <1>4, <2>1
    <2>3. QED  BY <2>2
  <1>6. /\ Cardinality(below(x)) <= Cardinality(below(l))
        /\ Cardinality(below(x)) \in Nat /\ Cardinality(below(l)) \in Nat
    BY <1>3, <1>5, FS_Subset, FS_CardinalityType
  <1>7. Cardinality(below(x)) < n  BY <1>4, <1>6
  <1> QED  BY <1>7 DEF FirstOf

\* The group moves past messages only as they enter the PEL.
LEMMA ReadEventsLoss == ASSUME LossInv, NEW w \in Workers, ReadEvents(w) PROVE PendingIsLive'
  <1> DEFINE msgs == FirstOf(Unread, BatchSize)
  <1>1. /\ lastDelivered' \in msgs
        /\ pel' = pel \cup msgs
        /\ UNCHANGED <<stream, trimmed, status, outbox, settled, cur, relayVars>>
    BY DEF ReadEvents, repoVars
  <1>2. Len(stream) \in Nat /\ BatchSize \in Nat /\ Unread \in SUBSET (1 .. Len(stream))
    BY LenProperties, ConstantsAssumption DEF LossInv, TypeInv, TypeOK, StreamTypeOK, Unread
  <1>3. \A m \in Unread : m <= lastDelivered' => m \in msgs
    BY <1>1, <1>2, FirstOfIsLower
  <1>4. lastDelivered' \in Nat  BY <1>1, <1>2 DEF FirstOf
  <1> HIDE DEF msgs
  <1>5. \A m \in Unread : m > lastDelivered' \/ m \in msgs  BY <1>2, <1>3, <1>4
  <1>6. \A m \in Unread \cup pel : m \in (Unread \cup pel)'
    BY <1>1, <1>5 DEF Unread
  <1>7. \A r : Marking(r)' = Marking(r)  BY <1>1 DEF Marking, relayVars
  <1>8. \A m : Settling(m)' = Settling(m)  BY <1>1 DEF Settling
  <1> QED  BY <1>1, <1>6, <1>7, <1>8 DEF LossInv, PendingIsLive, Live, PendingRecords

LEMMA AutoClaimLoss == ASSUME LossInv, NEW idle \in SUBSET pel, AutoClaim(idle) PROVE PendingIsLive'
  <1>0. \A m \in idle : m \in Nat /\ m > trimmed
    BY LenProperties DEF LossInv, FlowInv, TypeInv, TypeOK, StreamTypeOK
  <1>1. {m \in idle : m > trimmed} = idle  BY <1>0
  <1>2. UNCHANGED <<status, outbox, streamVars, settled, cur, relayVars>>
    BY <1>1 DEF AutoClaim, repoVars, streamVars
  <1>3. \A r : Marking(r)' => Marking(r)  BY <1>2 DEF Marking, relayVars
  <1>4. \A m : Settling(m)' => Settling(m)  BY <1>2 DEF Settling
  <1> QED  BY <1>2, <1>3, <1>4, LiveFrame DEF LossInv

LEMMA NextMessageLoss == ASSUME LossInv, NEW c \in Consumers, NextMessage(c) PROVE PendingIsLive'
  <1>1. /\ UNCHANGED <<status, outbox, streamVars, relayVars, settled>>
        /\ ~settled[c]
        /\ \A d \in Consumers \ {c} : cur'[d] = cur[d]
    BY DEF NextMessage, repoVars, LossInv, FlowInv, TypeInv, TypeOK, ConsumerTypeOK
  <1>2. \A r : Marking(r)' = Marking(r)  BY <1>1 DEF Marking, relayVars
  <1>3. \A m : Settling(m)' => Settling(m)  BY <1>1 DEF Settling
  <1> QED  BY <1>1, <1>2, <1>3, LiveFrame DEF LossInv

(***************************************************************************)
(* Processing a message                                                    *)
(***************************************************************************)

LEMMA FenceLoss == ASSUME LossInv, NEW c \in Consumers, Fence(c) PROVE PendingIsLive'
  <1>1. UNCHANGED <<status, outbox, streamVars, relayVars, cur>>  BY DEF Fence, repoVars
  <1>2. CASE settled' = [settled EXCEPT ![c] = TRUE] /\ status[EventOf(c)] \in Final
    BY <1>1, <1>2, LiveSettle DEF LossInv
  <1>3. CASE UNCHANGED settled
    <2>1. \A r : Marking(r)' = Marking(r)  BY <1>1 DEF Marking, relayVars
    <2>2. \A m : Settling(m)' = Settling(m)  BY <1>1, <1>3 DEF Settling
    <2>3. QED  BY <1>1, <2>1, <2>2, LiveFrame DEF LossInv
  <1> QED  BY <1>2, <1>3 DEF Fence

\* Steps within a pass that write no status.
LEMMA PassLoss ==
    ASSUME LossInv, NEW c \in Consumers, Resolve(c) \/ Post(c) \/ Record(c) \/ Abort(c)
    PROVE  PendingIsLive'
  <1>1. UNCHANGED <<status, outbox, streamVars, relayVars, cur, settled>>
    BY DEF Resolve, Post, Record, Abort, repoVars
  <1>2. \A r : Marking(r)' = Marking(r)  BY <1>1 DEF Marking, relayVars
  <1>3. \A m : Settling(m)' = Settling(m)  BY <1>1 DEF Settling
  <1> QED  BY <1>1, <1>2, <1>3, LiveFrame DEF LossInv

LEMMA SetStatusLoss ==
    ASSUME LossInv, NEW c \in Consumers, pc[c] \in Busy, NEW final \in Final, SetStatus(c, final),
           UNCHANGED <<outbox, streamVars, relayVars, cur>>
    PROVE  PendingIsLive'
  <1>1. EventOf(c) \in Events  BY EventInHand DEF LossInv
  <1>2. /\ status'[EventOf(c)] # "PENDING"
        /\ \A e \in Events : e # EventOf(c) => status'[e] = status[e]
        /\ settled' = [settled EXCEPT ![c] = TRUE]
    BY <1>1 DEF SetStatus, LossInv, TypeInv, TypeOK, RepoTypeOK
  <1> QED  BY <1>2, LiveSettle DEF LossInv

LEMMA UpdateLoss ==
    ASSUME SafeDeployment, LossInv, NEW c \in Consumers, Update(c) PROVE PendingIsLive'
  <1>1. ~Fault("update")  BY NoLossyFault DEF LossyFaults
  <1>2. PICK final \in Final : SetStatus(c, final)  BY <1>1 DEF Update
  <1>3. UNCHANGED <<outbox, streamVars, relayVars, cur>> /\ pc[c] \in Busy  BY DEF Update
  <1> QED  BY <1>2, <1>3, SetStatusLoss

LEMMA QuarantineLoss == ASSUME SafeDeployment, LossInv, Quarantine PROVE PendingIsLive'
  <1>1. ~Fault("update")  BY NoLossyFault DEF LossyFaults
  <1>2. SetStatus(Reclaimer, "DLQ")  BY <1>1 DEF Quarantine
  <1>3. UNCHANGED <<outbox, streamVars, relayVars, cur>> /\ pc[Reclaimer] \in Busy
    BY DEF Quarantine
  <1> QED  BY <1>2, <1>3, SetStatusLoss DEF Consumers

\* What leaves the PEL was settled, so it was not live.
LEMMA AckEventLoss == ASSUME LossInv, NEW c \in Consumers, AckEvent(c) PROVE PendingIsLive'
  <1>1. /\ UNCHANGED <<status, outbox, relayVars, stream, trimmed, lastDelivered>>
        /\ settled' = [settled EXCEPT ![c] = FALSE]
        /\ \A d \in Consumers \ {c} : cur'[d] = cur[d]
    BY DEF AckEvent, repoVars, LossInv, TypeInv, TypeOK, ConsumerTypeOK
  <1>2. \A r : Marking(r)' = Marking(r)  BY <1>1 DEF Marking, relayVars
  <1>3. \A m : Settling(m)' => Settling(m)
    BY <1>1 DEF Settling, LossInv, TypeInv, TypeOK, ConsumerTypeOK
  <1>4. \A m \in pel : ~Settling(m) => m \in pel'
    <2>1. pc[c] = "ack" => settled[c] \/ cancelled  BY DEF LossInv, FlowInv
    <2>2. QED  BY <2>1 DEF AckEvent, Settling
  <1>5. Unread' = Unread  BY <1>1 DEF Unread
  <1>6. ASSUME NEW e \in Events, status'[e] = "PENDING" PROVE Live(e)'
    <2>1. Live(e)  BY <1>1, <1>6 DEF LossInv, PendingIsLive
    <2>2. QED  BY <1>1, <1>2, <1>3, <1>4, <1>5, <2>1 DEF Live, PendingRecords
  <1> QED  BY <1>6 DEF PendingIsLive

(***************************************************************************)
(* Steps that touch none of this, and the end of a process                 *)
(***************************************************************************)

LEMMA ElsewhereLoss ==
    ASSUME LossInv,
           \/ \E t \in Endpoints : RegisterEndpoint(t)
           \/ \E c \in Consumers : ConsumerExit(c)
           \/ Shutdown
           \/ UNCHANGED vars
    PROVE  PendingIsLive'
  <1>1. UNCHANGED <<status, outbox, streamVars, relayVars, cur, settled>>
    BY DEF RegisterEndpoint, ConsumerExit, Shutdown, vars, repoVars, consumerVars
  <1>2. \A r : Marking(r)' = Marking(r)  BY <1>1 DEF Marking, relayVars
  <1>3. \A m : Settling(m)' = Settling(m)  BY <1>1 DEF Settling
  <1> QED  BY <1>1, <1>2, <1>3, LiveFrame DEF LossInv

\* The outbox, the stream and the PEL outlive the process.
LEMMA NewProcessLoss ==
    ASSUME SafeDeployment, LossInv, NewProcess PROVE PendingIsLive' /\ FlowInv'
  <1>1. UNCHANGED <<status, outbox, endpoints, streamVars>>
    BY DEF NewProcess, SafeDeployment, repoVars
  <1>2. \A r : ~Marking(r)'  BY DEF NewProcess, Marking
  <1>3. \A m : ~Settling(m)'  BY DEF NewProcess, Settling
  <1>4. PendingIsLive'  BY <1>1, <1>2, <1>3, LiveFrame DEF LossInv
  <1>5. FlowInv'  BY <1>1 DEF NewProcess, LossInv, FlowInv, streamVars
  <1> QED  BY <1>4, <1>5

(***************************************************************************)
(* A consumer acknowledges only what is settled                            *)
(***************************************************************************)

FlowOf(c) ==
    /\ pc[c] = "ack" => settled[c] \/ cancelled
    /\ pc[c] = "record" /\ verdict[c] = "RETRYING" => attemptNum[c] < MaxRetries
    /\ pc[c] \in {"idle", "next"} => ~settled[c]

\* A step of consumer c disturbs no other consumer.
LEMMA FlowStep ==
    ASSUME LossInv, NEW c \in Consumers, UNCHANGED <<trimmed, endpoints, cancelled>>,
           FlowOf(c)',
           \A d \in Consumers \ {c} : /\ pc'[d] = pc[d] /\ settled'[d] = settled[d]
                                      /\ verdict'[d] = verdict[d]
                                      /\ attemptNum'[d] = attemptNum[d]
    PROVE  FlowInv'
  BY DEF FlowOf, LossInv, FlowInv

LEMMA ApiFlow == ASSUME LossInv, Api PROVE FlowInv'
  <1>1. UNCHANGED ApiLeavesAlone  BY ApiFrame
  <1>2. endpoints \subseteq endpoints'
    BY DEF Api, CreateEventWithOutbox, ReplayDLQEvents, InsertRecord, Commit, Rollback,
           RegisterEndpoint
  <1> QED  BY <1>1, <1>2 DEF LossInv, FlowInv, ApiLeavesAlone, streamVars, consumerVars,
                             dispatchVars

LEMMA RelayFlow ==
    ASSUME SafeDeployment, LossInv, NEW y \in Relays, Relay(y) PROVE FlowInv'
  <1>1. trimmed' = 0
    BY RelayPublishLoss
    DEF Relay, RelayFetch, RelayPoll, RelayMark, RelayExit, LossInv, FlowInv, streamVars, vars
  <1>2. UNCHANGED <<endpoints, cancelled, consumerVars>>
    BY DEF Relay, RelayFetch, RelayPoll, RelayPublish, RelayMark, RelayExit, repoVars, vars
  <1> QED  BY <1>1, <1>2 DEF LossInv, FlowInv, consumerVars, dispatchVars

LEMMA ReadEventsFlow == ASSUME LossInv, NEW w \in Workers, ReadEvents(w) PROVE FlowInv'
  <1>1. /\ UNCHANGED <<trimmed, endpoints, cancelled, settled, dispatchVars>>
        /\ pc' = [pc EXCEPT ![w] = "next"] \/ pc' = pc
        /\ pc[w] = "idle"
    BY DEF ReadEvents, repoVars
  <1> QED  BY <1>1 DEF Consumers, LossInv, FlowInv, dispatchVars, TypeInv, TypeOK, ConsumerTypeOK

LEMMA AutoClaimFlow ==
    ASSUME LossInv, NEW idle \in SUBSET pel, AutoClaim(idle) PROVE FlowInv'
  <1>1. /\ UNCHANGED <<trimmed, endpoints, cancelled, settled, dispatchVars>>
        /\ pc[Reclaimer] = "idle"
        /\ \E where \in {"idle", "next"} : pc' = [pc EXCEPT ![Reclaimer] = where]
    BY DEF AutoClaim, repoVars
  <1> QED  BY <1>1 DEF Consumers, LossInv, FlowInv, dispatchVars, TypeInv, TypeOK, ConsumerTypeOK

LEMMA NextMessageFlow == ASSUME LossInv, NEW c \in Consumers, NextMessage(c) PROVE FlowInv'
  <1>1. /\ UNCHANGED <<trimmed, endpoints, cancelled, settled, dispatchVars>>
        /\ \E where \in {"poison", "fence"} : pc' = [pc EXCEPT ![c] = where]
    BY DEF NextMessage, repoVars, streamVars
  <1> QED  BY <1>1 DEF LossInv, FlowInv, dispatchVars, TypeInv, TypeOK, ConsumerTypeOK

LEMMA FenceFlow == ASSUME LossInv, NEW c \in Consumers, Fence(c) PROVE FlowInv'
  <1>1. /\ UNCHANGED <<trimmed, endpoints, cancelled, dispatchVars>>
        /\ \/ pc' = [pc EXCEPT ![c] = "ack"] /\ settled' = [settled EXCEPT ![c] = TRUE]
           \/ pc' = [pc EXCEPT ![c] = "resolve"] /\ settled' = settled
    BY DEF Fence, Goto, repoVars, streamVars
  <1> QED  BY <1>1 DEF LossInv, FlowInv, dispatchVars, TypeInv, TypeOK, ConsumerTypeOK

\* What the three ways on from an endpoint do to the control state of a consumer.
LEMMA NextEndpointFlow ==
    ASSUME TypeInv, NEW c \in Consumers,
           \/ NextEndpoint(c)
           \/ \E S \in SUBSET Endpoints : StartEndpoint(c, S)
           \/ Return(c)
    PROVE  /\ pc'[c] \in {"post", "ack"}
           /\ \A d \in Consumers \ {c} : /\ pc'[d] = pc[d] /\ verdict'[d] = verdict[d]
                                         /\ attemptNum'[d] = attemptNum[d]
  BY DEF NextEndpoint, StartEndpoint, Return, Goto, TypeInv, TypeOK, ConsumerTypeOK, DispatchTypeOK

LEMMA ResolveFlow ==
    ASSUME SafeDeployment, LossInv, NEW c \in Consumers, Resolve(c) PROVE FlowInv'
  <1>1. ~Fault("endpointsRead")  BY NoLossyFault DEF LossyFaults
  <1>2. StartEndpoint(c, endpoints)  BY <1>1 DEF Resolve, LossInv, FlowInv
  <1>3. pc'[c] = "post"
    BY <1>2 DEF StartEndpoint, Goto, LossInv, TypeInv, TypeOK, ConsumerTypeOK
  <1>4. \A d \in Consumers \ {c} : /\ pc'[d] = pc[d] /\ verdict'[d] = verdict[d]
                                   /\ attemptNum'[d] = attemptNum[d]
    BY <1>2, NextEndpointFlow DEF LossInv, TypeInv, TypeOK, RepoTypeOK
  <1>5. UNCHANGED <<trimmed, endpoints, cancelled, settled>>
    BY DEF Resolve, repoVars, streamVars
  <1> QED  BY <1>3, <1>4, <1>5, FlowStep DEF FlowOf

LEMMA PostFlow == ASSUME LossInv, NEW c \in Consumers, Post(c) PROVE FlowInv'
  <1>1. PICK answer \in {"OK", "TRANSIENT", "PERMANENT"} :
           verdict' = [verdict EXCEPT ![c] = Classify(answer, attemptNum[c])]
    BY DEF Post
  <1>2. /\ pc' = [pc EXCEPT ![c] = "record"]
        /\ UNCHANGED <<trimmed, endpoints, cancelled, settled, attemptNum>>
    BY DEF Post, Goto, repoVars, streamVars
  <1>3. FlowOf(c)'
    BY <1>1, <1>2 DEF FlowOf, Classify, LossInv, TypeInv, TypeOK, ConsumerTypeOK, DispatchTypeOK
  <1> QED  BY <1>1, <1>2, <1>3, FlowStep
           DEF LossInv, TypeInv, TypeOK, ConsumerTypeOK, DispatchTypeOK

LEMMA RecordFlow ==
    ASSUME SafeDeployment, LossInv, NEW c \in Consumers, Record(c) PROVE FlowInv'
  <1>1. ~Fault("record")  BY NoLossyFault DEF LossyFaults
  <1>2. UNCHANGED <<trimmed, endpoints, cancelled, settled>>  BY DEF Record, streamVars
  <1>3. CASE verdict[c] = "RETRYING"
    <2>1. attemptNum[c] < MaxRetries /\ attemptNum[c] \in Nat /\ MaxRetries \in Nat
      BY <1>3, ConstantsAssumption
      DEF Record, LossInv, FlowInv, TypeInv, TypeOK, DispatchTypeOK
    <2>2. RetryOrMoveOn(c)  BY <1>1, <1>3 DEF Record
    <2>3. attemptNum[c] + 1 <= MaxRetries  BY <2>1
    <2>4. /\ attemptNum' = [attemptNum EXCEPT ![c] = attemptNum[c] + 1]
          /\ verdict' = [verdict EXCEPT ![c] = "NONE"]
          /\ pc' = [pc EXCEPT ![c] = "post"]
      BY <1>3, <2>2, <2>3 DEF RetryOrMoveOn, Goto
    <2>5. FlowOf(c)'  BY <2>4 DEF FlowOf, LossInv, TypeInv, TypeOK, ConsumerTypeOK
    <2>6. QED  BY <1>2, <2>4, <2>5, FlowStep
               DEF LossInv, TypeInv, TypeOK, ConsumerTypeOK, DispatchTypeOK
  <1>4. CASE verdict[c] # "RETRYING"
    <2>1. pc' = [pc EXCEPT ![c] = "update"] /\ UNCHANGED dispatchVars
      BY <1>1, <1>4 DEF Record, Goto
    <2>2. QED
      BY <1>2, <2>1 DEF LossInv, FlowInv, dispatchVars, TypeInv, TypeOK, ConsumerTypeOK
  <1> QED  BY <1>3, <1>4

LEMMA UpdateFlow ==
    ASSUME SafeDeployment, LossInv, NEW c \in Consumers, Update(c) PROVE FlowInv'
  <1>1. ~Fault("update")  BY NoLossyFault DEF LossyFaults
  <1>2. settled' = [settled EXCEPT ![c] = TRUE]  BY <1>1 DEF Update, SetStatus
  <1>3. UNCHANGED <<trimmed, endpoints, cancelled>>  BY DEF Update, streamVars
  <1>4. /\ pc'[c] \in {"post", "ack"}
        /\ \A d \in Consumers \ {c} : /\ pc'[d] = pc[d] /\ verdict'[d] = verdict[d]
                                      /\ attemptNum'[d] = attemptNum[d]
    BY NextEndpointFlow DEF Update, LossInv
  <1>5. FlowOf(c)'  BY <1>2, <1>4 DEF FlowOf, LossInv, TypeInv, TypeOK, ConsumerTypeOK
  <1> QED  BY <1>2, <1>3, <1>4, <1>5, FlowStep DEF LossInv, TypeInv, TypeOK, ConsumerTypeOK

LEMMA QuarantineFlow == ASSUME SafeDeployment, LossInv, Quarantine PROVE FlowInv'
  <1>1. ~Fault("update")  BY NoLossyFault DEF LossyFaults
  <1>2. /\ settled' = [settled EXCEPT ![Reclaimer] = TRUE]
        /\ pc' = [pc EXCEPT ![Reclaimer] = "ack"]
        /\ UNCHANGED <<trimmed, endpoints, cancelled, dispatchVars>>
    BY <1>1 DEF Quarantine, SetStatus, Goto, streamVars
  <1> QED  BY <1>2 DEF Consumers, LossInv, FlowInv, dispatchVars, TypeInv, TypeOK, ConsumerTypeOK

LEMMA AbortFlow == ASSUME LossInv, NEW c \in Consumers, Abort(c) PROVE FlowInv'
  <1>1. cancelled /\ UNCHANGED <<trimmed, endpoints, cancelled, settled>>
    BY DEF Abort, repoVars, streamVars
  <1>2. /\ pc'[c] = "ack"
        /\ \A d \in Consumers \ {c} : /\ pc'[d] = pc[d] /\ verdict'[d] = verdict[d]
                                      /\ attemptNum'[d] = attemptNum[d]
    BY NextEndpointFlow DEF Abort, Return, Goto, LossInv, TypeInv, TypeOK, ConsumerTypeOK
  <1> QED  BY <1>1, <1>2, FlowStep DEF FlowOf

LEMMA AckEventFlow == ASSUME LossInv, NEW c \in Consumers, AckEvent(c) PROVE FlowInv'
  <1>1. /\ UNCHANGED <<trimmed, endpoints, cancelled, dispatchVars>>
        /\ settled' = [settled EXCEPT ![c] = FALSE]
        /\ \E where \in {"idle", "next"} : pc' = [pc EXCEPT ![c] = where]
    BY DEF AckEvent, Goto, repoVars
  <1> QED  BY <1>1 DEF LossInv, FlowInv, dispatchVars, TypeInv, TypeOK, ConsumerTypeOK

LEMMA ConsumerExitFlow == ASSUME LossInv, NEW c \in Consumers, ConsumerExit(c) PROVE FlowInv'
  <1>1. /\ UNCHANGED <<trimmed, endpoints, cancelled, settled, dispatchVars>>
        /\ pc' = [pc EXCEPT ![c] = "exited"]
    BY DEF ConsumerExit, Goto, repoVars, streamVars
  <1> QED  BY <1>1 DEF LossInv, FlowInv, dispatchVars, TypeInv, TypeOK, ConsumerTypeOK

LEMMA ShutdownFlow == ASSUME LossInv, Shutdown PROVE FlowInv'
  BY DEF Shutdown, LossInv, FlowInv, repoVars, streamVars, consumerVars, dispatchVars

(***************************************************************************)
(* The theorem                                                             *)
(***************************************************************************)

LEMMA NextLoss == ASSUME SafeDeployment, LossInv, [Next]_vars PROVE LossInv'
  <1>1. TypeInv' /\ HandInv'  BY NextType, NextHand DEF LossInv
  <1>2. CASE Api
    BY <1>1, <1>2, InsertLoss, CommitLoss, RollbackLoss, ElsewhereLoss, ApiFlow
    DEF Api, CreateEventWithOutbox, ReplayDLQEvents, LossInv
  <1>3. CASE \E y \in Relays : Relay(y)
    BY <1>1, <1>3, RelayFetchLoss, RelayPublishLoss, RelayMarkLoss, RelayExitLoss,
       ElsewhereLoss, RelayFlow
    DEF Relay, RelayPoll, LossInv
  <1>4. CASE \E w \in Workers : ReadEvents(w)
    BY <1>1, <1>4, ReadEventsLoss, ReadEventsFlow DEF LossInv
  <1>5. CASE Claim  BY <1>1, <1>5, AutoClaimLoss, AutoClaimFlow DEF Claim, LossInv
  <1>6. CASE \E c \in Consumers : Process(c)
    <2>1. PICK c \in Consumers : Process(c)  BY <1>6
    <2>2. PendingIsLive'
      BY <2>1, NextMessageLoss, FenceLoss, PassLoss, UpdateLoss, AckEventLoss, ElsewhereLoss
      DEF Process
    <2>3. FlowInv'
      BY <2>1, NextMessageFlow, FenceFlow, ResolveFlow, PostFlow, RecordFlow, UpdateFlow,
         AbortFlow, AckEventFlow, ConsumerExitFlow
      DEF Process
    <2>4. QED  BY <1>1, <2>2, <2>3 DEF LossInv
  <1>7. CASE Quarantine  BY <1>1, <1>7, QuarantineLoss, QuarantineFlow DEF LossInv
  <1>8. CASE Shutdown  BY <1>1, <1>8, ElsewhereLoss, ShutdownFlow DEF LossInv
  <1>9. CASE Restart \/ Crash
    BY <1>1, <1>9, NewProcessLoss DEF Restart, Crash, LossInv
  <1>10. CASE UNCHANGED vars
    <2>1. PendingIsLive'  BY <1>10, ElsewhereLoss
    <2>2. FlowInv'
      BY <1>10 DEF vars, LossInv, FlowInv, repoVars, streamVars, consumerVars, dispatchVars
    <2>3. QED  BY <1>1, <2>1, <2>2 DEF LossInv
  <1> QED  BY <1>2, <1>3, <1>4, <1>5, <1>6, <1>7, <1>8, <1>9, <1>10 DEF Next

\* Zero data loss: when Redis is up with room in its stream, an endpoint is registered
\* first and no repository call of a pass fails, no event that is still PENDING is ever
\* left without an outbox record, an undelivered message or a pending entry, whatever
\* crashes, shutdowns, lost answers, failed publishes, marks and acknowledgements happen.
THEOREM ZeroLoss == ASSUME SafeDeployment PROVE Spec => []NoEventStranded
  <1>1. Init => LossInv  BY InitLossInv
  <1>2. LossInv /\ [Next]_vars => LossInv'  BY NextLoss
  <1>3. LossInv => NoEventStranded  BY LiveIsCarried DEF LossInv
  <1> QED  BY <1>1, <1>2, <1>3, PTL DEF Spec

(***************************************************************************)
(* The relays and the stream                                               *)
(***************************************************************************)

\* A stream in Redis only grows, and grows by one message of a relay's batch.
LEMMA StreamGrows ==
    ASSUME DurableQueue, TypeInv, [Next]_vars
    PROVE  /\ Len(stream) \in Nat /\ Len(stream') \in Nat /\ Len(stream) <= Len(stream')
           /\ \A m \in 1 .. Len(stream) : stream'[m] = stream[m]
  <1>0. Len(stream) \in Nat
    BY LenProperties DEF TypeInv, TypeOK, StreamTypeOK
  <1>1. CASE stream' = stream  BY <1>0, <1>1
  <1>2. CASE \E y \in Relays : RelayPublish(y)
    <2>1. PICK r \in 1 .. Len(outbox) : XAdd(r) \/ stream' = stream
      BY <1>2 DEF RelayPublish, streamVars, TypeInv, TypeOK, RelayTypeOK
    <2>2. CASE XAdd(r)
      <3>1. /\ Len(stream') = Len(stream) + 1
            /\ \A m \in 1 .. Len(stream) : stream'[m] = stream[m]
        BY <2>2, XAddFacts
      <3> QED  BY <1>0, <3>1
    <2> QED  BY <1>1, <2>1, <2>2
  <1>3. CASE Restart \/ Crash
    BY <1>1, <1>3 DEF Restart, Crash, NewProcess, streamVars
  <1> QED  BY <1>1, <1>2, <1>3, StreamSteps

InStream(r) ==
    \E m \in 1 .. Len(stream) : stream[m] = [event |-> outbox[r].event, record |-> r]

\* A record is in the stream from the moment a relay is about to mark it.
PublishInv ==
    /\ PublishedIsInStream
    /\ \A y \in Relays : relayPc[y] = "mark" => InStream(relayRecord[y])

LEMMA NextPublish ==
    ASSUME DurableQueue, TypeInv, PublishInv, [Next]_vars PROVE PublishInv'
  <1>0. TypeInv'  BY NextType
  <1>1. \A r \in 1 .. Len(outbox) : InStream(r) => InStream(r)'
    <2> SUFFICES ASSUME NEW r \in 1 .. Len(outbox), InStream(r) PROVE InStream(r)'  OBVIOUS
    <2>1. PICK m \in 1 .. Len(stream) : stream[m] = [event |-> outbox[r].event, record |-> r]
      BY DEF InStream
    <2>2. m \in 1 .. Len(stream') /\ stream'[m] = stream[m]  BY StreamGrows
    <2>3. outbox'[r].event = outbox[r].event  BY OutboxGrows
    <2> QED  BY <2>1, <2>2, <2>3 DEF InStream
  <1>2. \A y \in Relays : relayPc'[y] = "mark" => InStream(relayRecord[y])'
    <2> SUFFICES ASSUME NEW y \in Relays, relayPc'[y] = "mark" PROVE InStream(relayRecord[y])'
      OBVIOUS
    <2>1. CASE relayPc[y] = "mark" /\ relayRecord'[y] = relayRecord[y]
      <3>1. relayRecord[y] \in 1 .. Len(outbox) /\ InStream(relayRecord[y])
        BY <2>1 DEF PublishInv, TypeInv, WhereOK
      <3>2. PICK r \in 1 .. Len(outbox) : r = relayRecord[y]  BY <3>1
      <3>3. InStream(r)'  BY <1>1, <3>1, <3>2
      <3> QED  BY <2>1, <3>2, <3>3 DEF InStream
    <2>2. CASE \E r \in relayBatch[y] : XAdd(r) /\ RelayPublish(y) /\ relayRecord'[y] = r
      <3>1. PICK r \in relayBatch[y] : XAdd(r) /\ RelayPublish(y) /\ relayRecord'[y] = r
        BY <2>2
      <3>2. r \in 1 .. Len(outbox)  BY DEF TypeInv, TypeOK, RelayTypeOK
      <3>3. /\ Len(stream) + 1 \in 1 .. Len(stream')
            /\ stream'[Len(stream) + 1] = [event |-> outbox[r].event, record |-> r]
        BY <3>1, <3>2, XAddFacts, StreamGrows
      <3>4. outbox'[r].event = outbox[r].event  BY <3>2, OutboxGrows
      <3> QED  BY <3>1, <3>3, <3>4 DEF InStream
    <2> QED  BY <2>1, <2>2, RelaySteps
  <1>3. PublishedIsInStream'
    <2> SUFFICES ASSUME NEW r \in 1 .. Len(outbox'), outbox'[r].status = "PUBLISHED"
                 PROVE  InStream(r)'
      BY DEF PublishedIsInStream, InStream
    <2>1. r \in 1 .. Len(outbox)  BY OutboxGrows
    <2>2. CASE outbox[r].status = "PUBLISHED"
      BY <1>1, <2>1, <2>2 DEF PublishInv, PublishedIsInStream, InStream
    <2>3. CASE outbox[r].status # "PUBLISHED"
      <3>1. PICK y \in Relays : RelayMark(y) /\ relayRecord[y] = r
        <4>1. outbox'[r] # outbox[r]  BY <2>3
        <4>2. outbox'[r] # CommittedAs(r)  BY DEF CommittedAs
        <4>3. outbox'[r] # Aborted(outbox[r])  BY DEF Aborted
        <4> QED  BY <2>1, <4>1, <4>2, <4>3, RecordSteps
      <3>2. InStream(r)  BY <3>1 DEF RelayMark, PublishInv
      <3> QED  BY <1>1, <2>1, <3>2
    <2> QED  BY <2>2, <2>3
  <1> QED  BY <1>2, <1>3 DEF PublishInv

LEMMA InitPublish == ASSUME Init PROVE PublishInv
  BY EmptySeq DEF Init, PublishInv, PublishedIsInStream

LEMMA PublishInvariant == ASSUME DurableQueue PROVE Spec => [](TypeInv /\ PublishInv)
  <1>1. Init => TypeInv /\ PublishInv  BY InitTypeInv, InitPublish
  <1>2. TypeInv /\ PublishInv /\ [Next]_vars => (TypeInv /\ PublishInv)'
    BY NextType, NextPublish
  <1> QED  BY <1>1, <1>2, PTL DEF Spec

\* With a stream in Redis, a record marked PUBLISHED has its message in the stream: any
\* number of relays may publish and mark the same record, and any of their calls may fail
\* before or after it took effect.
THEOREM PublishBeforeMark == ASSUME DurableQueue PROVE Spec => []PublishedIsInStream
  <1>1. TypeInv /\ PublishInv => PublishedIsInStream  BY DEF PublishInv
  <1> QED  BY <1>1, PublishInvariant, PTL

\* A batch skips no record that was visible when it was fetched and is not yet marked.
Skips(y, q, r) ==
    /\ r < q /\ q \notin outbox[r].late
    /\ r \notin relayBatch[y] /\ outbox[r].status # "PUBLISHED"

BatchInv ==
    \A y \in Relays :
        /\ \A q \in relayBatch[y], r \in Committed : ~Skips(y, q, r)
        /\ relayPc[y] = "mark" => IsLeast(relayRecord[y], relayBatch[y])

LEMMA FetchIsOldest ==
    ASSUME TypeInv, NEW q \in FirstOf(PendingRecords, RelayBatchSize), NEW r \in Committed, r < q
    PROVE  \/ r \in FirstOf(PendingRecords, RelayBatchSize)
           \/ outbox[r].status = "PUBLISHED"
  <1>1. /\ Len(outbox) \in Nat /\ RelayBatchSize \in Nat
        /\ PendingRecords \in SUBSET (1 .. Len(outbox))
    BY LenProperties, ConstantsAssumption DEF TypeInv, TypeOK, RepoTypeOK, PendingRecords
  <1>2. q \in 1 .. Len(outbox) /\ r \in 1 .. Len(outbox)
    BY <1>1 DEF FirstOf, Committed
  <1>3. CASE outbox[r].status = "PENDING"
    <2>1. r \in PendingRecords /\ r <= q  BY <1>1, <1>2, <1>3 DEF PendingRecords
    <2> QED  BY <1>1, <2>1, FirstOfIsLower
  <1> QED  BY <1>3 DEF Committed

LEMMA NextBatch == ASSUME TypeInv, HandInv, BatchInv, [Next]_vars PROVE BatchInv'
  <1>0. /\ \A r \in Committed : r \in Committed' /\ outbox'[r].late = outbox[r].late
        /\ \A r \in Committed : outbox[r].status = "PUBLISHED" => outbox'[r].status = "PUBLISHED"
    BY OutboxGrows DEF Committed
  <1> SUFFICES ASSUME NEW y \in Relays
               PROVE  /\ \A q \in relayBatch'[y], r \in Committed' : ~Skips(y, q, r)'
                      /\ relayPc'[y] = "mark" => IsLeast(relayRecord'[y], relayBatch'[y])
    BY DEF BatchInv, IsLeast
  <1>1. CASE RelayFetch(y) /\ relayBatch'[y] = FirstOf(PendingRecords, RelayBatchSize)
    <2>1. outbox' = outbox  BY <1>1 DEF RelayFetch, repoVars
    <2>2. relayPc'[y] # "mark"
      BY <1>1 DEF RelayFetch, RelayGoto, TypeInv, TypeOK, RelayTypeOK
    <2> QED  BY <1>1, <2>1, <2>2, FetchIsOldest DEF Skips, Committed
  <1>2. CASE ~(RelayFetch(y) /\ relayBatch'[y] = FirstOf(PendingRecords, RelayBatchSize))
    <2>1. relayPc'[y] = "mark" => IsLeast(relayRecord'[y], relayBatch'[y])
      BY <1>2, RelaySteps DEF BatchInv
    <2>2. ASSUME NEW q \in relayBatch'[y], NEW r \in Committed' PROVE ~Skips(y, q, r)'
      <3>1. q \in relayBatch[y]  BY <1>2, RelaySteps
      <3>2. CASE r \in Committed
        <4>1. ~Skips(y, q, r)  BY <3>1, <3>2 DEF BatchInv
        <4>2. r \in relayBatch[y] => r \in relayBatch'[y] \/ outbox'[r].status = "PUBLISHED"
          <5>1. CASE relayBatch'[y] = relayBatch[y]  BY <5>1
          <5>2. CASE /\ RelayMark(y) /\ MarkRecord(relayRecord[y])
                     /\ relayBatch'[y] = relayBatch[y] \ {relayRecord[y]}
            <6>1. PICK x \in 1 .. Len(outbox) : x = relayRecord[y] /\ MarkRecord(x)
              BY <5>2 DEF RelayMark, TypeInv, WhereOK
            <6>2. outbox'[x] = Marked(outbox[x])  BY <6>1, MarkFacts
            <6>3. outbox'[x].status = "PUBLISHED"  BY <6>2 DEF Marked
            <6> QED  BY <5>2, <6>1, <6>3
          <5> QED  BY <1>2, <2>2, <5>1, <5>2, RelaySteps
        <4> QED  BY <1>0, <3>2, <4>1, <4>2 DEF Skips
      <3>3. CASE r \notin Committed
        <4>1. outbox'[r].late = {x \in Fetched : x > r} /\ r \in Nat
          BY <3>3, NewlyCommitted
        <4>2. q \in Fetched /\ q \in Nat  BY <3>1, FetchedType DEF Fetched
        <4> QED  BY <4>1, <4>2 DEF Skips
      <3> QED  BY <3>2, <3>3
    <2> QED  BY <2>1, <2>2
  <1> QED  BY <1>1, <1>2

LEMMA MessageRecords == ASSUME TypeInv PROVE \A m \in 1 .. Len(stream) : stream[m].record \in Nat
  <1>1. stream \in Seq(Messages)  BY DEF TypeInv, TypeOK, StreamTypeOK
  <1>2. \A m \in 1 .. Len(stream) : stream[m] \in Messages  BY <1>1, ElementOfSeq
  <1> QED  BY <1>2 DEF Messages

LEMMA NextOrder ==
    ASSUME DurableQueue, TypeInv, HandInv, PublishInv, BatchInv, PublishedInOrder, [Next]_vars
    PROVE  PublishedInOrder'
  <1>0. /\ Len(stream) \in Nat /\ \A m \in 1 .. Len(stream) : stream'[m] = stream[m]
        /\ \A r \in Committed : r \in Committed' /\ outbox'[r].late = outbox[r].late
    BY StreamGrows, OutboxGrows
  <1>1. ASSUME NEW m \in 1 .. Len(stream), NEW r \in Committed',
               r < stream[m].record, stream[m].record \notin outbox'[r].late
        PROVE  \E k \in 1 .. m - 1 : stream'[k].record = r
    <2>1. r \in Committed
      <3>1. ASSUME r \notin Committed PROVE FALSE
        <4>1. outbox'[r].late = {x \in Fetched : x > r} /\ r \in Nat  BY <3>1, NewlyCommitted
        <4>2. stream[m].record \in Fetched  BY DEF Fetched
        <4>3. stream[m].record \in Nat  BY MessageRecords
        <4> QED  BY <1>1, <4>1, <4>2, <4>3
      <3> QED  BY <3>1
    <2>2. PICK k \in 1 .. m - 1 : stream[k].record = r  BY <1>0, <1>1, <2>1 DEF PublishedInOrder
    <2>3. k \in 1 .. Len(stream)  BY <1>0
    <2> QED  BY <1>0, <2>2, <2>3
  <1>2. CASE stream' = stream  BY <1>1, <1>2 DEF PublishedInOrder
  <1>3. CASE \E y \in Relays : RelayPublish(y)
    <2>1. PICK y \in Relays : RelayPublish(y)  BY <1>3
    <2>2. PICK q \in relayBatch[y] : IsLeast(q, relayBatch[y]) /\ (XAdd(q) \/ stream' = stream)
      BY <2>1 DEF RelayPublish, streamVars
    <2>3. CASE XAdd(q)
      <3>1. q \in 1 .. Len(outbox) /\ Len(outbox) \in Nat /\ outbox' = outbox
        BY <2>1, LenProperties DEF RelayPublish, repoVars, TypeInv, TypeOK, RepoTypeOK, RelayTypeOK
      <3>2. /\ Len(stream') = Len(stream) + 1
            /\ stream'[Len(stream) + 1] = [event |-> outbox[q].event, record |-> q]
        BY <2>3, <3>1, XAddFacts
      <3>3. ASSUME NEW r \in Committed, r < q, q \notin outbox[r].late
            PROVE  \E k \in 1 .. Len(stream) : stream'[k].record = r
        <4>0. r \in 1 .. Len(outbox)  BY DEF Committed
        <4>1. r \notin relayBatch[y]  BY <2>2, <3>1, <3>3, <4>0 DEF IsLeast
        <4>2. outbox[r].status = "PUBLISHED"  BY <3>3, <4>1 DEF BatchInv, Skips
        <4>3. PICK k \in 1 .. Len(stream) : stream[k] = [event |-> outbox[r].event, record |-> r]
          BY <4>0, <4>2 DEF PublishInv, PublishedIsInStream
        <4>4. stream'[k].record = r  BY <1>0, <4>3
        <4> QED  BY <4>4
      <3> SUFFICES ASSUME NEW m \in 1 .. Len(stream'), NEW r \in Committed',
                          r < stream'[m].record, stream'[m].record \notin outbox'[r].late
                   PROVE  \E k \in 1 .. m - 1 : stream'[k].record = r
        BY DEF PublishedInOrder
      <3>4. CASE m = Len(stream) + 1
        <4>1. stream'[m].record = q  BY <3>2, <3>4
        <4>2. r \in Committed /\ m - 1 = Len(stream)  BY <1>0, <3>1, <3>4 DEF Committed
        <4> QED  BY <3>1, <3>3, <4>1, <4>2
      <3>5. CASE m # Len(stream) + 1
        <4>1. m \in 1 .. Len(stream)  BY <1>0, <3>2, <3>5
        <4> QED  BY <1>0, <1>1, <4>1
      <3> QED  BY <3>4, <3>5
    <2> QED  BY <1>2, <2>2, <2>3
  <1>4. CASE Restart \/ Crash
    BY <1>2, <1>4 DEF Restart, Crash, NewProcess, streamVars
  <1> QED  BY <1>2, <1>3, <1>4, StreamSteps

LEMMA BatchInvariant == Spec => []BatchInv
  <1>1. Init => BatchInv  BY DEF Init, BatchInv
  <1>2. (TypeInv /\ HandInv) /\ BatchInv /\ [Next]_vars => BatchInv'  BY NextBatch
  <1> QED  BY <1>1, <1>2, HandInvariant, PTL DEF Spec

\* With a stream in Redis, a record is overtaken only by records that a relay had in hand,
\* or had published, before its transaction committed: for any number of relays that fetch
\* overlapping batches and fail at any point of them, and transactions that commit in any
\* order.
THEOREM OutboxOrder == ASSUME DurableQueue PROVE Spec => []PublishedInOrder
  <1>1. Init => PublishedInOrder  BY EmptySeq DEF Init, PublishedInOrder
  <1>2. (TypeInv /\ HandInv) /\ (TypeInv /\ PublishInv) /\ BatchInv /\ PublishedInOrder
           /\ [Next]_vars => PublishedInOrder'
    BY NextOrder
  <1> QED  BY <1>1, <1>2, HandInvariant, PublishInvariant, BatchInvariant, PTL DEF Spec

(***************************************************************************)
(* One relay publishes twice only after a failure                          *)
(***************************************************************************)

SingleRelay == \A y, z \in Relays : y = z

\* A message whose record the relay is about to mark; a relay whose context is done will
\* not mark it, and the shutdown has paid for it.
Unmarked == IF ~cancelled /\ \E y \in Relays : relayPc[y] = "mark" THEN 1 ELSE 0

PublishedRecords == {r \in 1 .. Len(outbox) : outbox[r].status = "PUBLISHED"}

\* The stream holds a message for each marked record, one more while its record is unmarked,
\* and what failures have paid for; what the relay has in hand is not marked yet.
PaidInv ==
    /\ Len(stream) <= Cardinality(PublishedRecords) + Unmarked + faults
    /\ \A y \in Relays : \A r \in relayBatch[y] : outbox[r].status = "PENDING"

LEMMA CountPublished ==
    ASSUME TypeInv
    PROVE  /\ IsFiniteSet(Committed) /\ Cardinality(Committed) \in Nat
           /\ IsFiniteSet(PublishedRecords) /\ Cardinality(PublishedRecords) \in Nat
           /\ PublishedRecords \subseteq Committed
  <1>1. Len(outbox) \in Nat  BY LenProperties DEF TypeInv, TypeOK, RepoTypeOK
  <1>2. IsFiniteSet(1 .. Len(outbox))  BY <1>1, FS_Interval
  <1>3. Committed \subseteq 1 .. Len(outbox)  BY DEF Committed
  <1>4. PublishedRecords \subseteq Committed  BY DEF PublishedRecords, Committed
  <1>5. IsFiniteSet(Committed)  BY <1>2, <1>3, FS_Subset
  <1>6. IsFiniteSet(PublishedRecords)  BY <1>4, <1>5, FS_Subset
  <1> QED  BY <1>4, <1>5, <1>6, FS_CardinalityType

LEMMA PaidFrame ==
    ASSUME TypeInv, [Next]_vars, PaidInv, Len(stream') \in Nat,
           PublishedRecords' = PublishedRecords,
           Len(stream') + Unmarked + faults <= Len(stream) + Unmarked' + faults'
    PROVE  (Len(stream) <= Cardinality(PublishedRecords) + Unmarked + faults)'
  <1> DEFINE k == Cardinality(PublishedRecords)
  <1>1. k \in Nat /\ k' = k  BY CountPublished
  <1>2. Len(stream) \in Nat /\ faults \in Nat /\ faults' \in Nat
    BY LenProperties, HistoryGrows DEF TypeInv, TypeOK, StreamTypeOK
  <1>3. Unmarked \in {0, 1} /\ Unmarked' \in {0, 1}  BY DEF Unmarked
  <1>4. Len(stream) <= k + Unmarked + faults  BY DEF PaidInv
  <1> HIDE DEF k, Unmarked
  <1>5. Len(stream') <= k + Unmarked' + faults'  BY <1>1, <1>2, <1>3, <1>4
  <1>6. Len(stream') <= k' + Unmarked' + faults'  BY <1>1, <1>5
  <1> QED  BY <1>6 DEF k

\* Only a mark changes a record that is committed.
LEMMA MarksOnly ==
    ASSUME TypeInv, [Next]_vars, \A y \in Relays : ~RelayMark(y)
    PROVE  /\ PublishedRecords' = PublishedRecords
           /\ \A r \in Committed : outbox'[r] = outbox[r]
  <1>0. Len(outbox) \in Nat /\ Len(outbox') \in Nat /\ Len(outbox) <= Len(outbox')
    BY OutboxGrows
  <1>1. ASSUME NEW r \in Committed PROVE outbox'[r] = outbox[r]
    <2>1. r \in 1 .. Len(outbox) /\ r \notin OpenRecords  BY DEF Committed, OpenRecords
    <2> QED  BY <2>1, RecordSteps
  <1>2. ASSUME NEW r \in PublishedRecords' PROVE r \in PublishedRecords
    <2>1. outbox'[r].status = "PUBLISHED" /\ r \in 1 .. Len(outbox')  BY DEF PublishedRecords
    <2>2. r \in 1 .. Len(outbox)  BY <2>1, OutboxGrows
    <2>3. outbox'[r] # CommittedAs(r)  BY <2>1 DEF CommittedAs
    <2>4. outbox'[r] # Aborted(outbox[r])  BY <2>1 DEF Aborted
    <2>5. outbox'[r] = outbox[r]  BY <2>2, <2>3, <2>4, RecordSteps
    <2> QED  BY <2>1, <2>2, <2>5 DEF PublishedRecords
  <1>3. ASSUME NEW r \in PublishedRecords PROVE r \in PublishedRecords'
    <2>1. r \in 1 .. Len(outbox) /\ outbox[r].status = "PUBLISHED"  BY DEF PublishedRecords
    <2> QED  BY <1>0, <2>1, OutboxGrows DEF PublishedRecords
  <1> QED  BY <1>1, <1>2, <1>3

LEMMA RelayMarkPaid ==
    ASSUME SingleRelay, TypeInv, HandInv, PaidInv, [Next]_vars, NEW y \in Relays, RelayMark(y)
    PROVE  (Len(stream) <= Cardinality(PublishedRecords) + Unmarked + faults)'
  <1>0. /\ Len(outbox) \in Nat /\ Len(stream) \in Nat /\ faults \in Nat
        /\ relayPc \in [Relays -> {"idle", "publish", "mark", "exited"}]
    BY LenProperties DEF TypeInv, TypeOK, StreamTypeOK, RepoTypeOK, RelayTypeOK, ProcessTypeOK
  <1>1. /\ relayPc[y] = "mark" /\ ~cancelled /\ stream' = stream
        /\ relayPc'[y] \in {"idle", "publish"}
    BY <1>0 DEF RelayMark, RelayGoto, streamVars
  <1>2. Unmarked = 1 /\ Unmarked' = 0  BY <1>1 DEF Unmarked, SingleRelay
  <1>3. PICK x \in 1 .. Len(outbox) :
          /\ x = relayRecord[y]
          /\ \/ MarkRecord(x) /\ faults' \in {faults, faults + 1}
             \/ outbox' = outbox /\ faults' = faults + 1
    BY <1>1 DEF RelayMark, Fault, TypeInv, WhereOK
  <1>4. CASE outbox' = outbox /\ faults' = faults + 1
    <2>1. PublishedRecords' = PublishedRecords  BY <1>4 DEF PublishedRecords
    <2> QED  BY <1>0, <1>1, <1>2, <1>4, <2>1, PaidFrame
  <1>5. CASE MarkRecord(x) /\ faults' \in {faults, faults + 1}
    <2>1. outbox[x].status = "PENDING"  BY <1>1, <1>3 DEF HandInv, PaidInv
    <2>2. /\ Len(outbox') = Len(outbox)
          /\ \A r \in 1 .. Len(outbox) : outbox'[r] = IF r = x THEN Marked(outbox[x]) ELSE outbox[r]
      BY <1>5, MarkFacts
    <2>3. \A r \in 1 .. Len(outbox) :
             /\ r = x => outbox'[r].status = "PUBLISHED"
             /\ r # x => outbox'[r].status = outbox[r].status
      BY <2>2 DEF Marked
    <2>4. PublishedRecords' = PublishedRecords \cup {x} /\ x \notin PublishedRecords
      BY <2>1, <2>2, <2>3 DEF PublishedRecords
    <2>5. /\ Cardinality(PublishedRecords) \in Nat
          /\ Cardinality(PublishedRecords') = Cardinality(PublishedRecords) + 1
      BY <2>4, CountPublished, FS_AddElement
    <2>6. Len(stream) <= Cardinality(PublishedRecords) + 1 + faults  BY <1>2 DEF PaidInv
    <2> QED  BY <1>0, <1>1, <1>2, <1>5, <2>5, <2>6
  <1> QED  BY <1>3, <1>4, <1>5

LEMMA RelayPublishPaid ==
    ASSUME SingleRelay, TypeInv, PaidInv, [Next]_vars, NEW y \in Relays, RelayPublish(y)
    PROVE  (Len(stream) <= Cardinality(PublishedRecords) + Unmarked + faults)'
  <1>0. /\ Len(stream) \in Nat /\ faults \in Nat
        /\ relayPc \in [Relays -> {"idle", "publish", "mark", "exited"}]
    BY LenProperties DEF TypeInv, TypeOK, StreamTypeOK, RelayTypeOK, ProcessTypeOK
  <1>1. relayPc[y] = "publish" /\ ~cancelled /\ cancelled' = cancelled /\ outbox' = outbox
    BY DEF RelayPublish, repoVars
  <1>2. Unmarked = 0  BY <1>1 DEF Unmarked, SingleRelay
  <1>3. PICK r \in relayBatch[y] :
          \/ XAdd(r) /\ relayPc'[y] = "mark" /\ faults' = faults
          \/ faults' = faults + 1 /\ (XAdd(r) \/ stream' = stream)
    BY <1>0 DEF RelayPublish, RelayGoto, Fault, streamVars
  <1>4. r \in 1 .. Len(outbox)  BY DEF TypeInv, TypeOK, RelayTypeOK
  <1>5. XAdd(r) => Len(stream') = Len(stream) + 1  BY <1>4, XAddFacts
  <1>6. relayPc'[y] = "mark" => Unmarked' = 1  BY <1>1 DEF Unmarked
  <1>7. Unmarked' \in {0, 1}  BY DEF Unmarked
  <1> HIDE DEF Unmarked
  <1>8. /\ Len(stream') \in Nat
        /\ Len(stream') + Unmarked + faults <= Len(stream) + Unmarked' + faults'
    BY <1>0, <1>2, <1>3, <1>5, <1>6, <1>7
  <1>9. PublishedRecords' = PublishedRecords  BY <1>1 DEF PublishedRecords
  <1> QED  BY <1>8, <1>9, PaidFrame

LEMMA NextPaid ==
    ASSUME SingleRelay, TypeInv, HandInv, PaidInv, [Next]_vars PROVE PaidInv'
  <1>0. /\ Len(stream) \in Nat /\ faults \in Nat /\ faults' \in Nat /\ faults <= faults'
        /\ relayPc \in [Relays -> {"idle", "publish", "mark", "exited"}]
    BY HistoryGrows, LenProperties DEF TypeInv, TypeOK, StreamTypeOK, RelayTypeOK
  <1>1. \A y \in Relays : \A r \in relayBatch'[y] : outbox'[r].status = "PENDING"
    <2> SUFFICES ASSUME NEW y \in Relays, NEW r \in relayBatch'[y]
                 PROVE  outbox'[r].status = "PENDING"
      OBVIOUS
    <2>0. relayBatch[y] \subseteq 1 .. Len(outbox)  BY DEF TypeInv, TypeOK, RelayTypeOK
    <2>1. CASE RelayMark(y)
      <3>1. r \in relayBatch[y] /\ r # relayRecord[y]
        BY <2>1 DEF RelayMark, RelayGoto, TypeInv, TypeOK, RelayTypeOK
      <3>2. PICK x \in 1 .. Len(outbox) :
              x = relayRecord[y] /\ (MarkRecord(x) \/ outbox' = outbox)
        BY <2>1 DEF RelayMark, TypeInv, WhereOK
      <3>3. outbox'[r] = outbox[r]  BY <2>0, <3>1, <3>2, MarkFacts
      <3> QED  BY <3>1, <3>3 DEF PaidInv
    <2>2. CASE ~RelayMark(y)
      <3>1. \A k \in Committed : outbox'[k] = outbox[k]
        BY <2>2, MarksOnly DEF SingleRelay
      <3>2. r \in relayBatch[y] \/ r \in FirstOf(PendingRecords, RelayBatchSize)
        BY <2>2, RelaySteps
      <3>3. r \in Committed /\ outbox[r].status = "PENDING"
        BY <2>0, <3>2 DEF FirstOf, PendingRecords, PaidInv, Committed
      <3> QED  BY <3>1, <3>3
    <2> QED  BY <2>1, <2>2
  <1>2. (Len(stream) <= Cardinality(PublishedRecords) + Unmarked + faults)'
    <2>1. CASE \E y \in Relays : RelayMark(y)  BY <2>1, RelayMarkPaid
    <2>2. CASE \E y \in Relays : RelayPublish(y)  BY <2>2, RelayPublishPaid
    <2>3. CASE ~ \E y \in Relays : RelayMark(y) \/ RelayPublish(y)
      <3>1. PublishedRecords' = PublishedRecords  BY <2>3, MarksOnly
      <3>2. Len(stream') \in Nat /\ Len(stream') <= Len(stream)
        <4>1. CASE stream' = stream  BY <1>0, <4>1
        <4>2. CASE Restart \/ Crash
          BY <1>0, <4>2, EmptySeq DEF Restart, Crash, NewProcess, streamVars
        <4> QED  BY <2>3, <4>1, <4>2, StreamSteps
      <3>3. Unmarked \in {0, 1} /\ Unmarked' \in {0, 1}  BY DEF Unmarked
      <3>4. Unmarked = 0 \/ Unmarked' = 1 \/ faults' = faults + 1
        <4>1. CASE Shutdown \/ Crash  BY <4>1 DEF Shutdown, Crash, Fault
        <4>2. CASE Restart \/ \E y \in Relays : RelayExit(y)
          BY <4>2 DEF Restart, RelayExit, Unmarked
        <4>3. CASE \E y \in Relays : RelayFetch(y) \/ RelayPoll(y)
          BY <4>3 DEF RelayFetch, RelayPoll, Unmarked, SingleRelay
        <4>4. CASE ~(Shutdown \/ Crash \/ Restart \/ \E y \in Relays : Relay(y))
          <5>1. UNCHANGED <<relayVars, cancelled>>
            <6>1. CASE \E c \in Consumers : Process(c)  BY <6>1, PassesAreApart
            <6>2. CASE ~ \E c \in Consumers : Process(c)
              BY <4>4, <6>2, ApiFrame DEF Next, ApiLeavesAlone, ReadEvents, Claim, AutoClaim,
                                          Quarantine, vars
            <6> QED  BY <6>1, <6>2
          <5>2. Unmarked' = Unmarked  BY <5>1 DEF Unmarked, relayVars
          <5> QED  BY <3>3, <5>2
        <4> QED  BY <2>3, <4>1, <4>2, <4>3, <4>4 DEF Relay
      <3> HIDE DEF Unmarked
      <3>5. Len(stream') + Unmarked + faults <= Len(stream) + Unmarked' + faults'
        BY <1>0, <3>2, <3>3, <3>4
      <3> QED  BY <3>1, <3>2, <3>5, PaidFrame
    <2> QED  BY <2>1, <2>2, <2>3
  <1> QED  BY <1>1, <1>2 DEF PaidInv

LEMMA PaidIsEnough == ASSUME TypeInv, HandInv, PaidInv PROVE DuplicatesArePaidFor
  <1> DEFINE k == Cardinality(PublishedRecords)
             n == Cardinality(Committed)
  <1>1. Len(stream) \in Nat /\ faults \in Nat /\ k \in Nat /\ n \in Nat
    BY LenProperties, CountPublished DEF TypeInv, TypeOK, StreamTypeOK, ProcessTypeOK
  <1>2. k + Unmarked <= n
    <2>1. CASE \E y \in Relays : relayPc[y] = "mark"
      <3>1. PICK x \in Committed : outbox[x].status = "PENDING"
        BY <2>1 DEF HandInv, PaidInv
      <3>2. x \notin PublishedRecords /\ PublishedRecords \cup {x} \subseteq Committed
        BY <3>1, CountPublished DEF PublishedRecords
      <3>3. Cardinality(PublishedRecords \cup {x}) = k + 1
        BY <3>2, CountPublished, FS_AddElement
      <3>4. Cardinality(PublishedRecords \cup {x}) <= n
        BY <3>2, CountPublished, FS_Subset
      <3>5. Unmarked \in {0, 1}  BY DEF Unmarked
      <3> HIDE DEF k, n
      <3> QED  BY <1>1, <3>3, <3>4, <3>5
    <2>2. CASE ~ \E y \in Relays : relayPc[y] = "mark"
      <3>1. Unmarked = 0  BY <2>2 DEF Unmarked
      <3>2. k <= n  BY CountPublished, FS_Subset
      <3> HIDE DEF k, n
      <3> QED  BY <1>1, <3>1, <3>2
    <2> QED  BY <2>1, <2>2
  <1>3. Len(stream) <= k + Unmarked + faults /\ Unmarked \in {0, 1}
    BY DEF PaidInv, Unmarked
  <1> HIDE DEF Unmarked, k, n
  <1>4. Len(stream) <= n + faults  BY <1>1, <1>2, <1>3
  <1> QED  BY <1>4 DEF DuplicatesArePaidFor, n

LEMMA InitPaid == ASSUME Init PROVE PaidInv
  <1>1. Len(stream) = 0 /\ faults = 0 /\ \A y \in Relays : relayBatch[y] = {}
    BY EmptySeq DEF Init
  <1>2. Cardinality(PublishedRecords) \in Nat  BY InitTypeInv, CountPublished
  <1>3. Unmarked = 0  BY DEF Init, Unmarked
  <1> QED  BY <1>1, <1>2, <1>3 DEF PaidInv

\* A single relay adds a second message for a record only after a failure: the stream never
\* has more messages than committed records and failures so far, for every batch size and
\* every place a publish, a mark or the process can fail, in memory or in Redis.
THEOREM DuplicatesNeedFailures == ASSUME SingleRelay PROVE Spec => []DuplicatesArePaidFor
  <1>1. Init => PaidInv  BY InitPaid
  <1>2. (TypeInv /\ HandInv) /\ PaidInv /\ [Next]_vars => PaidInv'  BY NextPaid
  <1>3. (TypeInv /\ HandInv) /\ PaidInv => DuplicatesArePaidFor  BY PaidIsEnough
  <1> QED  BY <1>1, <1>2, <1>3, HandInvariant, PTL DEF Spec

(***************************************************************************)
(* The stream is a consumer group                                          *)
(***************************************************************************)

LEMMA StepTo ==
    ASSUME NEW N \in Nat, NEW i \in Nat, NEW j \in Nat, i < j, j <= N
    PROVE  \E n \in 1 .. N - i : i + n = j
  <1>1. j - i \in 1 .. N - i /\ i + (j - i) = j  OBVIOUS
  <1> QED  BY <1>1

\* A read takes the next messages of the group, without a gap.
LEMMA ReadIsGive ==
    ASSUME TypeInv, trimmed = 0, NEW w \in Workers, ReadEvents(w)
    PROVE  \E n \in 1 .. Len(stream) - lastDelivered : Group!Give(n)
  <1> DEFINE msgs == FirstOf(Unread, BatchSize)
  <1>1. msgs \subseteq lastDelivered + 1 .. lastDelivered'  BY ReadIsNew
  <1>2. /\ lastDelivered' \in msgs /\ pel' = pel \cup msgs /\ stream' = stream
    BY DEF ReadEvents
  <1>3. Len(stream) \in Nat /\ BatchSize \in Nat /\ Unread \in SUBSET (1 .. Len(stream))
    BY LenProperties, ConstantsAssumption DEF TypeInv, TypeOK, StreamTypeOK, Unread
  <1>4. /\ lastDelivered \in Nat /\ lastDelivered' \in Nat
        /\ lastDelivered < lastDelivered' /\ lastDelivered' <= Len(stream)
    BY <1>2, <1>3, ReadIsNew DEF FirstOf
  <1>5. lastDelivered + 1 .. lastDelivered' \subseteq msgs
    <2>1. \A m \in lastDelivered + 1 .. lastDelivered' : m \in Unread /\ m <= lastDelivered'
      BY <1>3, <1>4 DEF Unread
    <2> QED  BY <1>2, <1>3, <2>1, FirstOfIsLower
  <1> HIDE DEF msgs
  <1>6. msgs = lastDelivered + 1 .. lastDelivered'  BY <1>1, <1>5
  <1>7. PICK n \in 1 .. Len(stream) - lastDelivered : lastDelivered + n = lastDelivered'
    BY <1>3, <1>4, StepTo
  <1>8. Group!Give(n)  BY <1>2, <1>6, <1>7 DEF Group!Give
  <1> QED  BY <1>8

LEMMA StepIsGroupStep ==
    ASSUME DurableQueue, MaxLen = 0, TypeInv, trimmed = 0, [Next]_vars
    PROVE  [Group!Next]_Group!vars /\ trimmed' = 0
  <1>1. CASE \E y \in Relays : RelayPublish(y)
    <2>1. PICK r \in 1 .. Len(outbox) : XAdd(r) \/ UNCHANGED streamVars
      BY <1>1 DEF RelayPublish, TypeInv, TypeOK, RelayTypeOK
    <2>2. CASE UNCHANGED streamVars  BY <2>2 DEF streamVars, Group!vars
    <2>3. CASE XAdd(r)
      <3>1. /\ Len(stream') = Len(stream) + 1
            /\ \A m \in 1 .. Len(stream) : stream'[m] = stream[m]
        BY <2>3, XAddFacts
      <3>2. Group!Add  BY <2>3, <3>1 DEF XAdd, Group!Add
      <3>3. trimmed' = 0  BY <2>3 DEF XAdd
      <3> QED  BY <3>2, <3>3 DEF Group!Next
    <2> QED  BY <2>1, <2>2, <2>3
  <1>2. CASE \E w \in Workers : ReadEvents(w)
    <2>1. trimmed' = 0  BY <1>2 DEF ReadEvents
    <2> QED  BY <1>2, <2>1, ReadIsGive DEF Group!Next
  <1>3. CASE Claim
    <2>1. PICK idle \in SUBSET pel : AutoClaim(idle)  BY <1>3 DEF Claim
    <2>2. {m \in idle : m > trimmed} = idle
      <3>1. \A m \in idle : m \in Nat /\ m > 0
        BY LenProperties DEF TypeInv, TypeOK, StreamTypeOK
      <3> QED  BY <3>1
    <2>3. UNCHANGED streamVars  BY <2>1, <2>2 DEF AutoClaim, streamVars
    <2> QED  BY <2>3 DEF streamVars, Group!vars
  <1>4. CASE \E c \in Consumers : AckEvent(c)
    <2>1. PICK c \in Consumers : AckEvent(c)  BY <1>4
    <2>2. UNCHANGED <<stream, trimmed, lastDelivered>> /\ (pel' = pel \/ pel' = pel \ {cur[c]})
      BY <2>1 DEF AckEvent
    <2>3. CASE pel' = pel  BY <2>2, <2>3 DEF Group!vars
    <2>4. CASE pel' # pel
      <3>1. PICK m \in pel : pel' = pel \ {m}  BY <2>2, <2>4
      <3>2. Group!Done({m})  BY <2>2, <3>1 DEF Group!Done
      <3> QED  BY <2>2, <3>2 DEF Group!Next
    <2> QED  BY <2>3, <2>4
  <1>5. CASE ~ \/ \E y \in Relays : RelayPublish(y)
               \/ \E w \in Workers : ReadEvents(w)
               \/ Claim
               \/ \E c \in Consumers : AckEvent(c)
    <2>1. UNCHANGED streamVars
      BY <1>5, ApiFrame
      DEF Next, ApiLeavesAlone, Relay, RelayFetch,
                  RelayPoll, RelayMark, RelayExit, Process, NextMessage, Fence, Resolve, Post,
                  Record, Update, Abort, ConsumerExit, Quarantine, Shutdown, Restart, Crash,
                  NewProcess, vars
    <2> QED  BY <2>1 DEF streamVars, Group!vars
  <1> QED  BY <1>1, <1>2, <1>3, <1>4, <1>5

\* A stream in Redis that is not trimmed implements the consumer group that the queue in
\* memory implements as well: each message is given out once and in order, and is pending
\* until it is acknowledged, through lost answers, reclaims, crashes and restarts.
THEOREM StreamIsGroup == ASSUME DurableQueue, MaxLen = 0 PROVE Spec => KeepsGroup
  <1>1. Init => Group!Init /\ TypeInv /\ trimmed = 0
    BY InitTypeInv DEF Init, Group!Init
  <1>2. TypeInv /\ trimmed = 0 /\ [Next]_vars =>
           [Group!Next]_Group!vars /\ (TypeInv /\ trimmed = 0)'
    BY StepIsGroupStep, NextType
  <1> QED  BY <1>1, <1>2, PTL DEF Spec, KeepsGroup, Group!Spec

=============================================================================
