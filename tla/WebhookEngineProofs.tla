------------------------- MODULE WebhookEngineProofs -------------------------
(***************************************************************************)
(* Proofs about WebhookEngine, for every value of its constants:           *)
(*   - the variables keep their types (TypeInv);                           *)
(*   - relays have only committed records in hand (HandInv);               *)
(*   - a status is written on evidence (EvidenceInv) and reopened from the *)
(*     DLQ only (KnownInv), which makes the pipeline an implementation of  *)
(*     DeliveryPromise;                                                    *)
(*   - a message is held by one worker (GroupInv);                         *)
(*   - the claim ceiling needs failures (CeilingInv).                      *)
(***************************************************************************)
EXTENDS WebhookEngine, SequenceTheorems, TLAPS

\* What the program counters say of the state they go with.
WhereOK ==
    /\ \A y \in Relays : relayPc[y] = "mark" => relayRecord[y] \in 1 .. Len(outbox)
    /\ \A c \in Consumers :
        /\ pc[c] \in Busy \cup {"ack"} => cur[c] \in 1 .. Len(stream)
        /\ pc[c] \in {"post", "record", "update"} => ep[c] \in Endpoints
        /\ pc[c] \in {"record", "update"} => verdict[c] \in Verdicts

TypeInv == TypeOK /\ WhereOK

USE DEF Final, Verdicts, Busy, Positions, NoEndpoint

LEMMA InitTypeInv == ASSUME Init PROVE TypeInv
  <1> USE ConstantsAssumption DEF Init, TypeInv, TypeOK
  <1>1. RepoTypeOK  BY DEF RepoTypeOK
  <1>2. StreamTypeOK  BY DEF StreamTypeOK
  <1>3. RelayTypeOK  BY DEF RelayTypeOK
  <1>4. ConsumerTypeOK  BY DEF ConsumerTypeOK
  <1>5. DispatchTypeOK  BY DEF DispatchTypeOK
  <1>6. ProcessTypeOK  BY DEF ProcessTypeOK
  <1>7. WhereOK  BY DEF WhereOK
  <1> QED  BY <1>1, <1>2, <1>3, <1>4, <1>5, <1>6, <1>7

(***************************************************************************)
(* What the appends and updates of the outbox and the stream do            *)
(***************************************************************************)

\* An outbox record as the steps of its life leave it.
Inserted(e)    == [event |-> e, status |-> "UNCOMMITTED", late |-> {}]
CommittedAs(r) == [event |-> outbox[r].event, status |-> "PENDING",
                   late |-> {q \in Fetched : q > r}]
Aborted(rec)   == [event |-> rec.event, status |-> "ABORTED", late |-> rec.late]
Marked(rec)    == [event |-> rec.event, status |-> "PUBLISHED", late |-> rec.late]

LEMMA MarkFacts ==
    ASSUME TypeInv, NEW r \in 1 .. Len(outbox), MarkRecord(r)
    PROVE  /\ outbox' \in Seq(OutboxRecords)
           /\ Len(outbox') = Len(outbox)
           /\ \A k \in 1 .. Len(outbox) :
                 outbox'[k] = IF k = r THEN Marked(outbox[r]) ELSE outbox[k]
  <1> DEFINE rec == Marked(outbox[r])
  <1>1. outbox \in Seq(OutboxRecords)  BY DEF TypeInv, TypeOK, RepoTypeOK
  <1>2. outbox[r] \in OutboxRecords  BY <1>1, ElementOfSeq
  <1>3. rec \in OutboxRecords  BY <1>2 DEF OutboxRecords, OutboxStatus, Marked
  <1>4. outbox' = [outbox EXCEPT ![r] = rec]
    <2>1. [outbox[r] EXCEPT !.status = "PUBLISHED"] = rec  BY <1>2 DEF OutboxRecords, Marked
    <2>2. outbox' = [outbox EXCEPT ![r] = [outbox[r] EXCEPT !.status = "PUBLISHED"]]
      BY DEF MarkRecord
    <2>3. QED  BY <2>1, <2>2
  <1> HIDE DEF rec
  <1>5. /\ outbox' \in Seq(OutboxRecords)
        /\ Len(outbox') = Len(outbox)
        /\ \A k \in 1 .. Len(outbox) : outbox'[k] = IF k = r THEN rec ELSE outbox[k]
    BY <1>1, <1>3, <1>4, ExceptSeq
  <1> QED  BY <1>5 DEF rec

LEMMA InsertFacts ==
    ASSUME TypeInv, NEW e \in Events, InsertRecord(e)
    PROVE  /\ outbox' \in Seq(OutboxRecords)
           /\ Len(outbox') = Len(outbox) + 1
           /\ \A k \in 1 .. Len(outbox) : outbox'[k] = outbox[k]
           /\ outbox'[Len(outbox) + 1] = Inserted(e)
  <1>1. outbox \in Seq(OutboxRecords)  BY DEF TypeInv, TypeOK, RepoTypeOK
  <1>2. Inserted(e) \in OutboxRecords  BY DEF Inserted, OutboxRecords, OutboxStatus
  <1>3. outbox' = Append(outbox, Inserted(e))  BY DEF InsertRecord, Inserted
  <1> QED  BY <1>1, <1>2, <1>3, AppendProperties

LEMMA FetchedType == ASSUME TypeInv PROVE Fetched \subseteq Nat
  <1>1. stream \in Seq(Messages) /\ Len(outbox) \in Nat
    BY LenProperties DEF TypeInv, TypeOK, StreamTypeOK, RepoTypeOK
  <1>2. \A m \in 1 .. Len(stream) : stream[m].record \in Nat
    <2>1. \A m \in 1 .. Len(stream) : stream[m] \in Messages  BY <1>1, ElementOfSeq
    <2> QED  BY <2>1 DEF Messages
  <1>3. \A y \in Relays : relayBatch[y] \subseteq 1 .. Len(outbox)
    BY DEF TypeInv, TypeOK, RelayTypeOK
  <1> QED  BY <1>1, <1>2, <1>3 DEF Fetched

\* The records of a transaction change together, the others not at all.
LEMMA RewriteFacts ==
    ASSUME TypeInv, NEW S, NEW f, \A k \in 1 .. Len(outbox) : f[k] \in OutboxRecords,
           outbox' = [k \in DOMAIN outbox |-> IF k \in S THEN f[k] ELSE outbox[k]]
    PROVE  /\ outbox' \in Seq(OutboxRecords)
           /\ Len(outbox') = Len(outbox)
           /\ \A k \in 1 .. Len(outbox) : outbox'[k] = IF k \in S THEN f[k] ELSE outbox[k]
  <1>1. outbox \in Seq(OutboxRecords)  BY DEF TypeInv, TypeOK, RepoTypeOK
  <1>2. /\ Len(outbox) \in Nat /\ DOMAIN outbox = 1 .. Len(outbox)
        /\ \A k \in 1 .. Len(outbox) : outbox[k] \in OutboxRecords
    BY <1>1, LenProperties, ElementOfSeq
  <1>3. outbox' \in [1 .. Len(outbox) -> OutboxRecords]  BY <1>2
  <1>4. outbox' \in Seq(OutboxRecords) /\ Len(outbox') = Len(outbox)
    BY <1>2, <1>3, IsASeq, LenProperties
  <1> QED  BY <1>2, <1>4

LEMMA CommitFacts ==
    ASSUME TypeInv, NEW S \in SUBSET OpenRecords, Commit(S)
    PROVE  /\ outbox' \in Seq(OutboxRecords)
           /\ Len(outbox') = Len(outbox)
           /\ \A k \in 1 .. Len(outbox) :
                 outbox'[k] = IF k \in S THEN CommittedAs(k) ELSE outbox[k]
  <1> DEFINE f == [k \in 1 .. Len(outbox) |-> CommittedAs(k)]
  <1>1. outbox \in Seq(OutboxRecords)  BY DEF TypeInv, TypeOK, RepoTypeOK
  <1>2. ASSUME NEW k \in 1 .. Len(outbox) PROVE CommittedAs(k) \in OutboxRecords
    <2>1. outbox[k] \in OutboxRecords  BY <1>1, ElementOfSeq
    <2>2. {q \in Fetched : q > k} \in SUBSET Nat  BY FetchedType
    <2> QED  BY <2>1, <2>2 DEF CommittedAs, OutboxRecords, OutboxStatus
  <1>3. outbox' = [k \in DOMAIN outbox |-> IF k \in S THEN f[k] ELSE outbox[k]]
    <2>1. DOMAIN outbox = 1 .. Len(outbox)  BY <1>1, LenProperties
    <2>2. outbox' = [k \in DOMAIN outbox |-> IF k \in S THEN CommittedAs(k) ELSE outbox[k]]
      BY DEF Commit, CommittedAs
    <2> QED  BY <2>1, <2>2
  <1>4. \A k \in 1 .. Len(outbox) : f[k] \in OutboxRecords /\ f[k] = CommittedAs(k)  BY <1>2
  <1> HIDE DEF f
  <1>5. PICK g : g = f  OBVIOUS
  <1>6. \A k \in 1 .. Len(outbox) : g[k] \in OutboxRecords  BY <1>4, <1>5
  <1>7. outbox' = [k \in DOMAIN outbox |-> IF k \in S THEN g[k] ELSE outbox[k]]
    BY <1>3, <1>5
  <1>8. /\ outbox' \in Seq(OutboxRecords)
        /\ Len(outbox') = Len(outbox)
        /\ \A k \in 1 .. Len(outbox) : outbox'[k] = IF k \in S THEN g[k] ELSE outbox[k]
    BY <1>6, <1>7, RewriteFacts, Zenon
  <1> QED  BY <1>4, <1>5, <1>8

LEMMA RollbackFacts ==
    ASSUME TypeInv, NEW S \in SUBSET OpenRecords, Rollback(S)
    PROVE  /\ outbox' \in Seq(OutboxRecords)
           /\ Len(outbox') = Len(outbox)
           /\ \A k \in 1 .. Len(outbox) :
                 outbox'[k] = IF k \in S THEN Aborted(outbox[k]) ELSE outbox[k]
  <1> DEFINE f == [k \in 1 .. Len(outbox) |-> Aborted(outbox[k])]
  <1>1. outbox \in Seq(OutboxRecords)  BY DEF TypeInv, TypeOK, RepoTypeOK
  <1>2. ASSUME NEW k \in 1 .. Len(outbox)
        PROVE  /\ Aborted(outbox[k]) \in OutboxRecords
               /\ [outbox[k] EXCEPT !.status = "ABORTED"] = Aborted(outbox[k])
    <2>1. outbox[k] \in OutboxRecords  BY <1>1, ElementOfSeq
    <2> QED  BY <2>1 DEF Aborted, OutboxRecords, OutboxStatus
  <1>3. outbox' = [k \in DOMAIN outbox |-> IF k \in S THEN f[k] ELSE outbox[k]]
    <2>1. DOMAIN outbox = 1 .. Len(outbox)  BY <1>1, LenProperties
    <2>2. outbox' = [k \in DOMAIN outbox |->
                        IF k \in S THEN [outbox[k] EXCEPT !.status = "ABORTED"] ELSE outbox[k]]
      BY DEF Rollback
    <2> QED  BY <1>2, <2>1, <2>2
  <1>4. \A k \in 1 .. Len(outbox) : f[k] \in OutboxRecords /\ f[k] = Aborted(outbox[k])
    BY <1>2
  <1> HIDE DEF f
  <1>5. PICK g : g = f  OBVIOUS
  <1>6. \A k \in 1 .. Len(outbox) : g[k] \in OutboxRecords  BY <1>4, <1>5
  <1>7. outbox' = [k \in DOMAIN outbox |-> IF k \in S THEN g[k] ELSE outbox[k]]
    BY <1>3, <1>5
  <1>8. /\ outbox' \in Seq(OutboxRecords)
        /\ Len(outbox') = Len(outbox)
        /\ \A k \in 1 .. Len(outbox) : outbox'[k] = IF k \in S THEN g[k] ELSE outbox[k]
    BY <1>6, <1>7, RewriteFacts, Zenon
  <1> QED  BY <1>4, <1>5, <1>8

LEMMA XAddFacts ==
    ASSUME TypeInv, NEW r \in 1 .. Len(outbox), XAdd(r)
    PROVE  /\ StreamTypeOK'
           /\ Len(stream') = Len(stream) + 1
           /\ \A m \in 1 .. Len(stream) : stream'[m] = stream[m]
           /\ stream'[Len(stream) + 1] = [event |-> outbox[r].event, record |-> r]
  <1> DEFINE msg == [event |-> outbox[r].event, record |-> r]
  <1>1. stream \in Seq(Messages) /\ outbox \in Seq(OutboxRecords)
    BY DEF TypeInv, TypeOK, StreamTypeOK, RepoTypeOK
  <1>2. outbox[r] \in OutboxRecords  BY <1>1, ElementOfSeq
  <1>3. msg \in Messages  BY <1>1, <1>2, LenProperties DEF OutboxRecords, Messages
  <1>4. stream' = Append(stream, msg)  BY DEF XAdd
  <1> HIDE DEF msg
  <1>5. /\ stream' \in Seq(Messages)
        /\ Len(stream') = Len(stream) + 1
        /\ \A m \in 1 .. Len(stream) : stream'[m] = stream[m]
        /\ stream'[Len(stream) + 1] = msg
    BY <1>1, <1>3, <1>4, AppendProperties
  <1>6. Len(stream) \in Nat  BY <1>1, LenProperties
  <1>7. trimmed' \in 0 .. Len(stream) + 1
    BY <1>6, ConstantsAssumption DEF XAdd, TypeInv, TypeOK, StreamTypeOK
  <1>8. StreamTypeOK'
    BY <1>5, <1>6, <1>7 DEF XAdd, TypeInv, TypeOK, StreamTypeOK
  <1> QED  BY <1>5, <1>8 DEF msg

\* The event of a message in hand is one of the events.
LEMMA EventInHand ==
    ASSUME TypeInv, NEW c \in Consumers, pc[c] \in Busy \cup {"ack"}
    PROVE  cur[c] \in 1 .. Len(stream) /\ EventOf(c) \in Events
  <1>1. cur[c] \in 1 .. Len(stream) /\ stream \in Seq(Messages)
    BY DEF TypeInv, TypeOK, StreamTypeOK, WhereOK
  <1>2. stream[cur[c]] \in Messages  BY <1>1, ElementOfSeq
  <1> QED  BY <1>1, <1>2 DEF EventOf, Messages


\* Moving on to another endpoint, or returning, keeps the dispatch variables typed
\* and leaves the consumer at a place it may be.
DispatchWhereOK ==
    \A c \in Consumers :
        /\ pc[c] \in {"post", "record", "update"} => ep[c] \in Endpoints
        /\ pc[c] \in {"record", "update"} => verdict[c] \in Verdicts

LEMMA StartEndpointType ==
    ASSUME TypeInv, NEW c \in Consumers, NEW S \in SUBSET Endpoints, StartEndpoint(c, S)
    PROVE  /\ DispatchTypeOK' /\ DispatchWhereOK'
           /\ pc' = [pc EXCEPT ![c] = "post"]
  <1>1. PICK t \in S :
          /\ ep' = [ep EXCEPT ![c] = t]
          /\ targets' = [targets EXCEPT ![c] = S \ {t}]
          /\ attemptNum' = [attemptNum EXCEPT ![c] = 1]
          /\ verdict' = [verdict EXCEPT ![c] = "NONE"]
          /\ pc' = [pc EXCEPT ![c] = "post"]
    BY DEF StartEndpoint, Goto
  <1>2. DispatchTypeOK'  BY <1>1 DEF TypeInv, TypeOK, DispatchTypeOK
  <1>3. DispatchWhereOK'
    BY <1>1 DEF TypeInv, TypeOK, DispatchTypeOK, ConsumerTypeOK, WhereOK, DispatchWhereOK
  <1> QED  BY <1>1, <1>2, <1>3

LEMMA ReturnType ==
    ASSUME TypeInv, NEW c \in Consumers, Return(c)
    PROVE  /\ DispatchTypeOK' /\ DispatchWhereOK'
           /\ pc' = [pc EXCEPT ![c] = "ack"]
  BY DEF Return, Goto, TypeInv, TypeOK, DispatchTypeOK, ConsumerTypeOK, WhereOK, DispatchWhereOK

LEMMA NextEndpointType ==
    ASSUME TypeInv, NEW c \in Consumers, NextEndpoint(c)
    PROVE  /\ DispatchTypeOK' /\ DispatchWhereOK'
           /\ pc' = [pc EXCEPT ![c] = "post"] \/ pc' = [pc EXCEPT ![c] = "ack"]
  <1>1. targets[c] \in SUBSET Endpoints  BY DEF TypeInv, TypeOK, DispatchTypeOK
  <1> QED  BY <1>1, StartEndpointType, ReturnType DEF NextEndpoint

LEMMA RetryOrMoveOnType ==
    ASSUME TypeInv, NEW c \in Consumers, RetryOrMoveOn(c), pc[c] = "record"
    PROVE  /\ DispatchTypeOK' /\ DispatchWhereOK'
           /\ pc' = [pc EXCEPT ![c] = "post"] \/ pc' = [pc EXCEPT ![c] = "ack"]
  <1>1. CASE verdict[c] = "RETRYING" /\ attemptNum[c] + 1 <= MaxRetries
    <2>1. /\ attemptNum' = [attemptNum EXCEPT ![c] = attemptNum[c] + 1]
          /\ verdict' = [verdict EXCEPT ![c] = "NONE"]
          /\ pc' = [pc EXCEPT ![c] = "post"]
          /\ UNCHANGED <<targets, ep>>
      BY <1>1 DEF RetryOrMoveOn, Goto
    <2>2. DispatchTypeOK'  BY <2>1 DEF TypeInv, TypeOK, DispatchTypeOK
    <2>3. DispatchWhereOK'
      BY <2>1 DEF TypeInv, TypeOK, DispatchTypeOK, ConsumerTypeOK, WhereOK, DispatchWhereOK
    <2>4. QED  BY <2>1, <2>2, <2>3
  <1>2. CASE ~(verdict[c] = "RETRYING" /\ attemptNum[c] + 1 <= MaxRetries)
    BY <1>2, NextEndpointType DEF RetryOrMoveOn
  <1> QED  BY <1>1, <1>2

\* Assembles WhereOK after a step of a consumer that is dispatching.
LEMMA DispatchStepWhere ==
    ASSUME TypeInv, NEW c \in Consumers, pc[c] \in Busy,
           DispatchWhereOK', NEW where, pc' = [pc EXCEPT ![c] = where],
           UNCHANGED <<outbox, relayVars, stream, cur>>
    PROVE  WhereOK'
  <1>1. \A y \in Relays : relayPc'[y] = "mark" => relayRecord'[y] \in 1 .. Len(outbox')
    BY DEF TypeInv, WhereOK, relayVars
  <1>2. \A d \in Consumers : pc'[d] \in Busy \cup {"ack"} => cur'[d] \in 1 .. Len(stream')
    BY DEF TypeInv, TypeOK, ConsumerTypeOK, WhereOK
  <1> QED  BY <1>1, <1>2 DEF WhereOK, DispatchWhereOK

LEMMA NewProcessType == ASSUME TypeInv, NewProcess, faults' \in Nat PROVE TypeInv'
  <1>1. UNCHANGED <<repoVars, received>>  BY DEF NewProcess
  <1>2. Len(stream') \in Nat /\ StreamTypeOK'
    <2>1. CASE DurableQueue
      BY <2>1, LenProperties DEF NewProcess, streamVars, TypeInv, TypeOK, StreamTypeOK
    <2>2. CASE ~DurableQueue
      <3>1. stream' = << >> /\ trimmed' = 0 /\ lastDelivered' = 0 /\ pel' = {}
        BY <2>2 DEF NewProcess
      <3>2. stream' \in Seq(Messages) /\ Len(stream') = 0  BY <3>1, EmptySeq
      <3>3. QED  BY <3>1, <3>2 DEF StreamTypeOK
    <2>3. QED  BY <2>1, <2>2
  <1>3. Len(outbox) \in Nat  BY LenProperties DEF TypeInv, TypeOK, RepoTypeOK
  <1>4. RepoTypeOK' /\ RelayTypeOK'
    BY <1>1, <1>3 DEF NewProcess, repoVars, TypeInv, TypeOK, RepoTypeOK, RelayTypeOK
  <1>5. ConsumerTypeOK' /\ DispatchTypeOK'
    BY <1>2 DEF NewProcess, ConsumerTypeOK, DispatchTypeOK
  <1>6. ProcessTypeOK'  BY <1>2 DEF NewProcess, ProcessTypeOK
  <1>7. WhereOK'  BY DEF NewProcess, WhereOK
  <1> QED  BY <1>2, <1>4, <1>5, <1>6, <1>7 DEF TypeInv, TypeOK

(***************************************************************************)
(* Type correctness: one lemma per action                                  *)
(***************************************************************************)

\* The transactions of the API write PostgreSQL alone.
ApiLeavesAlone == <<attempts, streamVars, relayVars, consumerVars, cancelled, faults, received>>

LEMMA ApiFrame == ASSUME Api PROVE UNCHANGED ApiLeavesAlone
  BY DEF Api, CreateEventWithOutbox, ReplayDLQEvents, InsertRecord, Commit, Rollback,
         RegisterEndpoint, ApiLeavesAlone

\* A step of a transaction.
LEMMA TransactionType ==
    ASSUME TypeInv, UNCHANGED <<endpoints, ApiLeavesAlone>>, outbox' \in Seq(OutboxRecords),
           Len(outbox') \in {Len(outbox), Len(outbox) + 1},
           status' \in [Events -> {"NONE", "PENDING"} \cup Final]
    PROVE  TypeInv'
  <1> USE DEF TypeInv, TypeOK, ApiLeavesAlone, streamVars, relayVars, consumerVars, dispatchVars
  <1>1. RepoTypeOK'  BY DEF RepoTypeOK
  <1>2. StreamTypeOK'  BY DEF StreamTypeOK
  <1>3. Len(outbox) \in Nat  BY LenProperties DEF RepoTypeOK
  <1>4. RelayTypeOK'  BY <1>3 DEF RelayTypeOK
  <1>5. ConsumerTypeOK' /\ DispatchTypeOK' /\ ProcessTypeOK'
    BY DEF ConsumerTypeOK, DispatchTypeOK, ProcessTypeOK
  <1>6. WhereOK'  BY <1>3 DEF WhereOK
  <1> QED  BY <1>1, <1>2, <1>4, <1>5, <1>6

LEMMA InsertType == ASSUME TypeInv, NEW e \in Events, InsertRecord(e) PROVE TypeInv'
  <1>1. UNCHANGED <<status, endpoints, ApiLeavesAlone>>  BY DEF InsertRecord, ApiLeavesAlone
  <1>2. status' \in [Events -> {"NONE", "PENDING"} \cup Final]
    BY <1>1 DEF TypeInv, TypeOK, RepoTypeOK
  <1> QED  BY <1>1, <1>2, InsertFacts, TransactionType

LEMMA CommitType == ASSUME TypeInv, NEW S \in SUBSET OpenRecords, Commit(S) PROVE TypeInv'
  <1>1. UNCHANGED <<endpoints, ApiLeavesAlone>>  BY DEF Commit, ApiLeavesAlone
  <1>2. status' \in [Events -> {"NONE", "PENDING"} \cup Final]
    BY DEF Commit, TypeInv, TypeOK, RepoTypeOK
  <1> QED  BY <1>1, <1>2, CommitFacts, TransactionType

LEMMA RollbackType == ASSUME TypeInv, NEW S \in SUBSET OpenRecords, Rollback(S) PROVE TypeInv'
  <1>1. UNCHANGED <<status, endpoints, ApiLeavesAlone>>  BY DEF Rollback, ApiLeavesAlone
  <1>2. status' \in [Events -> {"NONE", "PENDING"} \cup Final]
    BY <1>1 DEF TypeInv, TypeOK, RepoTypeOK
  <1> QED  BY <1>1, <1>2, RollbackFacts, TransactionType

LEMMA RegisterEndpointType == ASSUME TypeInv, NEW t \in Endpoints, RegisterEndpoint(t) PROVE TypeInv'
  <1> USE ConstantsAssumption DEF TypeInv, TypeOK, Consumers, RegisterEndpoint,
          repoVars, streamVars, relayVars, consumerVars, dispatchVars
  <1>1. RepoTypeOK'  BY DEF RepoTypeOK
  <1>2. StreamTypeOK'  BY DEF StreamTypeOK
  <1>3. RelayTypeOK'  BY DEF RelayTypeOK, RepoTypeOK
  <1>4. ConsumerTypeOK'  BY DEF ConsumerTypeOK, StreamTypeOK
  <1>5. DispatchTypeOK'  BY DEF DispatchTypeOK
  <1>6. ProcessTypeOK'  BY DEF ProcessTypeOK, StreamTypeOK
  <1>7. WhereOK'  BY DEF WhereOK, RelayTypeOK, ConsumerTypeOK, DispatchTypeOK, StreamTypeOK
  <1> QED  BY <1>1, <1>2, <1>3, <1>4, <1>5, <1>6, <1>7

LEMMA RelayFetchType == ASSUME TypeInv, NEW y \in Relays, RelayFetch(y) PROVE TypeInv'
  <1> USE ConstantsAssumption DEF TypeInv, TypeOK, Consumers, RelayFetch, repoVars,
          streamVars, relayVars, consumerVars, dispatchVars, RelayGoto, FirstOf,
          PendingRecords
  <1>1. RepoTypeOK'  BY DEF RepoTypeOK
  <1>2. StreamTypeOK'  BY DEF StreamTypeOK
  <1>3. RelayTypeOK'  BY DEF RelayTypeOK, RepoTypeOK
  <1>4. ConsumerTypeOK'  BY DEF ConsumerTypeOK, StreamTypeOK
  <1>5. DispatchTypeOK'  BY DEF DispatchTypeOK
  <1>6. ProcessTypeOK'  BY DEF ProcessTypeOK, StreamTypeOK
  <1>7. WhereOK'  BY DEF WhereOK, RelayTypeOK, ConsumerTypeOK, DispatchTypeOK, StreamTypeOK
  <1> QED  BY <1>1, <1>2, <1>3, <1>4, <1>5, <1>6, <1>7

LEMMA RelayPublishType == ASSUME TypeInv, NEW y \in Relays, RelayPublish(y) PROVE TypeInv'
  <1>1. PICK r \in relayBatch[y] :
          \/ XAdd(r) /\ RelayGoto(y, "mark", relayBatch[y], r) /\ faults' = faults
          \/ /\ Fault("publish")
             /\ XAdd(r) \/ UNCHANGED streamVars
             /\ RelayGoto(y, "idle", {}, 0)
    BY DEF RelayPublish
  <1>2. r \in 1 .. Len(outbox)  BY DEF TypeInv, TypeOK, RelayTypeOK
  <1>3. Len(stream) \in Nat  BY LenProperties DEF TypeInv, TypeOK, StreamTypeOK
  <1>4. StreamTypeOK' /\ Len(stream') \in {Len(stream), Len(stream) + 1}
    BY <1>1, <1>2, XAddFacts DEF TypeInv, TypeOK, StreamTypeOK, streamVars
  <1>5. UNCHANGED <<repoVars, consumerVars, cancelled, received>>  BY DEF RelayPublish
  <1>6. RepoTypeOK' /\ DispatchTypeOK'
    BY <1>5 DEF TypeInv, TypeOK, RepoTypeOK, DispatchTypeOK, repoVars, consumerVars, dispatchVars
  <1>7. RelayTypeOK'
    BY <1>1, <1>2, <1>5 DEF TypeInv, TypeOK, RelayTypeOK, RelayGoto, repoVars
  <1>8. ConsumerTypeOK'
    BY <1>3, <1>4, <1>5 DEF TypeInv, TypeOK, ConsumerTypeOK, consumerVars
  <1>9. ProcessTypeOK'
    BY <1>1, <1>3, <1>4, <1>5 DEF TypeInv, TypeOK, ProcessTypeOK, consumerVars, Fault
  <1>10. WhereOK'
    <2>1. \A z \in Relays : relayPc'[z] = "mark" => relayRecord'[z] \in 1 .. Len(outbox')
      BY <1>1, <1>2, <1>5 DEF TypeInv, TypeOK, RelayTypeOK, WhereOK, RelayGoto, repoVars
    <2>2. QED  BY <2>1, <1>3, <1>4, <1>5 DEF TypeInv, WhereOK, consumerVars, dispatchVars
  <1> QED  BY <1>4, <1>6, <1>7, <1>8, <1>9, <1>10 DEF TypeInv, TypeOK

LEMMA RelayMarkType == ASSUME TypeInv, NEW y \in Relays, RelayMark(y) PROVE TypeInv'
  <1>1. relayRecord[y] \in 1 .. Len(outbox)  BY DEF RelayMark, TypeInv, WhereOK
  <1>2. MarkRecord(relayRecord[y]) \/ UNCHANGED outbox  BY DEF RelayMark
  <1>3. outbox' \in Seq(OutboxRecords) /\ Len(outbox') = Len(outbox)
    BY <1>1, <1>2, MarkFacts DEF TypeInv, TypeOK, RepoTypeOK
  <1>4. UNCHANGED <<status, attempts, endpoints, streamVars, consumerVars, cancelled, received>>
    BY DEF RelayMark
  <1>5. RepoTypeOK'  BY <1>3, <1>4 DEF TypeInv, TypeOK, RepoTypeOK
  <1>6. faults' \in Nat  BY DEF RelayMark, Fault, TypeInv, TypeOK, ProcessTypeOK
  <1>7. StreamTypeOK' /\ ConsumerTypeOK' /\ DispatchTypeOK' /\ ProcessTypeOK'
    BY <1>4, <1>6 DEF TypeInv, TypeOK, StreamTypeOK, ConsumerTypeOK, DispatchTypeOK,
                      ProcessTypeOK, streamVars, consumerVars, dispatchVars
  <1>8. \E where \in {"idle", "publish"}, recs \in SUBSET relayBatch[y] :
           RelayGoto(y, where, recs, 0)
    BY DEF RelayMark
  <1>9. RelayTypeOK' /\ \A z \in Relays : relayPc'[z] = "mark" => relayRecord'[z] \in 1 .. Len(outbox')
    BY <1>3, <1>8, LenProperties DEF TypeInv, TypeOK, RelayTypeOK, WhereOK, RelayGoto
  <1>10. WhereOK'
    BY <1>4, <1>9 DEF TypeInv, WhereOK, streamVars, consumerVars, dispatchVars
  <1> QED  BY <1>5, <1>7, <1>9, <1>10 DEF TypeInv, TypeOK

LEMMA RelayExitType == ASSUME TypeInv, NEW y \in Relays, RelayExit(y) PROVE TypeInv'
  <1> USE ConstantsAssumption DEF TypeInv, TypeOK, Consumers, RelayExit, repoVars,
          streamVars, relayVars, consumerVars, dispatchVars, RelayGoto
  <1>1. RepoTypeOK'  BY DEF RepoTypeOK
  <1>2. StreamTypeOK'  BY DEF StreamTypeOK
  <1>3. RelayTypeOK'  BY DEF RelayTypeOK, RepoTypeOK
  <1>4. ConsumerTypeOK'  BY DEF ConsumerTypeOK, StreamTypeOK
  <1>5. DispatchTypeOK'  BY DEF DispatchTypeOK
  <1>6. ProcessTypeOK'  BY DEF ProcessTypeOK, StreamTypeOK
  <1>7. WhereOK'  BY DEF WhereOK, RelayTypeOK, ConsumerTypeOK, DispatchTypeOK, StreamTypeOK
  <1> QED  BY <1>1, <1>2, <1>3, <1>4, <1>5, <1>6, <1>7

LEMMA ReadEventsType == ASSUME TypeInv, NEW c \in Workers, ReadEvents(c) PROVE TypeInv'
  <1> USE ConstantsAssumption DEF TypeInv, TypeOK, Consumers, ReadEvents, repoVars,
          streamVars, relayVars, consumerVars, dispatchVars, FirstOf, Unread, Fault
  <1>1. RepoTypeOK'  BY DEF RepoTypeOK
  <1>2. StreamTypeOK'
    <2>1. FirstOf(Unread, BatchSize) \subseteq 1 .. Len(stream)  BY DEF FirstOf, Unread
    <2>2. /\ lastDelivered' \in FirstOf(Unread, BatchSize)
          /\ pel' = pel \cup FirstOf(Unread, BatchSize)
      OBVIOUS
    <2>3. Len(stream) \in Nat  BY LenProperties DEF StreamTypeOK
    <2>4. pel \subseteq 1 .. Len(stream)  BY DEF StreamTypeOK
    <2>5. lastDelivered' \in 1 .. Len(stream) /\ pel' \subseteq 1 .. Len(stream)
      BY ONLY <2>1, <2>2, <2>4
    <2>6. QED  BY <2>3, <2>5 DEF StreamTypeOK
  <1>3. RelayTypeOK'  BY DEF RelayTypeOK, RepoTypeOK
  <1>4. ConsumerTypeOK'  BY DEF ConsumerTypeOK, StreamTypeOK
  <1>5. DispatchTypeOK'  BY DEF DispatchTypeOK
  <1>6. ProcessTypeOK'  BY DEF ProcessTypeOK, StreamTypeOK
  <1>7. WhereOK'  BY DEF WhereOK, RelayTypeOK, ConsumerTypeOK, DispatchTypeOK, StreamTypeOK
  <1> QED  BY <1>1, <1>2, <1>3, <1>4, <1>5, <1>6, <1>7

LEMMA AutoClaimType == ASSUME TypeInv, NEW idle \in SUBSET pel, AutoClaim(idle) PROVE TypeInv'
  <1> USE ConstantsAssumption DEF TypeInv, TypeOK, Consumers, AutoClaim, repoVars,
          streamVars, relayVars, consumerVars, dispatchVars
  <1>1. RepoTypeOK'  BY DEF RepoTypeOK
  <1>2. StreamTypeOK'  BY DEF StreamTypeOK
  <1>3. RelayTypeOK'  BY DEF RelayTypeOK, RepoTypeOK
  <1>4. ConsumerTypeOK'  BY DEF ConsumerTypeOK, StreamTypeOK
  <1>5. DispatchTypeOK'  BY DEF DispatchTypeOK
  <1>6. ProcessTypeOK'  BY DEF ProcessTypeOK, StreamTypeOK
  <1>7. WhereOK'  BY DEF WhereOK, RelayTypeOK, ConsumerTypeOK, DispatchTypeOK, StreamTypeOK
  <1> QED  BY <1>1, <1>2, <1>3, <1>4, <1>5, <1>6, <1>7

LEMMA NextMessageType == ASSUME TypeInv, NEW c \in Consumers, NextMessage(c) PROVE TypeInv'
  <1> DEFINE counted(m) == [k \in DOMAIN claimAttempts \cup {m} |->
                               IF k = m THEN ClaimCount(m) + 1 ELSE claimAttempts[k]]
  <1>1. PICK m \in batch[c] :
          /\ cur' = [cur EXCEPT ![c] = m]
          /\ pc' = [pc EXCEPT ![c] = "fence"] \/ pc' = [pc EXCEPT ![c] = "poison"]
          /\ claimAttempts' = claimAttempts \/ claimAttempts' = counted(m)
    BY DEF NextMessage
  <1>2. m \in 1 .. Len(stream)  BY DEF TypeInv, TypeOK, ConsumerTypeOK
  <1>3. UNCHANGED <<repoVars, streamVars, relayVars, batch, settled, dispatchVars,
                    cancelled, faults, received>>
    BY DEF NextMessage
  <1>4. RepoTypeOK' /\ StreamTypeOK' /\ RelayTypeOK' /\ DispatchTypeOK'
    BY <1>3 DEF TypeInv, TypeOK, RepoTypeOK, StreamTypeOK, RelayTypeOK, DispatchTypeOK,
                repoVars, streamVars, relayVars, dispatchVars
  <1>5. ConsumerTypeOK'
    BY <1>1, <1>2, <1>3 DEF TypeInv, TypeOK, ConsumerTypeOK, streamVars
  <1>6. ClaimCount(m) + 1 \in Nat  BY DEF ClaimCount, TypeInv, TypeOK, ProcessTypeOK
  <1>7. /\ DOMAIN claimAttempts' \subseteq 1 .. Len(stream)
        /\ \A k \in DOMAIN claimAttempts' : claimAttempts'[k] \in Nat
    <2>1. CASE claimAttempts' = claimAttempts  BY <2>1 DEF TypeInv, TypeOK, ProcessTypeOK
    <2>2. CASE claimAttempts' = counted(m)
      BY <2>2, <1>2, <1>6 DEF TypeInv, TypeOK, ProcessTypeOK
    <2>3. QED  BY <1>1, <2>1, <2>2
  <1>8. ProcessTypeOK'  BY <1>3, <1>7 DEF TypeInv, TypeOK, ProcessTypeOK, streamVars
  <1>9. WhereOK'
    BY <1>1, <1>2, <1>3 DEF TypeInv, TypeOK, WhereOK, ConsumerTypeOK,
                            repoVars, streamVars, relayVars, dispatchVars
  <1> QED  BY <1>4, <1>5, <1>8, <1>9 DEF TypeInv, TypeOK

LEMMA FenceType == ASSUME TypeInv, NEW c \in Consumers, Fence(c) PROVE TypeInv'
  <1> USE ConstantsAssumption DEF TypeInv, TypeOK, Consumers, Fence, repoVars,
          streamVars, relayVars, consumerVars, dispatchVars, Goto, EventOf, Fault
  <1>1. RepoTypeOK'  BY DEF RepoTypeOK
  <1>2. StreamTypeOK'  BY DEF StreamTypeOK
  <1>3. RelayTypeOK'  BY DEF RelayTypeOK, RepoTypeOK
  <1>4. ConsumerTypeOK'  BY DEF ConsumerTypeOK, StreamTypeOK
  <1>5. DispatchTypeOK'  BY DEF DispatchTypeOK
  <1>6. ProcessTypeOK'  BY DEF ProcessTypeOK, StreamTypeOK
  <1>7. WhereOK'  BY DEF WhereOK, RelayTypeOK, ConsumerTypeOK, DispatchTypeOK, StreamTypeOK
  <1> QED  BY <1>1, <1>2, <1>3, <1>4, <1>5, <1>6, <1>7

LEMMA ResolveType == ASSUME TypeInv, NEW c \in Consumers, Resolve(c) PROVE TypeInv'
  <1>1. /\ DispatchTypeOK' /\ DispatchWhereOK'
        /\ pc' = [pc EXCEPT ![c] = "post"] \/ pc' = [pc EXCEPT ![c] = "ack"]
    <2>1. endpoints \in SUBSET Endpoints  BY DEF TypeInv, TypeOK, RepoTypeOK
    <2>2. QED  BY <2>1, StartEndpointType, ReturnType DEF Resolve
  <1>2. UNCHANGED <<repoVars, streamVars, relayVars, batch, cur, settled, claimAttempts,
                    cancelled, received>>
    BY DEF Resolve
  <1>3. RepoTypeOK' /\ StreamTypeOK' /\ RelayTypeOK'
    BY <1>2 DEF TypeInv, TypeOK, RepoTypeOK, StreamTypeOK, RelayTypeOK,
                repoVars, streamVars, relayVars
  <1>4. ConsumerTypeOK'  BY <1>1, <1>2 DEF TypeInv, TypeOK, ConsumerTypeOK, streamVars
  <1>5. ProcessTypeOK'
    BY <1>2 DEF Resolve, Fault, TypeInv, TypeOK, ProcessTypeOK, streamVars
  <1>6. WhereOK'
    BY <1>1, <1>2, DispatchStepWhere DEF Resolve, repoVars, streamVars
  <1> QED  BY <1>1, <1>3, <1>4, <1>5, <1>6 DEF TypeInv, TypeOK

LEMMA PostType == ASSUME TypeInv, NEW c \in Consumers, Post(c) PROVE TypeInv'
  <1>1. PICK answer \in {"OK", "TRANSIENT", "PERMANENT"} :
          /\ verdict' = [verdict EXCEPT ![c] = Classify(answer, attemptNum[c])]
          /\ received' = IF answer = "OK" THEN received \cup {<<EventOf(c), ep[c]>>}
                         ELSE received
    BY DEF Post
  <1>2. Classify(answer, attemptNum[c]) \in Verdicts  BY DEF Classify
  <1>3. EventOf(c) \in Events /\ ep[c] \in Endpoints
    BY EventInHand DEF Post, TypeInv, WhereOK
  <1>4. pc' = [pc EXCEPT ![c] = "record"]  BY DEF Post, Goto
  <1>5. UNCHANGED <<repoVars, streamVars, relayVars, batch, cur, settled, claimAttempts,
                    targets, ep, attemptNum, cancelled, faults>>
    BY DEF Post
  <1>6. RepoTypeOK'  BY <1>1, <1>3, <1>5 DEF TypeInv, TypeOK, RepoTypeOK, repoVars
  <1>7. StreamTypeOK' /\ RelayTypeOK' /\ ProcessTypeOK'
    BY <1>5 DEF TypeInv, TypeOK, StreamTypeOK, RelayTypeOK, ProcessTypeOK,
                repoVars, streamVars, relayVars
  <1>8. ConsumerTypeOK'  BY <1>4, <1>5 DEF TypeInv, TypeOK, ConsumerTypeOK, streamVars
  <1>9. DispatchTypeOK'  BY <1>1, <1>2, <1>5 DEF TypeInv, TypeOK, DispatchTypeOK
  <1>10. DispatchWhereOK'
    BY <1>1, <1>2, <1>3, <1>4, <1>5
    DEF TypeInv, TypeOK, DispatchTypeOK, ConsumerTypeOK, WhereOK, DispatchWhereOK
  <1>11. WhereOK'
    BY <1>4, <1>5, <1>10, DispatchStepWhere DEF Post, repoVars, streamVars
  <1> QED  BY <1>6, <1>7, <1>8, <1>9, <1>11 DEF TypeInv, TypeOK

LEMMA RecordType == ASSUME TypeInv, NEW c \in Consumers, Record(c) PROVE TypeInv'
  <1>1. /\ DispatchTypeOK' /\ DispatchWhereOK'
        /\ \E where \in {"post", "ack", "update"} : pc' = [pc EXCEPT ![c] = where]
    <2>1. CASE RetryOrMoveOn(c)  BY <2>1, RetryOrMoveOnType DEF Record
    <2>2. CASE Goto(c, "update") /\ UNCHANGED dispatchVars
      BY <2>2 DEF Record, Goto, TypeInv, TypeOK, DispatchTypeOK, ConsumerTypeOK,
                  WhereOK, DispatchWhereOK, dispatchVars
    <2>3. QED  BY <2>1, <2>2 DEF Record
  <1>2. UNCHANGED <<status, outbox, endpoints, streamVars, relayVars, batch, cur, settled,
                    claimAttempts, cancelled, received>>
    BY DEF Record
  <1>3. RepoTypeOK'
    <2>1. EventOf(c) \in Events /\ ep[c] \in Endpoints /\ verdict[c] \in Verdicts
      BY EventInHand DEF Record, TypeInv, WhereOK
    <2>2. attempts' \subseteq [event : Events, endpoint : Endpoints, status : Verdicts]
      BY <2>1 DEF Record, TypeInv, TypeOK, RepoTypeOK
    <2>3. QED  BY <2>2, <1>2 DEF TypeInv, TypeOK, RepoTypeOK
  <1>4. StreamTypeOK' /\ RelayTypeOK'
    BY <1>2 DEF TypeInv, TypeOK, StreamTypeOK, RelayTypeOK, streamVars, relayVars
  <1>5. ConsumerTypeOK'  BY <1>1, <1>2 DEF TypeInv, TypeOK, ConsumerTypeOK, streamVars
  <1>6. ProcessTypeOK'
    BY <1>2 DEF Record, Fault, TypeInv, TypeOK, ProcessTypeOK, streamVars
  <1>7. WhereOK'
    BY <1>1, <1>2, DispatchStepWhere DEF Record, streamVars
  <1> QED  BY <1>1, <1>3, <1>4, <1>5, <1>6, <1>7 DEF TypeInv, TypeOK

LEMMA UpdateType == ASSUME TypeInv, NEW c \in Consumers, Update(c) PROVE TypeInv'
  <1>1. /\ DispatchTypeOK' /\ DispatchWhereOK'
        /\ pc' = [pc EXCEPT ![c] = "post"] \/ pc' = [pc EXCEPT ![c] = "ack"]
    BY NextEndpointType DEF Update
  <1>2. UNCHANGED <<outbox, attempts, endpoints, streamVars, relayVars, batch, cur,
                    claimAttempts, cancelled, received>>
    BY DEF Update
  <1>3. /\ status' \in [Events -> {"NONE", "PENDING"} \cup Final]
        /\ settled' \in [Consumers -> BOOLEAN]
        /\ faults' \in Nat
    <2>1. \/ /\ \E final \in Final : SetStatus(c, final)
             /\ faults' = faults
          \/ UNCHANGED <<status, settled>> /\ faults' = faults + 1
      BY DEF Update, Fault
    <2>2. status' \in [Events -> {"NONE", "PENDING"} \cup Final]
      BY <2>1 DEF SetStatus, TypeInv, TypeOK, RepoTypeOK
    <2>3. settled' \in [Consumers -> BOOLEAN]
      BY <2>1 DEF SetStatus, TypeInv, TypeOK, ConsumerTypeOK
    <2>4. faults' \in Nat  BY <2>1 DEF TypeInv, TypeOK, ProcessTypeOK
    <2>5. QED  BY <2>2, <2>3, <2>4
  <1>4. RepoTypeOK'  BY <1>2, <1>3 DEF TypeInv, TypeOK, RepoTypeOK
  <1>5. StreamTypeOK' /\ RelayTypeOK'
    BY <1>2 DEF TypeInv, TypeOK, StreamTypeOK, RelayTypeOK, streamVars, relayVars
  <1>6. ConsumerTypeOK'  BY <1>1, <1>2, <1>3 DEF TypeInv, TypeOK, ConsumerTypeOK, streamVars
  <1>7. ProcessTypeOK'  BY <1>2, <1>3 DEF TypeInv, TypeOK, ProcessTypeOK, streamVars
  <1>8. WhereOK'
    BY <1>1, <1>2, DispatchStepWhere DEF Update, streamVars
  <1> QED  BY <1>1, <1>4, <1>5, <1>6, <1>7, <1>8 DEF TypeInv, TypeOK

LEMMA QuarantineType == ASSUME TypeInv, Quarantine PROVE TypeInv'
  <1> USE ConstantsAssumption DEF TypeInv, TypeOK, Consumers, Quarantine, repoVars,
          streamVars, relayVars, consumerVars, dispatchVars, Goto, EventOf, SetStatus,
          Fault
  <1>1. RepoTypeOK'  BY DEF RepoTypeOK, WhereOK, StreamTypeOK
  <1>2. StreamTypeOK'  BY DEF StreamTypeOK
  <1>3. RelayTypeOK'  BY DEF RelayTypeOK, RepoTypeOK
  <1>4. ConsumerTypeOK'  BY DEF ConsumerTypeOK, StreamTypeOK
  <1>5. DispatchTypeOK'  BY DEF DispatchTypeOK
  <1>6. ProcessTypeOK'  BY DEF ProcessTypeOK, StreamTypeOK
  <1>7. WhereOK'  BY DEF WhereOK, RelayTypeOK, ConsumerTypeOK, DispatchTypeOK, StreamTypeOK
  <1> QED  BY <1>1, <1>2, <1>3, <1>4, <1>5, <1>6, <1>7

LEMMA AbortType == ASSUME TypeInv, NEW c \in Consumers, Abort(c) PROVE TypeInv'
  <1>1. DispatchTypeOK' /\ DispatchWhereOK' /\ pc' = [pc EXCEPT ![c] = "ack"]
    BY ReturnType DEF Abort
  <1>2. UNCHANGED <<repoVars, streamVars, relayVars, batch, cur, settled, claimAttempts,
                    cancelled, faults, received>>
    BY DEF Abort
  <1>3. RepoTypeOK' /\ StreamTypeOK' /\ RelayTypeOK' /\ ProcessTypeOK'
    BY <1>2 DEF TypeInv, TypeOK, RepoTypeOK, StreamTypeOK, RelayTypeOK, ProcessTypeOK,
                repoVars, streamVars, relayVars
  <1>4. ConsumerTypeOK'  BY <1>1, <1>2 DEF TypeInv, TypeOK, ConsumerTypeOK, streamVars
  <1>5. WhereOK'
    BY <1>1, <1>2, DispatchStepWhere DEF Abort, repoVars, streamVars
  <1> QED  BY <1>1, <1>3, <1>4, <1>5 DEF TypeInv, TypeOK

LEMMA AckEventType == ASSUME TypeInv, NEW c \in Consumers, AckEvent(c) PROVE TypeInv'
  <1> USE ConstantsAssumption DEF TypeInv, TypeOK, Consumers, AckEvent, repoVars,
          streamVars, relayVars, consumerVars, dispatchVars, Goto, Fault
  <1>1. RepoTypeOK'  BY DEF RepoTypeOK
  <1>2. StreamTypeOK'  BY DEF StreamTypeOK
  <1>3. RelayTypeOK'  BY DEF RelayTypeOK, RepoTypeOK
  <1>4. ConsumerTypeOK'  BY DEF ConsumerTypeOK, StreamTypeOK
  <1>5. DispatchTypeOK'  BY DEF DispatchTypeOK
  <1>6. ProcessTypeOK'  BY DEF ProcessTypeOK, StreamTypeOK
  <1>7. WhereOK'  BY DEF WhereOK, RelayTypeOK, ConsumerTypeOK, DispatchTypeOK, StreamTypeOK
  <1> QED  BY <1>1, <1>2, <1>3, <1>4, <1>5, <1>6, <1>7

LEMMA ShutdownType == ASSUME TypeInv, Shutdown PROVE TypeInv'
  <1> USE ConstantsAssumption DEF TypeInv, TypeOK, Consumers, Shutdown, repoVars,
          streamVars, relayVars, consumerVars, dispatchVars, Fault
  <1>1. RepoTypeOK'  BY DEF RepoTypeOK
  <1>2. StreamTypeOK'  BY DEF StreamTypeOK
  <1>3. RelayTypeOK'  BY DEF RelayTypeOK, RepoTypeOK
  <1>4. ConsumerTypeOK'  BY DEF ConsumerTypeOK, StreamTypeOK
  <1>5. DispatchTypeOK'  BY DEF DispatchTypeOK
  <1>6. ProcessTypeOK'  BY DEF ProcessTypeOK, StreamTypeOK
  <1>7. WhereOK'  BY DEF WhereOK, RelayTypeOK, ConsumerTypeOK, DispatchTypeOK, StreamTypeOK
  <1> QED  BY <1>1, <1>2, <1>3, <1>4, <1>5, <1>6, <1>7

LEMMA ConsumerExitType == ASSUME TypeInv, NEW c \in Consumers, ConsumerExit(c) PROVE TypeInv'
  <1> USE ConstantsAssumption DEF TypeInv, TypeOK, Consumers, ConsumerExit, repoVars,
          streamVars, relayVars, consumerVars, dispatchVars, Goto
  <1>1. RepoTypeOK'  BY DEF RepoTypeOK
  <1>2. StreamTypeOK'  BY DEF StreamTypeOK
  <1>3. RelayTypeOK'  BY DEF RelayTypeOK, RepoTypeOK
  <1>4. ConsumerTypeOK'  BY DEF ConsumerTypeOK, StreamTypeOK
  <1>5. DispatchTypeOK'  BY DEF DispatchTypeOK
  <1>6. ProcessTypeOK'  BY DEF ProcessTypeOK, StreamTypeOK
  <1>7. WhereOK'  BY DEF WhereOK, RelayTypeOK, ConsumerTypeOK, DispatchTypeOK, StreamTypeOK
  <1> QED  BY <1>1, <1>2, <1>3, <1>4, <1>5, <1>6, <1>7

LEMMA RestartType == ASSUME TypeInv, Restart PROVE TypeInv'
  <1>1. NewProcess /\ faults' \in Nat
    BY DEF Restart, TypeInv, TypeOK, ProcessTypeOK
  <1> QED  BY <1>1, NewProcessType

LEMMA CrashType == ASSUME TypeInv, Crash PROVE TypeInv'
  <1>1. NewProcess /\ faults' \in Nat
    BY DEF Crash, Fault, TypeInv, TypeOK, ProcessTypeOK
  <1> QED  BY <1>1, NewProcessType


LEMMA StutterType == ASSUME TypeInv, UNCHANGED vars PROVE TypeInv'
  BY DEF vars, repoVars, streamVars, relayVars, consumerVars, dispatchVars, TypeInv, TypeOK,
         RepoTypeOK, StreamTypeOK, RelayTypeOK, ConsumerTypeOK, DispatchTypeOK, ProcessTypeOK,
         WhereOK

LEMMA NextType == ASSUME TypeInv, [Next]_vars PROVE TypeInv'
  <1>1. CASE Api
    BY <1>1, InsertType, CommitType, RollbackType, RegisterEndpointType
    DEF Api, CreateEventWithOutbox, ReplayDLQEvents
  <1>2. CASE \E y \in Relays : Relay(y)
    BY <1>2, RelayFetchType, RelayPublishType, RelayMarkType, RelayExitType, StutterType
    DEF Relay, RelayPoll
  <1>3. CASE \E w \in Workers : ReadEvents(w)  BY <1>3, ReadEventsType
  <1>4. CASE Claim  BY <1>4, AutoClaimType DEF Claim
  <1>5. CASE \E c \in Consumers : Process(c)
    BY <1>5, NextMessageType, FenceType, ResolveType, PostType, RecordType, UpdateType,
       AbortType, AckEventType, ConsumerExitType
    DEF Process
  <1>6. CASE Quarantine \/ Shutdown \/ Restart \/ Crash
    BY <1>6, QuarantineType, ShutdownType, RestartType, CrashType
  <1>7. CASE UNCHANGED vars  BY <1>7, StutterType
  <1> QED  BY <1>1, <1>2, <1>3, <1>4, <1>5, <1>6, <1>7 DEF Next

\* The engine's variables keep their types, and every consumer that is past reading a
\* message holds one of the stream's: for all constants, failures and lossy calls
\* included.
THEOREM TypeCorrect == Spec => []TypeOK
  <1>1. Init => TypeInv  BY InitTypeInv
  <1>2. TypeInv /\ [Next]_vars => TypeInv'  BY NextType
  <1>3. TypeInv => TypeOK  BY DEF TypeInv
  <1> QED  BY <1>1, <1>2, <1>3, PTL DEF Spec

(***************************************************************************)
(* What a step leaves alone                                                *)
(***************************************************************************)

\* Attempts, answers and failures are only ever added.
LEMMA HistoryGrows ==
    ASSUME TypeInv, [Next]_vars
    PROVE  /\ attempts \subseteq attempts' /\ received \subseteq received'
           /\ faults \in Nat /\ faults' \in Nat /\ faults <= faults'
  <1> USE DEF repoVars, Fault
  <1>0. faults \in Nat  BY DEF TypeInv, TypeOK, ProcessTypeOK
  <1>1. CASE Api
    BY <1>0, <1>1, ApiFrame DEF ApiLeavesAlone
  <1>2. CASE \E y \in Relays : Relay(y)
    BY <1>0, <1>2 DEF Relay, RelayFetch, RelayPoll, RelayPublish, RelayMark, RelayExit, vars
  <1>3. CASE \E w \in Workers : ReadEvents(w)  BY <1>0, <1>3 DEF ReadEvents
  <1>4. CASE Claim  BY <1>0, <1>4 DEF Claim, AutoClaim
  <1>5. CASE \E c \in Consumers : Process(c)
    BY <1>0, <1>5 DEF Process, NextMessage, Fence, Resolve, Post, Record, Update, Abort,
                      AckEvent, ConsumerExit
  <1>6. CASE Quarantine \/ Shutdown \/ Restart \/ Crash
    BY <1>0, <1>6 DEF Quarantine, Shutdown, Restart, Crash, NewProcess
  <1>7. CASE UNCHANGED vars  BY <1>0, <1>7 DEF vars
  <1> QED  BY <1>1, <1>2, <1>3, <1>4, <1>5, <1>6, <1>7 DEF Next

\* A step of one consumer leaves the stream and the passes of the others alone.
LEMMA PassesAreApart ==
    ASSUME TypeInv, NEW c \in Consumers, Process(c) \/ (Quarantine /\ c = Reclaimer)
    PROVE  /\ UNCHANGED <<stream, trimmed, lastDelivered, outbox, relayVars, cancelled>>
           /\ \A d \in Consumers \ {c} :
                 /\ pc'[d] = pc[d] /\ cur'[d] = cur[d] /\ batch'[d] = batch[d]
                 /\ ep'[d] = ep[d] /\ verdict'[d] = verdict[d]
  <1>1. UNCHANGED <<stream, trimmed, lastDelivered, outbox, relayVars, cancelled>>
    BY DEF Process, NextMessage, Fence, Resolve, Post, Record, Update, Abort, AckEvent,
           ConsumerExit, Quarantine, repoVars, streamVars
  <1>2. \A d \in Consumers \ {c} : cur'[d] = cur[d] /\ batch'[d] = batch[d]
    BY DEF Process, NextMessage, Fence, Resolve, Post, Record, Update, Abort, AckEvent,
           ConsumerExit, Quarantine, TypeInv, TypeOK, ConsumerTypeOK
  <1>3. \A d \in Consumers \ {c} :
          pc'[d] = pc[d] /\ ep'[d] = ep[d] /\ verdict'[d] = verdict[d]
    <2> USE DEF TypeInv, TypeOK, ConsumerTypeOK, DispatchTypeOK, Goto, dispatchVars
    <2>1. CASE NextMessage(c) \/ Fence(c) \/ AckEvent(c) \/ ConsumerExit(c)
      BY <2>1 DEF NextMessage, Fence, AckEvent, ConsumerExit
    <2>2. CASE Resolve(c) \/ Abort(c) \/ Update(c)
      BY <2>2 DEF Resolve, Abort, Update, Return, StartEndpoint, NextEndpoint
    <2>3. CASE Post(c)  BY <2>3 DEF Post
    <2>4. CASE Record(c)
      BY <2>4 DEF Record, RetryOrMoveOn, NextEndpoint, StartEndpoint, Return
    <2>5. CASE Quarantine /\ c = Reclaimer  BY <2>5 DEF Quarantine
    <2> QED  BY <2>1, <2>2, <2>3, <2>4, <2>5 DEF Process
  <1> QED  BY <1>1, <1>2, <1>3

\* The stream changes by an XADD of the relay, or with a process that kept it in memory.
LEMMA StreamSteps ==
    ASSUME TypeInv, [Next]_vars
    PROVE  \/ stream' = stream
           \/ \E y \in Relays : RelayPublish(y)
           \/ Restart \/ Crash
  <1>1. CASE Api
    BY <1>1, ApiFrame DEF ApiLeavesAlone, streamVars
  <1>2. CASE \E y \in Relays : Relay(y)
    BY <1>2 DEF Relay, RelayFetch, RelayPoll, RelayMark, RelayExit, vars, streamVars
  <1>3. CASE (\E w \in Workers : ReadEvents(w)) \/ Claim
    BY <1>3 DEF ReadEvents, Claim, AutoClaim
  <1>4. CASE \E c \in Consumers : Process(c)  BY <1>4, PassesAreApart
  <1>5. CASE Quarantine \/ Shutdown \/ UNCHANGED vars
    BY <1>5 DEF Quarantine, Shutdown, vars, streamVars
  <1> QED  BY <1>1, <1>2, <1>3, <1>4, <1>5 DEF Next

\* Where NextEndpoint and the retry loop leave the consumer.
LEMMA MovesOn ==
    ASSUME TypeInv, NEW c \in Consumers,
           \/ NextEndpoint(c) \/ RetryOrMoveOn(c) \/ Return(c)
           \/ \E S \in SUBSET Endpoints : StartEndpoint(c, S)
    PROVE  pc'[c] \in {"post", "ack"}
  BY DEF NextEndpoint, RetryOrMoveOn, Return, StartEndpoint, Goto, TypeInv, TypeOK,
         ConsumerTypeOK

(***************************************************************************)
(* A status is written on evidence                                         *)
(***************************************************************************)

\* Dispatch records an attempt before it updates the event: what a consumer is about to
\* write is backed by the answer it got and, from then on, by the attempt on record.
Backed(c) ==
    /\ pc[c] \in {"record", "update"} /\ verdict[c] = "SUCCESS" =>
          <<EventOf(c), ep[c]>> \in received
    /\ pc[c] = "update" =>
          /\ verdict[c] \in {"SUCCESS", "FAILED"}
          /\ [event |-> EventOf(c), endpoint |-> ep[c], status |-> verdict[c]] \in attempts

EvidenceInv == TypeInv /\ \A c \in Consumers : Backed(c)

LEMMA BackedFrame ==
    ASSUME NEW d \in Consumers, Backed(d), attempts \subseteq attempts', received \subseteq received',
           pc'[d] \in {"record", "update"} =>
              /\ pc'[d] = pc[d] /\ cur'[d] = cur[d] /\ ep'[d] = ep[d]
              /\ verdict'[d] = verdict[d] /\ stream'[cur[d]] = stream[cur[d]]
    PROVE  Backed(d)'
  BY DEF Backed, EventOf

LEMMA PostBacks == ASSUME TypeInv, NEW c \in Consumers, Post(c) PROVE Backed(c)'
  <1>1. /\ pc'[c] = "record"
        /\ verdict'[c] = "SUCCESS" => <<EventOf(c), ep[c]>> \in received'
    BY DEF Post, Goto, Classify, TypeInv, TypeOK, ConsumerTypeOK, DispatchTypeOK
  <1>2. EventOf(c)' = EventOf(c) /\ ep' = ep  BY DEF Post, EventOf, streamVars
  <1> QED  BY <1>1, <1>2 DEF Backed

LEMMA RecordBacks ==
    ASSUME EvidenceInv, NEW c \in Consumers, Record(c) PROVE Backed(c)'
  <1>1. TypeInv /\ Backed(c)  BY DEF EvidenceInv
  <1>2. CASE RetryOrMoveOn(c)  BY <1>1, <1>2, MovesOn DEF Backed
  <1>3. CASE ~RetryOrMoveOn(c)
    <2>1. /\ pc'[c] = "update" /\ verdict[c] # "RETRYING"
          /\ attempts' = attempts \cup {[event |-> EventOf(c), endpoint |-> ep[c],
                                         status |-> verdict[c]]}
          /\ UNCHANGED <<ep, verdict, cur, stream, received>>
      BY <1>1, <1>3 DEF Record, Goto, dispatchVars, streamVars, TypeInv, TypeOK, ConsumerTypeOK
    <2>2. pc[c] = "record" /\ verdict[c] \in {"SUCCESS", "FAILED"}
      BY <1>1, <2>1 DEF Record, TypeInv, WhereOK
    <2>3. EventOf(c)' = EventOf(c)  BY <2>1 DEF EventOf
    <2> QED  BY <1>1, <2>1, <2>2, <2>3 DEF Backed
  <1> QED  BY <1>2, <1>3

LEMMA NextEvidence == ASSUME EvidenceInv, [Next]_vars PROVE EvidenceInv'
  <1>1. TypeInv /\ TypeInv' /\ \A d \in Consumers : Backed(d)  BY NextType DEF EvidenceInv
  <1>2. attempts \subseteq attempts' /\ received \subseteq received'  BY <1>1, HistoryGrows
  <1> SUFFICES ASSUME NEW d \in Consumers PROVE Backed(d)'  BY <1>1 DEF EvidenceInv
  <1>3. CASE \E y \in Relays : RelayPublish(y)
    <2>1. PICK y \in Relays : RelayPublish(y)  BY <1>3
    <2>2. UNCHANGED consumerVars  BY <2>1 DEF RelayPublish
    <2>3. \A m \in 1 .. Len(stream) : stream'[m] = stream[m]
      BY <1>1, <2>1, XAddFacts DEF RelayPublish, streamVars, TypeInv, TypeOK, RelayTypeOK
    <2>4. pc[d] \in Busy => cur[d] \in 1 .. Len(stream)  BY <1>1 DEF TypeInv, WhereOK
    <2> QED  BY <1>1, <1>2, <2>2, <2>3, <2>4, BackedFrame DEF consumerVars, dispatchVars
  <1>4. CASE Restart \/ Crash
    BY <1>4 DEF Restart, Crash, NewProcess, Backed
  <1>5. CASE \E c \in Consumers : Process(c) \/ (Quarantine /\ c = Reclaimer)
    <2>1. PICK c \in Consumers : Process(c) \/ (Quarantine /\ c = Reclaimer)  BY <1>5
    <2>2. CASE d # c  BY <1>1, <1>2, <2>1, <2>2, PassesAreApart, BackedFrame
    <2>3. CASE d = c /\ ~(Post(c) \/ Record(c))
      <3>1. pc'[c] \notin {"record", "update"}
        <4>1. CASE Resolve(c) \/ Update(c) \/ Abort(c)
          BY <1>1, <4>1, MovesOn DEF Resolve, Update, Abort, TypeInv, TypeOK, RepoTypeOK
        <4>2. CASE NextMessage(c) \/ Fence(c) \/ AckEvent(c) \/ ConsumerExit(c)
                   \/ (Quarantine /\ c = Reclaimer)
          BY <1>1, <4>2 DEF NextMessage, Fence, AckEvent, ConsumerExit, Quarantine, Goto,
                            TypeInv, TypeOK, ConsumerTypeOK
        <4> QED  BY <2>1, <2>3, <4>1, <4>2 DEF Process
      <3> QED  BY <2>3, <3>1 DEF Backed
    <2>4. CASE d = c /\ Post(c)  BY <1>1, <2>4, PostBacks
    <2>5. CASE d = c /\ Record(c)  BY <2>5, RecordBacks
    <2> QED  BY <2>2, <2>3, <2>4, <2>5
  <1>6. CASE (\E w \in Workers : ReadEvents(w)) \/ Claim
    <2>1. UNCHANGED <<stream, cur, ep, verdict>>
      BY <1>6 DEF ReadEvents, Claim, AutoClaim, dispatchVars
    <2>2. pc'[d] = pc[d] \/ pc'[d] \in {"idle", "next"}
      BY <1>1, <1>6 DEF ReadEvents, Claim, AutoClaim, TypeInv, TypeOK, ConsumerTypeOK
    <2> QED  BY <1>1, <1>2, <2>1, <2>2, BackedFrame
  <1>7. CASE \/ Api \/ Shutdown \/ UNCHANGED vars
             \/ \E y \in Relays : RelayFetch(y) \/ RelayPoll(y) \/ RelayMark(y) \/ RelayExit(y)
    <2>1. UNCHANGED <<stream, consumerVars>>
      BY <1>7, ApiFrame DEF ApiLeavesAlone, Shutdown, vars, RelayFetch,
                  RelayPoll, RelayMark, RelayExit, streamVars
    <2> QED  BY <1>1, <1>2, <2>1, BackedFrame DEF consumerVars, dispatchVars
  <1>8. Reclaimer \in Consumers  BY DEF Consumers
  <1> QED  BY <1>3, <1>4, <1>5, <1>6, <1>7, <1>8 DEF Next, Relay

LEMMA InitEvidence == ASSUME Init PROVE EvidenceInv
  BY InitTypeInv DEF Init, EvidenceInv, Backed

LEMMA EvidenceInvariant == Spec => []EvidenceInv
  BY InitEvidence, NextEvidence, PTL DEF Spec

\* The steps that write a status, and what they write.
LEMMA StatusSteps ==
    ASSUME TypeInv, [Next]_vars
    PROVE  \/ status' = status
           \/ \E S \in SUBSET OpenRecords : Commit(S)
           \/ \E c \in Consumers :
                 /\ Update(c)
                 /\ SetStatus(c, IF verdict[c] = "SUCCESS" THEN "DELIVERED" ELSE "DLQ")
           \/ Quarantine /\ SetStatus(Reclaimer, "DLQ")
  <1> USE DEF repoVars
  <1>1. CASE Api
    BY <1>1 DEF Api, RegisterEndpoint, CreateEventWithOutbox, ReplayDLQEvents, InsertRecord,
                Rollback
  <1>2. CASE \E y \in Relays : Relay(y)
    BY <1>2 DEF Relay, RelayFetch, RelayPoll, RelayPublish, RelayMark, RelayExit, vars
  <1>3. CASE (\E w \in Workers : ReadEvents(w)) \/ Claim
    BY <1>3 DEF ReadEvents, Claim, AutoClaim
  <1>4. CASE \E c \in Consumers : Process(c)
    <2>1. PICK c \in Consumers : Process(c)  BY <1>4
    <2>2. CASE Update(c)  BY <2>2 DEF Update
    <2>3. CASE ~Update(c)
      BY <2>1, <2>3 DEF Process, NextMessage, Fence, Resolve, Post, Record, Abort, AckEvent,
                        ConsumerExit
    <2> QED  BY <2>2, <2>3
  <1>5. CASE Quarantine  BY <1>5 DEF Quarantine
  <1>6. CASE Shutdown \/ Restart \/ Crash \/ UNCHANGED vars
    BY <1>6 DEF Shutdown, Restart, Crash, NewProcess, vars
  <1> QED  BY <1>1, <1>2, <1>3, <1>4, <1>5, <1>6 DEF Next

\* The event a consumer sets is one of the events, and the only one it sets.
LEMMA SetStatusFacts ==
    ASSUME TypeInv, NEW c \in Consumers, pc[c] \in Busy, NEW final, SetStatus(c, final)
    PROVE  /\ EventOf(c) \in Events
           /\ \A e \in Events : status'[e] = IF e = EventOf(c) THEN final ELSE status[e]
  <1>1. EventOf(c) \in Events  BY EventInHand
  <1> QED  BY <1>1 DEF SetStatus, TypeInv, TypeOK, RepoTypeOK

AcceptedOnRecord(e) ==
    \E t \in Endpoints : /\ [event |-> e, endpoint |-> t, status |-> "SUCCESS"] \in attempts
                         /\ <<e, t>> \in received

LEMMA NextDelivered ==
    ASSUME EvidenceInv, DeliveredWasAccepted, [Next]_vars PROVE DeliveredWasAccepted'
  <1>0. TypeInv  BY DEF EvidenceInv
  <1>1. \A e \in Events : AcceptedOnRecord(e) => AcceptedOnRecord(e)'
    BY <1>0, HistoryGrows DEF AcceptedOnRecord
  <1> SUFFICES ASSUME NEW e \in Events, status'[e] = "DELIVERED" PROVE AcceptedOnRecord(e)'
    BY DEF DeliveredWasAccepted, AcceptedOnRecord
  <1>2. CASE status[e] = "DELIVERED"
    BY <1>1, <1>2 DEF DeliveredWasAccepted, AcceptedOnRecord
  <1>3. CASE status[e] # "DELIVERED"
    <2>1. ~ \E S \in SUBSET OpenRecords : Commit(S)  BY <1>3 DEF Commit
    <2>3. ~ (Quarantine /\ SetStatus(Reclaimer, "DLQ"))
      <3>1. ASSUME Quarantine, SetStatus(Reclaimer, "DLQ") PROVE FALSE
        <4>1. Reclaimer \in Consumers /\ pc[Reclaimer] \in Busy
          BY <3>1 DEF Consumers, Quarantine
        <4> QED  BY <1>0, <1>3, <3>1, <4>1, SetStatusFacts
      <3> QED  BY <3>1
    <2>4. PICK c \in Consumers :
            /\ Update(c)
            /\ SetStatus(c, IF verdict[c] = "SUCCESS" THEN "DELIVERED" ELSE "DLQ")
      BY <1>0, <1>3, <2>1, <2>3, StatusSteps
    <2>5. pc[c] = "update"  BY <2>4 DEF Update
    <2>6. e = EventOf(c) /\ verdict[c] = "SUCCESS"
      BY <1>0, <1>3, <2>4, <2>5, SetStatusFacts
    <2>7. ep[c] \in Endpoints  BY <1>0, <2>5 DEF TypeInv, WhereOK
    <2>8. AcceptedOnRecord(e)
      BY <2>5, <2>6, <2>7 DEF EvidenceInv, Backed, AcceptedOnRecord
    <2> QED  BY <1>1, <2>8
  <1> QED  BY <1>2, <1>3

\* An event becomes DELIVERED only after an endpoint answered 2xx and that attempt was
\* recorded: for any number of consumers racing over the same message, with every failure
\* of the repository, the stream and the process, in memory or in Redis.
THEOREM DeliveredIsAccepted == Spec => []DeliveredWasAccepted
  <1>1. Init => DeliveredWasAccepted  BY DEF Init, DeliveredWasAccepted
  <1>2. EvidenceInv /\ DeliveredWasAccepted /\ [Next]_vars => DeliveredWasAccepted'
    BY NextDelivered
  <1> QED  BY <1>1, <1>2, EvidenceInvariant, PTL DEF Spec

(***************************************************************************)
(* The engine keeps its promise                                            *)
(***************************************************************************)

\* A transaction writes the row of e and the record that goes with it.
Opens(e) == status[e] \in {"NONE", "DLQ"} /\ InsertRecord(e)

LEMMA OutboxSteps ==
    ASSUME TypeInv, [Next]_vars
    PROVE  \/ outbox' = outbox
           \/ \E e \in Events : Opens(e)
           \/ \E S \in SUBSET OpenRecords : Commit(S) \/ Rollback(S)
           \/ \E y \in Relays : /\ RelayMark(y)
                                /\ relayRecord[y] \in 1 .. Len(outbox)
                                /\ MarkRecord(relayRecord[y])
  <1> USE DEF repoVars
  <1>1. CASE Api
    BY <1>1 DEF Api, RegisterEndpoint, CreateEventWithOutbox, ReplayDLQEvents, Opens
  <1>2. CASE \E y \in Relays : Relay(y)
    <2>1. PICK y \in Relays : Relay(y)  BY <1>2
    <2>2. CASE RelayMark(y)
      BY <2>2 DEF RelayMark, TypeInv, WhereOK
    <2>3. CASE ~RelayMark(y)
      BY <2>1, <2>3 DEF Relay, RelayFetch, RelayPoll, RelayPublish, RelayExit, vars
    <2> QED  BY <2>2, <2>3
  <1>3. CASE (\E w \in Workers : ReadEvents(w)) \/ Claim
    BY <1>3 DEF ReadEvents, Claim, AutoClaim
  <1>4. CASE \E c \in Consumers : Process(c)  BY <1>4, PassesAreApart
  <1>5. CASE Quarantine \/ Shutdown \/ Restart \/ Crash \/ UNCHANGED vars
    BY <1>5 DEF Quarantine, Shutdown, Restart, Crash, NewProcess, vars
  <1> QED  BY <1>1, <1>2, <1>3, <1>4, <1>5 DEF Next

\* The life of a record: it is committed or rolled back with its transaction, marked by a
\* relay that holds it, and the event it is of never changes.
LEMMA RecordSteps ==
    ASSUME TypeInv, [Next]_vars
    PROVE  /\ Len(outbox) \in Nat /\ Len(outbox') \in {Len(outbox), Len(outbox) + 1}
           /\ \A r \in 1 .. Len(outbox) :
                 \/ outbox'[r] = outbox[r]
                 \/ \E S \in SUBSET OpenRecords : r \in S /\ Commit(S) /\ outbox'[r] = CommittedAs(r)
                 \/ \E S \in SUBSET OpenRecords :
                       r \in S /\ Rollback(S) /\ outbox'[r] = Aborted(outbox[r])
                 \/ \E y \in Relays :
                       RelayMark(y) /\ relayRecord[y] = r /\ outbox'[r] = Marked(outbox[r])
           /\ Len(outbox') = Len(outbox) + 1 =>
                 \E e \in Events : Opens(e) /\ outbox'[Len(outbox) + 1] = Inserted(e)
  <1>0. Len(outbox) \in Nat
    BY LenProperties DEF TypeInv, TypeOK, RepoTypeOK
  <1>1. CASE outbox' = outbox  BY <1>0, <1>1
  <1>2. CASE \E e \in Events : Opens(e)  BY <1>0, <1>2, InsertFacts DEF Opens
  <1>3. CASE \E S \in SUBSET OpenRecords : Commit(S)  BY <1>0, <1>3, CommitFacts
  <1>4. CASE \E S \in SUBSET OpenRecords : Rollback(S)  BY <1>0, <1>4, RollbackFacts
  <1>5. CASE \E y \in Relays : /\ RelayMark(y)
                               /\ relayRecord[y] \in 1 .. Len(outbox)
                               /\ MarkRecord(relayRecord[y])
    <2>1. PICK y \in Relays : /\ RelayMark(y)
                              /\ relayRecord[y] \in 1 .. Len(outbox)
                              /\ MarkRecord(relayRecord[y])
      BY <1>5
    <2>2. PICK x \in 1 .. Len(outbox) : x = relayRecord[y] /\ MarkRecord(x)  BY <2>1
    <2> QED  BY <1>0, <2>1, <2>2, MarkFacts
  <1> QED  BY <1>1, <1>2, <1>3, <1>4, <1>5, OutboxSteps

\* Records are added, committed and marked, never removed or given to another event.
LEMMA OutboxGrows ==
    ASSUME TypeInv, [Next]_vars
    PROVE  /\ Len(outbox) \in Nat /\ Len(outbox') \in Nat /\ Len(outbox) <= Len(outbox')
           /\ \A r \in 1 .. Len(outbox) :
                 /\ outbox'[r].event = outbox[r].event
                 /\ outbox[r].status = "PUBLISHED" => outbox'[r].status = "PUBLISHED"
           /\ \A r \in Committed : r \in Committed' /\ outbox'[r].late = outbox[r].late
           /\ \A r \in 1 .. Len(outbox') :
                 r \notin 1 .. Len(outbox) => r = Len(outbox) + 1 /\ outbox'[r].status = "UNCOMMITTED"
  <1>0. Len(outbox) \in Nat /\ Len(outbox') \in {Len(outbox), Len(outbox) + 1}  BY RecordSteps
  <1>1. ASSUME NEW r \in 1 .. Len(outbox)
        PROVE  /\ outbox'[r].event = outbox[r].event
               /\ outbox[r].status = "PUBLISHED" => outbox'[r].status = "PUBLISHED"
               /\ outbox[r].status = "PENDING" => outbox'[r].status \in {"PENDING", "PUBLISHED"}
               /\ outbox[r].status \in {"PENDING", "PUBLISHED"} => outbox'[r].late = outbox[r].late
    <2>1. CASE outbox'[r] = outbox[r]  BY <2>1
    <2>2. CASE r \in OpenRecords /\ outbox'[r] = CommittedAs(r)
      <3>1. outbox[r].status = "UNCOMMITTED"  BY <2>2 DEF OpenRecords
      <3>2. outbox'[r].event = outbox[r].event  BY <2>2 DEF CommittedAs
      <3> QED  BY <3>1, <3>2
    <2>3. CASE r \in OpenRecords /\ outbox'[r] = Aborted(outbox[r])
      <3>1. outbox[r].status = "UNCOMMITTED"  BY <2>3 DEF OpenRecords
      <3>2. outbox'[r].event = outbox[r].event  BY <2>3 DEF Aborted
      <3> QED  BY <3>1, <3>2
    <2>4. CASE outbox'[r] = Marked(outbox[r])  BY <2>4 DEF Marked
    <2> QED  BY <2>1, <2>2, <2>3, <2>4, RecordSteps
  <1>2. \A r \in Committed : r \in Committed' /\ outbox'[r].late = outbox[r].late
    BY <1>0, <1>1 DEF Committed
  <1>3. ASSUME NEW r \in 1 .. Len(outbox'), r \notin 1 .. Len(outbox)
        PROVE  r = Len(outbox) + 1 /\ outbox'[r].status = "UNCOMMITTED"
    <2>1. r = Len(outbox) + 1 /\ Len(outbox') = Len(outbox) + 1  BY <1>0, <1>3
    <2>2. PICK e \in Events : outbox'[r] = Inserted(e)  BY <2>1, RecordSteps
    <2> QED  BY <2>1, <2>2 DEF Inserted
  <1> QED  BY <1>0, <1>1, <1>2, <1>3

\* What a step of a relay, and of nothing else, does to a relay.
LEMMA RelaySteps ==
    ASSUME TypeInv, [Next]_vars, NEW z \in Relays
    PROVE  \/ /\ relayPc'[z] = relayPc[z] /\ relayBatch'[z] = relayBatch[z]
              /\ relayRecord'[z] = relayRecord[z]
           \/ relayPc'[z] \in {"idle", "exited"} /\ relayBatch'[z] = {}
           \/ /\ RelayFetch(z) /\ relayPc'[z] = "publish"
              /\ relayBatch'[z] = FirstOf(PendingRecords, RelayBatchSize)
           \/ \E r \in relayBatch[z] :
                 /\ RelayPublish(z) /\ IsLeast(r, relayBatch[z]) /\ XAdd(r) /\ faults' = faults
                 /\ relayPc'[z] = "mark" /\ relayBatch'[z] = relayBatch[z]
                 /\ relayRecord'[z] = r
           \/ /\ RelayMark(z) /\ MarkRecord(relayRecord[z]) /\ relayPc'[z] = "publish"
              /\ relayBatch'[z] = relayBatch[z] \ {relayRecord[z]}
  <1>0. /\ DOMAIN relayPc = Relays /\ DOMAIN relayBatch = Relays /\ DOMAIN relayRecord = Relays
    BY DEF TypeInv, TypeOK, RelayTypeOK
  <1>1. CASE Restart \/ Crash
    BY <1>1 DEF Restart, Crash, NewProcess
  <1>2. CASE \E y \in Relays : Relay(y)
    <2>1. PICK y \in Relays : Relay(y)  BY <1>2
    <2>2. CASE y # z
      BY <1>0, <2>1, <2>2 DEF Relay, RelayFetch, RelayPoll, RelayPublish, RelayMark, RelayExit,
                              RelayGoto, vars, relayVars
    <2>3. CASE y = z /\ (RelayFetch(z) \/ RelayPoll(z) \/ RelayExit(z))
      BY <1>0, <2>3 DEF RelayFetch, RelayPoll, RelayExit, RelayGoto, vars, relayVars
    <2>4. CASE y = z /\ RelayPublish(z)
      <3>1. PICK r \in relayBatch[z] :
              /\ IsLeast(r, relayBatch[z])
              /\ \/ XAdd(r) /\ RelayGoto(z, "mark", relayBatch[z], r) /\ faults' = faults
                 \/ RelayGoto(z, "idle", {}, 0)
        BY <2>4 DEF RelayPublish
      <3> QED  BY <1>0, <2>4, <3>1 DEF RelayGoto
    <2>5. CASE y = z /\ RelayMark(z)
      BY <1>0, <2>5 DEF RelayMark, RelayGoto
    <2> QED  BY <2>1, <2>2, <2>3, <2>4, <2>5 DEF Relay
  <1>3. CASE ~(Restart \/ Crash \/ \E y \in Relays : Relay(y))
    <2>1. UNCHANGED relayVars
      <3>1. CASE \E c \in Consumers : Process(c)  BY <3>1, PassesAreApart
      <3>2. CASE ~ \E c \in Consumers : Process(c)
        BY <1>3, <3>2, ApiFrame DEF Next, ApiLeavesAlone, ReadEvents, Claim, AutoClaim,
                                    Quarantine, Shutdown, vars
      <3> QED  BY <3>1, <3>2
    <2> QED  BY <2>1 DEF relayVars
  <1> QED  BY <1>1, <1>2, <1>3

\* What the relays hold and have published are committed records.
HandInv ==
    /\ \A y \in Relays : /\ relayBatch[y] \subseteq Committed
                         /\ relayPc[y] = "mark" => relayRecord[y] \in relayBatch[y]
    /\ \A m \in 1 .. Len(stream) : /\ stream[m].record \in Committed
                                   /\ stream[m].event = outbox[stream[m].record].event

LEMMA NextHand == ASSUME TypeInv, HandInv, [Next]_vars PROVE HandInv'
  <1>0. /\ \A r \in Committed : r \in Committed' /\ outbox'[r].event = outbox[r].event
        /\ \A r \in Committed : r \in 1 .. Len(outbox)
    BY OutboxGrows DEF Committed
  <1>1. ASSUME NEW y \in Relays
        PROVE  /\ relayBatch'[y] \subseteq Committed'
               /\ relayPc'[y] = "mark" => relayRecord'[y] \in relayBatch'[y]
    <2>1. relayBatch[y] \subseteq Committed'  BY <1>0 DEF HandInv
    <2>2. CASE RelayFetch(y) /\ relayBatch'[y] = FirstOf(PendingRecords, RelayBatchSize)
      <3>1. FirstOf(PendingRecords, RelayBatchSize) \subseteq Committed
        BY DEF FirstOf, PendingRecords, Committed
      <3>2. relayPc'[y] # "mark"
        BY <2>2 DEF RelayFetch, RelayGoto, TypeInv, TypeOK, RelayTypeOK
      <3> QED  BY <1>0, <2>2, <3>1, <3>2
    <2> QED  BY <2>1, <2>2, RelaySteps DEF HandInv
  <1>2. \A m \in 1 .. Len(stream) : /\ stream[m].record \in Committed'
                                    /\ stream[m].event = outbox'[stream[m].record].event
    BY <1>0 DEF HandInv
  <1>3. \A m \in 1 .. Len(stream') : /\ stream'[m].record \in Committed'
                                     /\ stream'[m].event = outbox'[stream'[m].record].event
    <2>1. CASE stream' = stream  BY <1>2, <2>1
    <2>2. CASE \E y \in Relays : RelayPublish(y)
      <3>1. PICK r \in Committed : XAdd(r) \/ stream' = stream
        BY <2>2 DEF RelayPublish, streamVars, HandInv
      <3>2. CASE XAdd(r)
        <4>0. r \in 1 .. Len(outbox) /\ Len(stream) \in Nat
          BY LenProperties DEF Committed, TypeInv, TypeOK, StreamTypeOK
        <4>1. /\ Len(stream') = Len(stream) + 1
              /\ \A m \in 1 .. Len(stream) : stream'[m] = stream[m]
              /\ stream'[Len(stream) + 1] = [event |-> outbox[r].event, record |-> r]
          BY <3>2, <4>0, XAddFacts
        <4>2. /\ stream'[Len(stream) + 1].event = outbox'[r].event
              /\ stream'[Len(stream) + 1].record = r
          BY <1>0, <4>1
        <4>3. \A m \in 1 .. Len(stream') : m \in 1 .. Len(stream) \/ m = Len(stream) + 1
          BY <4>0, <4>1
        <4> QED  BY <1>0, <1>2, <4>1, <4>2, <4>3
      <3> QED  BY <1>2, <3>1, <3>2
    <2>3. CASE Restart \/ Crash
      BY <1>2, <2>3, EmptySeq DEF Restart, Crash, NewProcess, streamVars
    <2> QED  BY <2>1, <2>2, <2>3, StreamSteps
  <1> QED  BY <1>1, <1>3 DEF HandInv

LEMMA HandInvariant == Spec => [](TypeInv /\ HandInv)
  <1>1. Init => TypeInv /\ HandInv
    <2>1. Init => HandInv  BY EmptySeq DEF Init, HandInv
    <2> QED  BY <2>1, InitTypeInv
  <1>2. TypeInv /\ HandInv /\ [Next]_vars => (TypeInv /\ HandInv)'  BY NextType, NextHand
  <1> QED  BY <1>1, <1>2, PTL DEF Spec

\* A record becomes visible by the commit of its transaction, and what the relays have
\* fetched by then is on record.
LEMMA NewlyCommitted ==
    ASSUME TypeInv, HandInv, [Next]_vars, NEW r \in Committed', r \notin Committed
    PROVE  /\ r \in Nat /\ r \in 1 .. Len(outbox)
           /\ \E S \in SUBSET OpenRecords : r \in S /\ Commit(S)
           /\ outbox'[r].status = "PENDING"
           /\ outbox'[r].late = {q \in Fetched : q > r}
  <1>1. r \in 1 .. Len(outbox) /\ Len(outbox) \in Nat  BY OutboxGrows DEF Committed
  <1>2. outbox[r].status \notin {"PENDING", "PUBLISHED"}  BY <1>1 DEF Committed
  <1>3. outbox'[r].status \in {"PENDING", "PUBLISHED"}  BY DEF Committed
  <1>4. ~ \E y \in Relays : RelayMark(y) /\ relayRecord[y] = r  BY DEF HandInv, RelayMark
  <1>5. outbox'[r] # Aborted(outbox[r])  BY <1>3 DEF Aborted
  <1>6. PICK S \in SUBSET OpenRecords : r \in S /\ Commit(S) /\ outbox'[r] = CommittedAs(r)
    BY <1>1, <1>2, <1>3, <1>4, <1>5, RecordSteps
  <1>7. outbox'[r].status = "PENDING" /\ outbox'[r].late = {q \in Fetched : q > r}
    BY <1>6 DEF CommittedAs
  <1> QED  BY <1>1, <1>6, <1>7

\* Committed records are of events that were accepted, and an open transaction keeps the
\* row of its event as it found it: new or in the DLQ.
KnownInv ==
    /\ \A r \in Committed : status[outbox[r].event] # "NONE"
    /\ \A r \in OpenRecords : status[outbox[r].event] \in {"NONE", "DLQ"}
    /\ \A q, r \in OpenRecords : outbox[q].event = outbox[r].event => q = r

LEMMA MessagesAreKnown ==
    ASSUME HandInv, KnownInv PROVE \A m \in 1 .. Len(stream) : status[stream[m].event] # "NONE"
  BY DEF HandInv, KnownInv

\* No event is forgotten.
LEMMA StaysKnown ==
    ASSUME TypeInv, [Next]_vars, NEW e \in Events, status[e] # "NONE" PROVE status'[e] # "NONE"
  <1>1. CASE \E S \in SUBSET OpenRecords : Commit(S)  BY <1>1 DEF Commit
  <1>3. CASE \E c \in Consumers :
               /\ Update(c)
               /\ SetStatus(c, IF verdict[c] = "SUCCESS" THEN "DELIVERED" ELSE "DLQ")
    BY <1>3, SetStatusFacts DEF Update
  <1>4. CASE Quarantine /\ SetStatus(Reclaimer, "DLQ")
    <2>1. Reclaimer \in Consumers /\ pc[Reclaimer] \in Busy
      BY <1>4 DEF Consumers, Quarantine
    <2> QED  BY <1>4, <2>1, SetStatusFacts
  <1> QED  BY <1>1, <1>3, <1>4, StatusSteps

LEMMA OutboxEvents == ASSUME TypeInv PROVE \A r \in 1 .. Len(outbox) : outbox[r].event \in Events
  <1>1. outbox \in Seq(OutboxRecords)  BY DEF TypeInv, TypeOK, RepoTypeOK
  <1>2. \A r \in 1 .. Len(outbox) : outbox[r] \in OutboxRecords  BY <1>1, ElementOfSeq
  <1> QED  BY <1>2 DEF OutboxRecords

LEMMA StreamEvents == ASSUME TypeInv PROVE \A m \in 1 .. Len(stream) : stream[m].event \in Events
  <1>1. stream \in Seq(Messages)  BY DEF TypeInv, TypeOK, StreamTypeOK
  <1>2. \A m \in 1 .. Len(stream) : stream[m] \in Messages  BY <1>1, ElementOfSeq
  <1> QED  BY <1>2 DEF Messages

\* The status of an event changes by the commit of its transaction or, while no transaction
\* holds its row, by the verdict of a consumer.
LEMMA StatusOfLocked ==
    ASSUME TypeInv, [Next]_vars, NEW e \in Events, Locked(e)
    PROVE  \/ status'[e] = status[e]
           \/ \E S \in SUBSET OpenRecords : Commit(S) /\ \E r \in S : outbox[r].event = e
  <1>1. CASE \E S \in SUBSET OpenRecords : Commit(S)
    <2>1. PICK S \in SUBSET OpenRecords : Commit(S)  BY <1>1
    <2>2. status'[e] = IF \E r \in S : outbox[r].event = e THEN "PENDING" ELSE status[e]
      BY <2>1 DEF Commit
    <2> QED  BY <2>1, <2>2
  <1>2. ASSUME NEW c \in Consumers, pc[c] \in Busy, NEW final, SetStatus(c, final)
        PROVE  status'[e] = status[e]
    <2>1. e # EventOf(c)  BY <1>2 DEF SetStatus
    <2> QED  BY <1>2, <2>1, SetStatusFacts
  <1>3. CASE \E c \in Consumers :
               /\ Update(c)
               /\ SetStatus(c, IF verdict[c] = "SUCCESS" THEN "DELIVERED" ELSE "DLQ")
    BY <1>2, <1>3 DEF Update
  <1>4. CASE Quarantine /\ SetStatus(Reclaimer, "DLQ")
    <2>1. Reclaimer \in Consumers /\ pc[Reclaimer] \in Busy
      BY <1>4 DEF Consumers, Quarantine
    <2> QED  BY <1>2, <1>4, <2>1
  <1> QED  BY <1>1, <1>3, <1>4, StatusSteps

LEMMA NextKnown == ASSUME TypeInv, HandInv, KnownInv, [Next]_vars PROVE KnownInv'
  <1>0. /\ Len(outbox) \in Nat
        /\ \A r \in 1 .. Len(outbox) : outbox[r].event \in Events
        /\ \A r \in 1 .. Len(outbox) : outbox'[r].event = outbox[r].event
    BY OutboxGrows, OutboxEvents
  <1>1. ASSUME NEW r \in Committed' PROVE status'[outbox'[r].event] # "NONE"
    <2>1. r \in 1 .. Len(outbox)
      BY OutboxGrows DEF Committed
    <2>2. CASE r \in Committed
      BY <1>0, <2>1, <2>2, StaysKnown DEF KnownInv
    <2>3. CASE r \notin Committed
      <3>1. PICK S \in SUBSET OpenRecords : r \in S /\ Commit(S)  BY <2>3, NewlyCommitted
      <3>2. status'[outbox[r].event] = "PENDING"  BY <1>0, <2>1, <3>1 DEF Commit
      <3> QED  BY <1>0, <2>1, <3>2
    <2> QED  BY <2>2, <2>3
  <1>2. ASSUME NEW r \in OpenRecords'
        PROVE  \/ /\ r \in OpenRecords
                  /\ ~ \E S \in SUBSET OpenRecords : Commit(S) /\ r \in S
               \/ /\ r = Len(outbox) + 1
                  /\ \E e \in Events : Opens(e) /\ outbox'[r] = Inserted(e)
    <2>1. r \in 1 .. Len(outbox') /\ outbox'[r].status = "UNCOMMITTED"  BY DEF OpenRecords
    <2>2. CASE r \in 1 .. Len(outbox)
      <3>1. outbox'[r] # CommittedAs(r)  BY <2>1 DEF CommittedAs
      <3>2. outbox'[r] # Aborted(outbox[r])  BY <2>1 DEF Aborted
      <3>3. outbox'[r] # Marked(outbox[r])  BY <2>1 DEF Marked
      <3>4. outbox'[r] = outbox[r]  BY <2>2, <3>1, <3>2, <3>3, RecordSteps
      <3>5. r \in OpenRecords  BY <2>1, <2>2, <3>4 DEF OpenRecords
      <3>6. ~ \E S \in SUBSET OpenRecords : Commit(S) /\ r \in S
        BY <2>2, <3>1, CommitFacts
      <3> QED  BY <3>5, <3>6
    <2>3. CASE r \notin 1 .. Len(outbox)
      <3>1. r = Len(outbox) + 1 /\ Len(outbox') = Len(outbox) + 1
        BY <1>0, <2>1, <2>3, RecordSteps
      <3> QED  BY <3>1, RecordSteps
    <2> QED  BY <2>2, <2>3
  <1>3. ASSUME NEW r \in OpenRecords' PROVE status'[outbox'[r].event] \in {"NONE", "DLQ"}
    <2>1. CASE /\ r \in OpenRecords
               /\ ~ \E S \in SUBSET OpenRecords : Commit(S) /\ r \in S
      <3>1. r \in 1 .. Len(outbox)  BY <2>1 DEF OpenRecords
      <3>2. PICK e \in Events : e = outbox[r].event  BY <1>0, <3>1
      <3>3. Locked(e) /\ status[e] \in {"NONE", "DLQ"}  BY <2>1, <3>2 DEF Locked, KnownInv
      <3>4. ~ \E S \in SUBSET OpenRecords : Commit(S) /\ \E q \in S : outbox[q].event = e
        BY <2>1, <3>2 DEF KnownInv
      <3>5. status'[e] = status[e]  BY <3>3, <3>4, StatusOfLocked
      <3> QED  BY <1>0, <3>1, <3>2, <3>3, <3>5
    <2>2. CASE \E e \in Events : Opens(e) /\ outbox'[r] = Inserted(e)
      <3>1. PICK e \in Events : Opens(e) /\ outbox'[r] = Inserted(e)  BY <2>2
      <3>2. outbox'[r].event = e  BY <3>1 DEF Inserted
      <3>3. status' = status  BY <3>1 DEF Opens, InsertRecord
      <3>4. status[e] \in {"NONE", "DLQ"}  BY <3>1 DEF Opens
      <3> QED  BY <3>2, <3>3, <3>4
    <2> QED  BY <1>2, <2>1, <2>2
  <1>4. ASSUME NEW q \in OpenRecords', NEW r \in OpenRecords', outbox'[q].event = outbox'[r].event
        PROVE  q = r
    <2>1. \A k \in OpenRecords : k \in 1 .. Len(outbox)  BY DEF OpenRecords
    <2>2. ASSUME NEW j \in OpenRecords, NEW k, NEW e \in Events, Opens(e),
                 outbox'[k] = Inserted(e)
          PROVE  outbox'[j].event # outbox'[k].event
      <3>1. outbox'[k].event = e  BY <2>2 DEF Inserted
      <3>2. outbox[j].event # e  BY <2>2 DEF Opens, InsertRecord, Locked
      <3> QED  BY <1>0, <2>1, <3>1, <3>2
    <2>3. CASE q \in OpenRecords /\ r \in OpenRecords  BY <1>0, <1>4, <2>1, <2>3 DEF KnownInv
    <2> QED  BY <1>2, <1>4, <2>2, <2>3
  <1> QED  BY <1>1, <1>3, <1>4 DEF KnownInv

LEMMA KnownInvariant == Spec => [](HandInv /\ KnownInv)
  <1>1. Init => KnownInv  BY EmptySeq DEF Init, KnownInv, Committed, OpenRecords
  <1>2. (TypeInv /\ HandInv) /\ KnownInv /\ [Next]_vars => KnownInv'  BY NextKnown
  <1> QED  BY <1>1, <1>2, HandInvariant, PTL DEF Spec

\* The attempts on record as DeliveryPromise sees them.
Evidence == [e \in Events |->
                {v \in {"SUCCESS", "FAILED"} :
                    \E t \in Endpoints :
                        [event |-> e, endpoint |-> t, status |-> v] \in attempts}]

\* The only step that puts evidence on record is RecordDeliveryAttempt.
LEMMA EvidenceSteps ==
    ASSUME TypeInv, [Next]_vars
    PROVE  Evidence' = Evidence \/ \E c \in Consumers : Record(c)
  <1> USE DEF repoVars
  <1>1. attempts' = attempts \/ \E c \in Consumers : Record(c)
    <2>1. CASE Api
      BY <2>1, ApiFrame DEF ApiLeavesAlone
    <2>2. CASE \E y \in Relays : Relay(y)
      BY <2>2 DEF Relay, RelayFetch, RelayPoll, RelayPublish, RelayMark, RelayExit, vars
    <2>3. CASE (\E w \in Workers : ReadEvents(w)) \/ Claim
      BY <2>3 DEF ReadEvents, Claim, AutoClaim
    <2>4. CASE \E c \in Consumers : Process(c)
      BY <2>4 DEF Process, NextMessage, Fence, Resolve, Post, Update, Abort, AckEvent,
                  ConsumerExit
    <2>5. CASE Quarantine \/ Shutdown \/ Restart \/ Crash \/ UNCHANGED vars
      BY <2>5 DEF Quarantine, Shutdown, Restart, Crash, NewProcess, vars
    <2> QED  BY <2>1, <2>2, <2>3, <2>4, <2>5 DEF Next
  <1> QED  BY <1>1 DEF Evidence

LEMMA RecordIsAttempt ==
    ASSUME TypeInv, HandInv, KnownInv, NEW c \in Consumers, Record(c)
    PROVE  [Promise!Next]_Promise!vars
  <1> DEFINE e == EventOf(c)
             new == [event |-> e, endpoint |-> ep[c], status |-> verdict[c]]
  <1>1. /\ e \in Events /\ ep[c] \in Endpoints /\ verdict[c] \in Verdicts
        /\ status[e] # "NONE" /\ status' = status
    BY EventInHand, MessagesAreKnown DEF Record, TypeInv, WhereOK, EventOf
  <1> HIDE DEF e
  <1>2. attempts' = attempts \/ attempts' = attempts \cup {new}
    BY DEF Record, e
  <1>3. CASE Evidence' = Evidence
    BY <1>1, <1>3 DEF Promise!vars, Evidence
  <1>4. CASE Evidence' # Evidence
    <2>1. attempts' = attempts \cup {new}  BY <1>2, <1>4 DEF Evidence
    <2>2. \A f \in Events, t \in Endpoints, v \in {"SUCCESS", "FAILED"} :
            [event |-> f, endpoint |-> t, status |-> v] \in attempts' <=>
               \/ [event |-> f, endpoint |-> t, status |-> v] \in attempts
               \/ f = e /\ t = ep[c] /\ v = verdict[c]
      BY <2>1
    <2>3. verdict[c] \in {"SUCCESS", "FAILED"}
      <3>1. ASSUME verdict[c] \notin {"SUCCESS", "FAILED"} PROVE FALSE
        <4>1. \A f \in Events, t \in Endpoints, v \in {"SUCCESS", "FAILED"} :
                [event |-> f, endpoint |-> t, status |-> v] \in attempts' <=>
                [event |-> f, endpoint |-> t, status |-> v] \in attempts
          BY <2>2, <3>1
        <4>2. Evidence' = Evidence  BY <4>1 DEF Evidence
        <4> QED  BY <1>4, <4>2
      <3> QED  BY <3>1
    <2>4. Evidence' = [Evidence EXCEPT ![e] = @ \cup {verdict[c]}]
      <3>1. \A f \in Events : f # e => Evidence'[f] = Evidence[f]
        BY <2>2 DEF Evidence
      <3>2. Evidence'[e] = Evidence[e] \cup {verdict[c]}
        BY <1>1, <2>2, <2>3 DEF Evidence
      <3>3. Evidence' = [f \in Events |-> Evidence'[f]]  BY DEF Evidence
      <3>4. Evidence = [f \in Events |-> Evidence[f]]  BY DEF Evidence
      <3> QED  BY <1>1, <3>1, <3>2, <3>3, <3>4
    <2>5. PICK f \in Events, v \in {"SUCCESS", "FAILED"} : f = e /\ v = verdict[c]
      BY <1>1, <2>3
    <2>6. Promise!Attempt(f, v)
      BY <1>1, <2>4, <2>5 DEF Promise!Attempt, Promise!Known, Evidence
    <2> QED  BY <2>6 DEF Promise!Next
  <1> QED  BY <1>3, <1>4

LEMMA StepIsPromiseStep ==
    ASSUME EvidenceInv, HandInv, KnownInv, [Next]_vars PROVE [Promise!Next]_Promise!vars
  <1>0. TypeInv  BY DEF EvidenceInv
  <1>1. CASE \E c \in Consumers : Record(c)  BY <1>0, <1>1, RecordIsAttempt
  <1>2. CASE Evidence' = Evidence
    <2> USE <1>0, <1>2
    <2>1. CASE status' = status  BY <2>1 DEF Promise!vars, Evidence
    <2>2. CASE \E S \in SUBSET OpenRecords : Commit(S)
      <3>1. PICK S \in SUBSET OpenRecords : Commit(S)  BY <2>2
      <3> DEFINE T == {e \in Events : \E r \in S : outbox[r].event = e}
      <3>2. status' = [e \in Events |-> IF e \in T THEN "PENDING" ELSE status[e]]
        BY <3>1 DEF Commit
      <3>3. \A r \in S : outbox[r].event \in Events /\ status[outbox[r].event] \in {"NONE", "DLQ"}
        BY OutboxEvents DEF OpenRecords, KnownInv
      <3>4. CASE \A e \in T : status[e] = "DLQ"
        <4> HIDE DEF T
        <4>1. Promise!Reopen(T)  BY <3>2, <3>4 DEF Promise!Reopen, Evidence
        <4>2. T \in SUBSET Events  BY DEF T
        <4> QED  BY <4>1, <4>2 DEF Promise!Next
      <3>5. CASE ~ \A e \in T : status[e] = "DLQ"
        <4>1. PICK r : S = {r}
          BY <3>1, <3>5 DEF Commit, IsTransaction
        <4>2. PICK e \in Events : e = outbox[r].event  BY <3>3, <4>1
        <4>3. T = {e}  BY <4>1, <4>2
        <4>4. status[e] = "NONE"  BY <3>3, <3>5, <4>1, <4>2, <4>3
        <4> HIDE DEF T
        <4>5. status' = [status EXCEPT ![e] = "PENDING"]
          BY <3>2, <4>3 DEF TypeInv, TypeOK, RepoTypeOK
        <4>6. Promise!Accept(e)  BY <4>4, <4>5 DEF Promise!Accept, Promise!Known, Evidence
        <4> QED  BY <4>6 DEF Promise!Next
      <3> QED  BY <3>4, <3>5
    <2>4. ASSUME NEW c \in Consumers, Update(c),
                 SetStatus(c, IF verdict[c] = "SUCCESS" THEN "DELIVERED" ELSE "DLQ")
          PROVE  Promise!Next
      <3>1. pc[c] = "update" /\ Backed(c)  BY <2>4 DEF Update, EvidenceInv
      <3>2. EventOf(c) \in Events /\ status[EventOf(c)] # "NONE" /\ ep[c] \in Endpoints
        BY <3>1, EventInHand, MessagesAreKnown DEF EventOf, TypeInv, WhereOK
      <3>3. CASE verdict[c] = "SUCCESS"
        <4>1. "SUCCESS" \in Evidence[EventOf(c)]
          BY <3>1, <3>2, <3>3 DEF Backed, Evidence
        <4>2. Promise!Deliver(EventOf(c))
          BY <2>4, <3>2, <3>3, <4>1 DEF SetStatus, Promise!Deliver, Promise!Known, Evidence
        <4> QED  BY <3>2, <4>2 DEF Promise!Next
      <3>4. CASE verdict[c] # "SUCCESS"
        <4>1. Promise!DeadLetter(EventOf(c))
          BY <2>4, <3>2, <3>4 DEF SetStatus, Promise!DeadLetter, Promise!Known, Evidence
        <4> QED  BY <3>2, <4>1 DEF Promise!Next
      <3> QED  BY <3>3, <3>4
    <2>5. CASE Quarantine /\ SetStatus(Reclaimer, "DLQ")
      <3>1. Reclaimer \in Consumers /\ pc[Reclaimer] \in Busy
        BY <2>5 DEF Consumers, Quarantine
      <3>2. EventOf(Reclaimer) \in Events /\ status[EventOf(Reclaimer)] # "NONE"
        BY <3>1, EventInHand, MessagesAreKnown DEF EventOf
      <3>3. Promise!DeadLetter(EventOf(Reclaimer))
        BY <2>5, <3>2 DEF SetStatus, Promise!DeadLetter, Promise!Known, Evidence
      <3> QED  BY <3>2, <3>3 DEF Promise!Next
    <2> QED  BY <2>1, <2>2, <2>4, <2>5, StatusSteps
  <1> QED  BY <1>0, <1>1, <1>2, EvidenceSteps

\* The pipeline implements DeliveryPromise: whatever interleaving, failure, crash or
\* reclaim happens, an observer of events.status and of the delivery attempts sees each
\* event accepted once, delivered only on the evidence of a recorded success, and
\* reopened only from the DLQ.
THEOREM PromiseIsKept == Spec => KeepsPromise
  <1>1. Init => Promise!Init  BY DEF Init, Promise!Init
  <1>2. EvidenceInv /\ (HandInv /\ KnownInv) /\ [Next]_vars => [Promise!Next]_Promise!vars
    BY StepIsPromiseStep
  <1> QED
    BY <1>1, <1>2, EvidenceInvariant, KnownInvariant, PTL DEF Spec, KeepsPromise, Promise!Spec

(***************************************************************************)
(* The consumer group hands each message to one worker                     *)
(***************************************************************************)

\* Everything a consumer or the PEL holds was given out by the group, so that what is
\* given out next is held by nobody.
GroupInv ==
    /\ pel \subseteq 1 .. lastDelivered
    /\ DOMAIN claimAttempts \subseteq 1 .. lastDelivered
    /\ \A c \in Consumers : batch[c] \subseteq 1 .. lastDelivered
    /\ \A v, w \in Workers : v # w => batch[v] \cap batch[w] = {}

\* The messages of a read are new to the group, which moves past them.
LEMMA ReadIsNew ==
    ASSUME TypeInv, NEW w \in Workers, ReadEvents(w)
    PROVE  /\ lastDelivered \in Nat /\ lastDelivered' \in Nat /\ lastDelivered < lastDelivered'
           /\ FirstOf(Unread, BatchSize) \subseteq lastDelivered + 1 .. lastDelivered'
  <1> DEFINE msgs == FirstOf(Unread, BatchSize)
  <1>1. /\ lastDelivered' \in msgs
        /\ \A m \in msgs : m <= lastDelivered'
    BY DEF ReadEvents
  <1>2. lastDelivered \in Nat /\ Len(stream) \in Nat
    BY LenProperties DEF TypeInv, TypeOK, StreamTypeOK
  <1>3. \A m \in msgs : m \in Nat /\ m > lastDelivered
    BY <1>2 DEF FirstOf, Unread
  <1> HIDE DEF msgs
  <1>4. lastDelivered' \in Nat /\ lastDelivered < lastDelivered'  BY <1>1, <1>2, <1>3
  <1>5. msgs \subseteq lastDelivered + 1 .. lastDelivered'  BY <1>1, <1>2, <1>3, <1>4
  <1> QED  BY <1>2, <1>4, <1>5 DEF msgs

LEMMA ReadEventsGroup ==
    ASSUME TypeInv, GroupInv, NEW w \in Workers, ReadEvents(w) PROVE GroupInv'
  <1> DEFINE msgs == FirstOf(Unread, BatchSize)
  <1>1. /\ lastDelivered \in Nat /\ lastDelivered' \in Nat /\ lastDelivered < lastDelivered'
        /\ msgs \subseteq lastDelivered + 1 .. lastDelivered'
    BY ReadIsNew
  <1>2. /\ pel' = pel \cup msgs /\ claimAttempts' = claimAttempts
        /\ batch' = batch \/ batch' = [batch EXCEPT ![w] = msgs]
    BY DEF ReadEvents
  <1> HIDE DEF msgs
  <1>3. 1 .. lastDelivered \subseteq 1 .. lastDelivered' /\ msgs \subseteq 1 .. lastDelivered'
    BY <1>1
  <1>4. msgs \cap 1 .. lastDelivered = {}  BY <1>1
  <1>5. Workers \subseteq Consumers  BY DEF Consumers
  <1>6. \A c \in Consumers : batch'[c] = batch[c] \/ (c = w /\ batch'[c] = msgs)
    BY <1>2 DEF TypeInv, TypeOK, ConsumerTypeOK
  <1>7. \A c \in Consumers : batch'[c] \subseteq 1 .. lastDelivered'
    BY <1>3, <1>6 DEF GroupInv
  <1>8. ASSUME NEW u \in Workers, NEW v \in Workers, u # v
        PROVE  batch'[u] \cap batch'[v] = {}
    BY <1>4, <1>5, <1>6, <1>8 DEF GroupInv
  <1>9. pel' \subseteq 1 .. lastDelivered' /\ DOMAIN claimAttempts' \subseteq 1 .. lastDelivered'
    BY <1>2, <1>3 DEF GroupInv
  <1> QED  BY <1>7, <1>8, <1>9 DEF GroupInv

\* A step that gives nothing out.
LEMMA GroupFrame ==
    ASSUME GroupInv, lastDelivered' = lastDelivered, pel' \subseteq pel,
           DOMAIN claimAttempts' \subseteq 1 .. lastDelivered,
           \A c \in Consumers : batch'[c] \subseteq batch[c]
    PROVE  GroupInv'
  <1>1. Workers \subseteq Consumers  BY DEF Consumers
  <1>2. ASSUME NEW u \in Workers, NEW v \in Workers, u # v
        PROVE  batch'[u] \cap batch'[v] = {}
    BY <1>1, <1>2 DEF GroupInv
  <1>3. \A c \in Consumers : batch'[c] \subseteq 1 .. lastDelivered  BY DEF GroupInv
  <1> QED  BY <1>2, <1>3 DEF GroupInv

LEMMA AutoClaimGroup ==
    ASSUME TypeInv, GroupInv, NEW idle \in SUBSET pel, AutoClaim(idle) PROVE GroupInv'
  <1>1. PICK kept \in SUBSET pel : batch' = [batch EXCEPT ![Reclaimer] = kept]
    BY DEF AutoClaim
  <1>2. UNCHANGED <<lastDelivered, claimAttempts>> /\ pel' \subseteq pel  BY DEF AutoClaim
  <1>3. Workers \subseteq Consumers /\ Reclaimer \notin Workers
    BY ConstantsAssumption DEF Consumers
  <1>4. \A c \in Consumers : IF c = Reclaimer THEN batch'[c] = kept ELSE batch'[c] = batch[c]
    BY <1>1 DEF TypeInv, TypeOK, ConsumerTypeOK
  <1>5. \A c \in Consumers : batch'[c] \subseteq 1 .. lastDelivered  BY <1>4 DEF GroupInv
  <1>6. \A v, w \in Workers : v # w => batch'[v] \cap batch'[w] = {}
    BY <1>3, <1>4 DEF GroupInv
  <1> QED  BY <1>2, <1>5, <1>6 DEF GroupInv

LEMMA ProcessGroup ==
    ASSUME TypeInv, GroupInv, NEW c \in Consumers, Process(c) \/ (Quarantine /\ c = Reclaimer)
    PROVE  GroupInv'
  <1>1. lastDelivered' = lastDelivered  BY PassesAreApart
  <1>2. \A d \in Consumers : batch'[d] \subseteq batch[d]
    BY DEF Process, NextMessage, Fence, Resolve, Post, Record, Update, Abort, AckEvent,
           ConsumerExit, Quarantine, TypeInv, TypeOK, ConsumerTypeOK
  <1>3. pel' \subseteq pel
    BY DEF Process, NextMessage, Fence, Resolve, Post, Record, Update, Abort, AckEvent,
           ConsumerExit, Quarantine, streamVars
  <1>4. DOMAIN claimAttempts' \subseteq 1 .. lastDelivered
    <2>1. CASE NextMessage(c)
      <3>1. PICK m \in batch[c] :
               DOMAIN claimAttempts' \subseteq DOMAIN claimAttempts \cup {m}
        BY <2>1 DEF NextMessage
      <3> QED  BY <3>1 DEF GroupInv
    <2>2. CASE ~NextMessage(c)
      <3>1. claimAttempts' = claimAttempts
        BY <2>2 DEF Process, Fence, Resolve, Post, Record, Update, Abort, AckEvent,
                    ConsumerExit, Quarantine
      <3> QED  BY <3>1 DEF GroupInv
    <2> QED  BY <2>1, <2>2
  <1> QED  BY <1>1, <1>2, <1>3, <1>4, GroupFrame

LEMMA NextGroup == ASSUME TypeInv, GroupInv, [Next]_vars PROVE GroupInv'
  <1>1. CASE Api \/ (\E y \in Relays : Relay(y)) \/ Shutdown \/ UNCHANGED vars
    <2>1. UNCHANGED <<lastDelivered, pel, claimAttempts, batch>>
      BY <1>1, ApiFrame DEF ApiLeavesAlone, Relay, RelayFetch, RelayPoll,
                  RelayPublish, RelayMark, RelayExit, XAdd, Shutdown, vars, streamVars,
                  consumerVars
    <2> QED  BY <2>1 DEF GroupInv
  <1>2. CASE \E w \in Workers : ReadEvents(w)  BY <1>2, ReadEventsGroup
  <1>3. CASE Claim  BY <1>3, AutoClaimGroup DEF Claim
  <1>4. CASE (\E c \in Consumers : Process(c)) \/ Quarantine
    <2>1. Reclaimer \in Consumers  BY DEF Consumers
    <2> QED  BY <1>4, <2>1, ProcessGroup
  <1>5. CASE Restart \/ Crash
    <2>1. /\ \A c \in Consumers : batch'[c] = {}
          /\ DOMAIN claimAttempts' = {}
          /\ UNCHANGED <<lastDelivered, pel>> \/ pel' = {}
      BY <1>5 DEF Restart, Crash, NewProcess, streamVars
    <2>2. Workers \subseteq Consumers  BY DEF Consumers
    <2> QED  BY <2>1, <2>2 DEF GroupInv
  <1> QED  BY <1>1, <1>2, <1>3, <1>4, <1>5 DEF Next

LEMMA InitGroup == ASSUME Init PROVE GroupInv
  BY DEF Init, GroupInv, Consumers

LEMMA GroupInvariant == Spec => [](TypeInv /\ GroupInv)
  <1>1. Init => TypeInv /\ GroupInv  BY InitTypeInv, InitGroup
  <1>2. TypeInv /\ GroupInv /\ [Next]_vars => (TypeInv /\ GroupInv)'
    BY NextType, NextGroup
  <1> QED  BY <1>1, <1>2, PTL DEF Spec

\* Two workers never hold the same message, for any number of workers and any batch size,
\* although reads lose their answers, entries are reclaimed and the process is restarted.
THEOREM OneWorkerPerMessage == Spec => []GroupIsExclusive
  <1>1. TypeInv /\ GroupInv => GroupIsExclusive
    <2> SUFFICES ASSUME TypeInv, GroupInv PROVE GroupIsExclusive  OBVIOUS
    <2>1. lastDelivered \in Nat
      BY LenProperties DEF TypeInv, TypeOK, StreamTypeOK
    <2>2. \A w \in Workers : \A m \in batch[w] : m <= lastDelivered
      BY <2>1 DEF GroupInv, Consumers
    <2>3. \A v, w \in Workers : v # w => batch[w] \cap batch[v] = {}  BY DEF GroupInv
    <2> QED  BY <2>2, <2>3 DEF GroupIsExclusive
  <1> QED  BY <1>1, GroupInvariant, PTL

(***************************************************************************)
(* The claim ceiling needs failures                                        *)
(***************************************************************************)

InPass(m) == pc[Reclaimer] \in Busy \cup {"ack"} /\ cur[Reclaimer] = m

\* A message is claimed once more than something failed, and only while the reclaimer has
\* it in hand: a pass whose acknowledgement succeeds ends the message.
CountInv ==
    \A m \in DOMAIN claimAttempts :
        /\ claimAttempts[m] <= faults + 1
        /\ ~cancelled /\ m \in pel \cup batch[Reclaimer] /\ ~InPass(m) =>
              claimAttempts[m] <= faults

PoisonInv ==
    /\ pc[Reclaimer] \in Busy \cup {"ack"} => cur[Reclaimer] \in DOMAIN claimAttempts
    /\ pc[Reclaimer] = "poison" => claimAttempts[cur[Reclaimer]] > MaxClaimAttempts

CeilingInv == TypeInv /\ GroupInv /\ CountInv /\ PoisonInv

LEMMA CountTypes ==
    ASSUME TypeInv
    PROVE  /\ \A m \in DOMAIN claimAttempts : claimAttempts[m] \in Nat
           /\ faults \in Nat /\ Reclaimer \in Consumers
  BY DEF TypeInv, TypeOK, ProcessTypeOK, Consumers

\* A step that starts and ends no pass of the reclaimer and adds no entry it has counted
\* to the PEL.
LEMMA CountFrame ==
    ASSUME CeilingInv,
           claimAttempts' = claimAttempts, faults' \in Nat, faults <= faults',
           cancelled => cancelled',
           pel' \cap DOMAIN claimAttempts \subseteq pel,
           batch'[Reclaimer] = batch[Reclaimer], cur'[Reclaimer] = cur[Reclaimer],
           \/ pc'[Reclaimer] = pc[Reclaimer]
           \/ /\ pc[Reclaimer] \in Busy
              /\ pc'[Reclaimer] \in (Busy \ {"poison"}) \cup {"ack"}
    PROVE  CountInv' /\ PoisonInv'
  <1>1. /\ \A m \in DOMAIN claimAttempts : claimAttempts[m] \in Nat
        /\ faults \in Nat
    BY CountTypes DEF CeilingInv
  <1>2. CountInv'
    <2> SUFFICES ASSUME NEW m \in DOMAIN claimAttempts
                 PROVE  /\ claimAttempts[m] <= faults' + 1
                        /\ ~cancelled' /\ m \in pel' \cup batch'[Reclaimer] /\ ~InPass(m)' =>
                              claimAttempts[m] <= faults'
      BY DEF CountInv
    <2>1. InPass(m)' = InPass(m)  BY DEF InPass
    <2>2. /\ claimAttempts[m] <= faults + 1
          /\ ~cancelled /\ m \in pel \cup batch[Reclaimer] /\ ~InPass(m) =>
                claimAttempts[m] <= faults
      BY DEF CeilingInv, CountInv
    <2> QED  BY <1>1, <2>1, <2>2
  <1>3. PoisonInv'  BY DEF CeilingInv, PoisonInv
  <1> QED  BY <1>2, <1>3

\* A claimed entry was pending: what it has been counted so far, failures have paid for.
LEMMA AutoClaimCount ==
    ASSUME CeilingInv, NEW idle \in SUBSET pel, AutoClaim(idle) PROVE CountInv' /\ PoisonInv'
  <1>1. /\ pc[Reclaimer] = "idle" /\ pel' \subseteq pel
        /\ UNCHANGED <<claimAttempts, faults, cancelled>>
        /\ pc'[Reclaimer] \in {"idle", "next"} /\ batch'[Reclaimer] \subseteq pel
    BY CountTypes DEF AutoClaim, CeilingInv, TypeInv, TypeOK, ConsumerTypeOK
  <1> QED  BY <1>1 DEF CeilingInv, CountInv, PoisonInv, InPass

LEMMA NextMessageCount ==
    ASSUME CeilingInv, NextMessage(Reclaimer) PROVE CountInv' /\ PoisonInv'
  <1>1. PICK m \in batch[Reclaimer] :
          /\ cur' = [cur EXCEPT ![Reclaimer] = m]
          /\ claimAttempts' = [k \in DOMAIN claimAttempts \cup {m} |->
                                  IF k = m THEN ClaimCount(m) + 1 ELSE claimAttempts[k]]
          /\ pc' = [pc EXCEPT ![Reclaimer] = IF ClaimCount(m) + 1 > MaxClaimAttempts
                                             THEN "poison" ELSE "fence"]
    BY DEF NextMessage
  <1>2. /\ pc[Reclaimer] = "next" /\ ~cancelled
        /\ UNCHANGED <<pel, batch, cancelled, faults>>
    BY DEF NextMessage, streamVars
  <1>3. /\ \A k \in DOMAIN claimAttempts : claimAttempts[k] \in Nat
        /\ faults \in Nat /\ Reclaimer \in Consumers
    BY CountTypes DEF CeilingInv
  <1>4. cur'[Reclaimer] = m
    BY <1>1, <1>3 DEF CeilingInv, TypeInv, TypeOK, ConsumerTypeOK
  <1>5. pc'[Reclaimer] = IF ClaimCount(m) + 1 > MaxClaimAttempts THEN "poison" ELSE "fence"
    BY <1>1, <1>3 DEF CeilingInv, TypeInv, TypeOK, ConsumerTypeOK
  <1>6. DOMAIN claimAttempts' = DOMAIN claimAttempts \cup {m}  BY <1>1
  <1>7. claimAttempts'[m] = ClaimCount(m) + 1  BY <1>1
  <1>8. \A k \in DOMAIN claimAttempts : k # m => claimAttempts'[k] = claimAttempts[k]  BY <1>1
  <1>9. ClaimCount(m) \in Nat /\ ClaimCount(m) <= faults
    BY <1>2, <1>3 DEF CeilingInv, CountInv, InPass, ClaimCount
  <1>10. CountInv'
    <2> SUFFICES ASSUME NEW k \in DOMAIN claimAttempts'
                 PROVE  /\ claimAttempts'[k] <= faults' + 1
                        /\ ~cancelled' /\ k \in pel' \cup batch'[Reclaimer] /\ ~InPass(k)' =>
                              claimAttempts'[k] <= faults'
      BY DEF CountInv
    <2>1. CASE k = m
      <3>1. InPass(k)'  BY <1>4, <1>5, <2>1 DEF InPass
      <3> QED  BY <1>2, <1>3, <1>7, <1>9, <2>1, <3>1
    <2>2. CASE k # m
      <3>1. k \in DOMAIN claimAttempts /\ claimAttempts'[k] = claimAttempts[k]
        BY <1>6, <1>8, <2>2
      <3>2. ~InPass(k)  BY <1>2 DEF InPass
      <3> QED  BY <1>2, <3>1, <3>2 DEF CeilingInv, CountInv
    <2> QED  BY <2>1, <2>2
  <1>11. PoisonInv'  BY <1>4, <1>5, <1>6, <1>7 DEF PoisonInv
  <1> QED  BY <1>10, <1>11

\* The pass ends: either the message is acknowledged, or a failure pays for its next claim.
LEMMA AckEventCount ==
    ASSUME CeilingInv, AckEvent(Reclaimer) PROVE CountInv' /\ PoisonInv'
  <1>1. /\ \A k \in DOMAIN claimAttempts : claimAttempts[k] \in Nat
        /\ faults \in Nat /\ Reclaimer \in Consumers
    BY CountTypes DEF CeilingInv
  <1>2. /\ pc[Reclaimer] = "ack"
        /\ batch'[Reclaimer] = batch[Reclaimer] \ {cur[Reclaimer]}
        /\ pc'[Reclaimer] \in {"idle", "next"}
        /\ UNCHANGED <<claimAttempts, cancelled>>
    BY <1>1 DEF AckEvent, Goto, CeilingInv, TypeInv, TypeOK, ConsumerTypeOK
  <1>3. \/ pel' = pel \ {cur[Reclaimer]} /\ faults' = faults
        \/ cancelled /\ pel' = pel /\ faults' = faults
        \/ pel' = pel /\ faults' = faults + 1
    BY DEF AckEvent, Fault
  <1>4. CountInv'
    <2> SUFFICES ASSUME NEW k \in DOMAIN claimAttempts
                 PROVE  /\ claimAttempts[k] <= faults' + 1
                        /\ ~cancelled' /\ k \in pel' \cup batch'[Reclaimer] =>
                              claimAttempts[k] <= faults'
      BY <1>2 DEF CountInv
    <2>1. /\ claimAttempts[k] <= faults + 1
          /\ ~cancelled /\ k \in pel \cup batch[Reclaimer] /\ k # cur[Reclaimer] =>
                claimAttempts[k] <= faults
      BY DEF CeilingInv, CountInv, InPass
    <2> QED  BY <1>1, <1>2, <1>3, <2>1
  <1>5. PoisonInv'  BY <1>2 DEF PoisonInv
  <1> QED  BY <1>4, <1>5

LEMMA ReclaimerCount ==
    ASSUME CeilingInv, [Next]_vars, Process(Reclaimer) \/ Quarantine PROVE CountInv' /\ PoisonInv'
  <1>1. TypeInv /\ Reclaimer \in Consumers  BY DEF CeilingInv, Consumers
  <1>2. faults' \in Nat /\ faults <= faults'  BY <1>1, HistoryGrows
  <1>3. CASE NextMessage(Reclaimer)  BY <1>3, NextMessageCount
  <1>4. CASE AckEvent(Reclaimer)  BY <1>4, AckEventCount
  <1>5. CASE ConsumerExit(Reclaimer)
    <2>1. /\ cancelled' /\ pc'[Reclaimer] = "exited"
          /\ UNCHANGED <<claimAttempts, faults>>
      BY <1>1, <1>5 DEF ConsumerExit, Goto, TypeInv, TypeOK, ConsumerTypeOK
    <2> QED  BY <2>1 DEF CeilingInv, CountInv, PoisonInv
  <1>6. CASE \/ Fence(Reclaimer) \/ Resolve(Reclaimer) \/ Post(Reclaimer) \/ Record(Reclaimer)
             \/ Update(Reclaimer) \/ Abort(Reclaimer) \/ Quarantine
    <2>1. UNCHANGED <<claimAttempts, pel, batch, cur, cancelled>> /\ pc[Reclaimer] \in Busy
      BY <1>6 DEF Fence, Resolve, Post, Record, Update, Abort, Quarantine, streamVars
    <2>2. pc'[Reclaimer] \in {"ack", "resolve", "record", "post", "update"}
      <3>1. CASE Fence(Reclaimer) \/ Post(Reclaimer) \/ Quarantine
        BY <1>1, <3>1 DEF Fence, Post, Quarantine, Goto, TypeInv, TypeOK, ConsumerTypeOK
      <3>2. CASE Resolve(Reclaimer) \/ Update(Reclaimer) \/ Abort(Reclaimer)
        BY <1>1, <3>2, MovesOn DEF Resolve, Update, Abort, TypeInv, TypeOK, RepoTypeOK
      <3>3. CASE Record(Reclaimer)
        BY <1>1, <3>3, MovesOn DEF Record, Goto, TypeInv, TypeOK, ConsumerTypeOK
      <3> QED  BY <1>6, <3>1, <3>2, <3>3
    <2> QED  BY <1>2, <2>1, <2>2, CountFrame
  <1> QED  BY <1>3, <1>4, <1>5, <1>6 DEF Process

LEMMA NextCount == ASSUME CeilingInv, [Next]_vars PROVE CeilingInv'
  <1>1. TypeInv /\ GroupInv /\ TypeInv' /\ GroupInv'
    BY NextType, NextGroup DEF CeilingInv
  <1>2. faults' \in Nat /\ faults <= faults'  BY <1>1, HistoryGrows
  <1>3. Reclaimer \in Consumers /\ Workers \subseteq Consumers /\ Reclaimer \notin Workers
    BY ConstantsAssumption DEF Consumers
  <1>4. CASE Api \/ (\E y \in Relays : Relay(y)) \/ Shutdown \/ UNCHANGED vars
    <2>1. UNCHANGED <<pel, claimAttempts, batch, pc, cur>>
      BY <1>4, ApiFrame DEF ApiLeavesAlone, Relay, RelayFetch, RelayPoll,
                  RelayPublish, RelayMark, RelayExit, XAdd, Shutdown, vars, streamVars,
                  consumerVars
    <2>2. cancelled' = cancelled \/ cancelled' = TRUE
      BY <1>4, ApiFrame DEF ApiLeavesAlone, Relay, RelayFetch, RelayPoll,
                  RelayPublish, RelayMark, RelayExit, Shutdown, vars
    <2> QED  BY <1>1, <1>2, <2>1, <2>2, CountFrame DEF CeilingInv
  <1>5. CASE \E w \in Workers : ReadEvents(w)
    <2>1. PICK w \in Workers : ReadEvents(w)  BY <1>5
    <2>2. /\ UNCHANGED <<claimAttempts, cur, cancelled>>
          /\ pc'[Reclaimer] = pc[Reclaimer] /\ batch'[Reclaimer] = batch[Reclaimer]
          /\ pel' = pel \cup FirstOf(Unread, BatchSize)
      BY <1>1, <1>3, <2>1 DEF ReadEvents, TypeInv, TypeOK, ConsumerTypeOK
    <2>3. FirstOf(Unread, BatchSize) \cap DOMAIN claimAttempts = {}
      <3>1. /\ lastDelivered \in Nat /\ lastDelivered' \in Nat
            /\ FirstOf(Unread, BatchSize) \subseteq lastDelivered + 1 .. lastDelivered'
        BY <1>1, <2>1, ReadIsNew
      <3>2. lastDelivered + 1 .. lastDelivered' \cap 1 .. lastDelivered = {}  BY <3>1
      <3> QED  BY <1>1, <3>1, <3>2 DEF GroupInv
    <2> QED  BY <1>1, <1>2, <2>2, <2>3, CountFrame DEF CeilingInv
  <1>6. CASE Claim  BY <1>1, <1>6, AutoClaimCount DEF Claim, CeilingInv
  <1>7. CASE \E c \in Consumers : Process(c)
    <2>1. PICK c \in Consumers : Process(c)  BY <1>7
    <2>2. CASE c = Reclaimer  BY <1>1, <2>1, <2>2, ReclaimerCount DEF CeilingInv
    <2>3. CASE c # Reclaimer
      <3>1. /\ pc'[Reclaimer] = pc[Reclaimer] /\ cur'[Reclaimer] = cur[Reclaimer]
            /\ batch'[Reclaimer] = batch[Reclaimer] /\ cancelled' = cancelled
        BY <1>1, <1>3, <2>1, <2>3, PassesAreApart
      <3>2. claimAttempts' = claimAttempts /\ pel' \subseteq pel
        BY <2>1, <2>3 DEF Process, NextMessage, Fence, Resolve, Post, Record, Update, Abort,
                          AckEvent, ConsumerExit, streamVars
      <3> QED  BY <1>1, <1>2, <3>1, <3>2, CountFrame DEF CeilingInv
    <2> QED  BY <2>2, <2>3
  <1>8. CASE Quarantine  BY <1>1, <1>8, ReclaimerCount DEF CeilingInv
  <1>9. CASE Restart \/ Crash
    <2>1. DOMAIN claimAttempts' = {} /\ pc'[Reclaimer] = "idle"
      BY <1>3, <1>9 DEF Restart, Crash, NewProcess
    <2> QED  BY <1>1, <2>1 DEF CeilingInv, CountInv, PoisonInv
  <1> QED  BY <1>4, <1>5, <1>6, <1>7, <1>8, <1>9 DEF Next

LEMMA CeilingInvariant == Spec => []CeilingInv
  <1>1. Init => CeilingInv
    <2> SUFFICES ASSUME Init PROVE CeilingInv  OBVIOUS
    <2>1. DOMAIN claimAttempts = {} /\ pc[Reclaimer] = "idle"  BY DEF Init, Consumers
    <2> QED  BY <2>1, InitTypeInv, InitGroup DEF CeilingInv, CountInv, PoisonInv
  <1> QED  BY <1>1, NextCount, PTL DEF Spec

FailedOnRecord(e) ==
    \E t \in Endpoints : [event |-> e, endpoint |-> t, status |-> "FAILED"] \in attempts

LEMMA NextQuarantine ==
    ASSUME EvidenceInv, CeilingInv, QuarantineNeedsFailures, [Next]_vars
    PROVE  QuarantineNeedsFailures'
  <1>0. TypeInv  BY DEF EvidenceInv
  <1>1. /\ \A e \in Events : FailedOnRecord(e) => FailedOnRecord(e)'
        /\ faults \in Nat /\ faults' \in Nat /\ faults <= faults'
    BY <1>0, HistoryGrows DEF FailedOnRecord
  <1> SUFFICES ASSUME NEW e \in Events, status'[e] = "DLQ", faults' < MaxClaimAttempts
               PROVE  FailedOnRecord(e)'
    BY DEF QuarantineNeedsFailures, FailedOnRecord
  <1>2. MaxClaimAttempts \in Nat /\ faults < MaxClaimAttempts
    BY <1>1, ConstantsAssumption
  <1>3. CASE status[e] = "DLQ"
    BY <1>1, <1>2, <1>3 DEF QuarantineNeedsFailures, FailedOnRecord
  <1>4. CASE status[e] # "DLQ"
    <2>1. ~ \E S \in SUBSET OpenRecords : Commit(S)  BY <1>4 DEF Commit
    <2>3. pc[Reclaimer] # "poison"
      BY <1>0, <1>1, <1>2, CountTypes DEF CeilingInv, CountInv, PoisonInv
    <2>4. PICK c \in Consumers :
            /\ Update(c)
            /\ SetStatus(c, IF verdict[c] = "SUCCESS" THEN "DELIVERED" ELSE "DLQ")
      BY <1>0, <1>4, <2>1, <2>3, StatusSteps DEF Quarantine
    <2>5. pc[c] = "update"  BY <2>4 DEF Update
    <2>6. e = EventOf(c) /\ verdict[c] # "SUCCESS"
      BY <1>0, <1>4, <2>4, <2>5, SetStatusFacts
    <2>7. ep[c] \in Endpoints  BY <1>0, <2>5 DEF TypeInv, WhereOK
    <2>8. FailedOnRecord(e)
      BY <2>5, <2>6, <2>7 DEF EvidenceInv, Backed, FailedOnRecord
    <2> QED  BY <1>1, <2>8
  <1> QED  BY <1>3, <1>4

\* The claim ceiling of the reclaimer never sends a healthy event to the DLQ: it takes
\* MaxClaimAttempts failures (crashes, shutdowns, lost answers, failed calls) before an
\* event without a final failure on record is dead-lettered, for every ceiling.
THEOREM CeilingNeedsFailures == Spec => []QuarantineNeedsFailures
  <1>1. Init => QuarantineNeedsFailures  BY DEF Init, QuarantineNeedsFailures
  <1>2. EvidenceInv /\ CeilingInv /\ QuarantineNeedsFailures /\ [Next]_vars
           => QuarantineNeedsFailures'
    BY NextQuarantine
  <1> QED  BY <1>1, <1>2, EvidenceInvariant, CeilingInvariant, PTL DEF Spec

=============================================================================
