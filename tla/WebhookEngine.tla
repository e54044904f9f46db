---------------------------- MODULE WebhookEngine ----------------------------
(***************************************************************************)
(* The delivery pipeline of the webhook engine: the repository's events    *)
(* and outbox (internal/storage), the outbox relay (internal/outbox), the  *)
(* stream with its consumer group and pending entries list                 *)
(* (internal/queue), the worker pool with its PEL reclaimer                *)
(* (internal/worker), the dispatcher (internal/dispatcher) and the         *)
(* failures each of these calls can meet.                                  *)
(*                                                                         *)
(* One tenant, one stream, one consumer group.  A message is named by its  *)
(* position in the stream, an outbox record by its id.  Time is left out:  *)
(* a pending entry may always have become idle, because one pass over a    *)
(* message may last through several backoffs, each longer than             *)
(* MinIdleDuration.                                                        *)
(***************************************************************************)
EXTENDS Naturals, Sequences, FiniteSets

CONSTANTS
    Events,            \* the events clients may submit
    Endpoints,         \* the endpoints the tenant may register
    Preregistered,     \* those registered before the first event
    Workers,           \* the worker goroutines of the pool
    Reclaimer,         \* the pelRecoveryLoop goroutine
    Relays,            \* the relay loops: one per replica of the server
    RelayBatchSize,    \* limit of FetchAndLockPendingOutbox
    BatchSize,         \* Config.BatchSize of the pool
    MaxRetries,        \* BackoffPolicy.MaxRetries
    MaxClaimAttempts,  \* Config.MaxClaimAttempts
    MaxLen,            \* maxLenApprox of the stream, 0 when it is not trimmed
    DurableQueue,      \* TRUE for Redis, FALSE for the in-memory fallback
    Faults,            \* the kinds of failure that may happen
    MaxFaults,         \* bound: how many failures happen in all
    MaxOutbox          \* bound: how many outbox records are ever written

Consumers == Workers \cup {Reclaimer}

FaultKinds == {"crash", "shutdown", "publish", "mark", "read", "ack",
               "statusRead", "endpointsRead", "record", "update"}

\* A failed repository call that processMessage or Dispatch gives up on although
\* the message is acknowledged all the same.
LossyFaults == {"endpointsRead", "record", "update"}

\* A deployment without the losses the code is known to allow: Redis is up and its
\* stream has room, an endpoint exists before the first event, and the repository
\* calls of a pass over a message do not fail.
SafeDeployment ==
    /\ DurableQueue
    /\ MaxLen = 0
    /\ Preregistered # {}
    /\ Faults \cap LossyFaults = {}

ASSUME ConstantsAssumption ==
    /\ Preregistered \subseteq Endpoints
    /\ Reclaimer \notin Workers
    /\ RelayBatchSize \in Nat \ {0}
    /\ BatchSize \in Nat \ {0}
    /\ MaxRetries \in Nat
    /\ MaxClaimAttempts \in Nat \ {0}
    /\ MaxLen \in Nat
    /\ DurableQueue \in BOOLEAN
    /\ Faults \subseteq FaultKinds
    /\ MaxFaults \in Nat
    /\ MaxOutbox \in Nat

VARIABLES
    \* PostgreSQL
    status,         \* events.status, "NONE" before the event is ingested
    outbox,         \* outbox_events, in the order of their ids, open transactions' too
    attempts,       \* delivery_attempts, ids and times left out
    endpoints,      \* the registered endpoints, all active
    \* Redis
    stream,         \* every message ever added
    trimmed,        \* the messages up to this one were trimmed by XADD MAXLEN
    lastDelivered,  \* last-delivered id of the consumer group
    pel,            \* the pending entries list
    \* the server process
    relayPc, relayBatch, relayRecord,
    pc,             \* where each consumer is
    batch,          \* messages read or claimed and not yet finished
    cur,            \* the message being processed, 0 for none
    targets,        \* active endpoints this pass has yet to dispatch to
    ep,             \* the endpoint being dispatched to
    attemptNum,
    verdict,        \* the DeliveryStatus of the attempt being recorded
    claimAttempts,  \* WorkerPool.claimAttempts, lost with the process
    cancelled,      \* rootCtx is done
    \* the environment and history, read by no guard of the code
    faults,         \* how many failures have happened
    received,       \* what receivers answered 2xx
    settled         \* this pass saw, or wrote, a final status of its event

repoVars     == <<status, outbox, attempts, endpoints>>
streamVars   == <<stream, trimmed, lastDelivered, pel>>
relayVars    == <<relayPc, relayBatch, relayRecord>>
dispatchVars == <<targets, ep, attemptNum, verdict>>
consumerVars == <<pc, batch, cur, settled, claimAttempts, dispatchVars>>
vars == <<repoVars, streamVars, relayVars, consumerVars, cancelled, faults, received>>

NoEndpoint == "none"
Final      == {"DELIVERED", "DLQ"}
Verdicts   == {"SUCCESS", "RETRYING", "FAILED"}
Busy       == {"fence", "resolve", "post", "record", "update", "poison"}

(***************************************************************************)
(* Helpers                                                                 *)
(***************************************************************************)

\* A call fails and the failure counts against the bound on failures.
Fault(kind) == kind \in Faults /\ faults < MaxFaults /\ faults' = faults + 1

\* Mutant: the batch is not ORDER BY id.
AnyOf(x, S) == x \in S

IsLeast(x, S) == x \in S /\ \A y \in S : x <= y
FirstOf(S, n) == {x \in S : Cardinality({y \in S : y < x}) < n}

PendingRecords == {r \in 1 .. Len(outbox) : outbox[r].status = "PENDING"}
OpenRecords    == {r \in 1 .. Len(outbox) : outbox[r].status = "UNCOMMITTED"}

\* Mutant: the last message given out is given out again.
UnreadFromLast == {m \in 1 .. Len(stream) : m >= lastDelivered /\ m > trimmed}

\* Messages the consumer group has not been given and the stream still holds.
Unread == {m \in 1 .. Len(stream) : m > lastDelivered /\ m > trimmed}

\* IsRetryable and the retry budget decide what an attempt that was not answered
\* 2xx becomes.  A network error, 408, 429 and 5xx are TRANSIENT.
Classify(answer, n) ==
    IF answer = "OK" THEN "SUCCESS"
    ELSE IF answer = "TRANSIENT" /\ n < MaxRetries THEN "RETRYING" ELSE "FAILED"

Init ==
    /\ status = [e \in Events |-> "NONE"]
    /\ outbox = << >>
    /\ attempts = {}
    /\ endpoints = Preregistered
    /\ stream = << >>
    /\ trimmed = 0
    /\ lastDelivered = 0
    /\ pel = {}
    /\ relayPc = [y \in Relays |-> "idle"]
    /\ relayBatch = [y \in Relays |-> {}]
    /\ relayRecord = [y \in Relays |-> 0]
    /\ pc = [c \in Consumers |-> "idle"]
    /\ batch = [c \in Consumers |-> {}]
    /\ cur = [c \in Consumers |-> 0]
    /\ settled = [c \in Consumers |-> FALSE]
    /\ claimAttempts = [m \in {} |-> 0]
    /\ targets = [c \in Consumers |-> {}]
    /\ ep = [c \in Consumers |-> NoEndpoint]
    /\ attemptNum = [c \in Consumers |-> 0]
    /\ verdict = [c \in Consumers |-> "NONE"]
    /\ cancelled = FALSE
    /\ faults = 0
    /\ received = {}

(***************************************************************************)
(* The API and the repository                                              *)
(***************************************************************************)

\* The row of an event that an open transaction has written: others that would write it
\* wait, and what they read is what was committed before.
Locked(e) == \E r \in OpenRecords : outbox[r].event = e

\* INSERT INTO outbox_events: BIGSERIAL draws the id at once, although nobody sees the
\* record before its transaction commits.  late is history: see Commit.
InsertRecord(e) ==
    /\ ~Locked(e)
    /\ Len(outbox) < MaxOutbox
    /\ outbox' = Append(outbox, [event |-> e, status |-> "UNCOMMITTED", late |-> {}])
    /\ UNCHANGED <<status, attempts, endpoints, streamVars, relayVars, consumerVars,
                   cancelled, faults, received>>

\* The inserts of CreateEventWithOutbox.
CreateEventWithOutbox(e) == status[e] = "NONE" /\ InsertRecord(e)

\* Mutant: an event is reopened without a look at its status.
ReplayAnyEvent(e) == status[e] # "NONE" /\ InsertRecord(e)

\* One turn of the loop of ReplayDLQEvents.  The UPDATE and its condition are here the
\* lock of the row; the new status is seen with the commit.
ReplayDLQEvents(e) == status[e] = "DLQ" /\ InsertRecord(e)

\* The records of a transaction: one of CreateEventWithOutbox, or those of a replay.
IsTransaction(S) ==
    /\ S # {}
    /\ (\E r \in S : S = {r}) \/ (\A r \in S : status[outbox[r].event] = "DLQ")

\* The records a relay has in hand or has published.
Fetched == {stream[m].record : m \in 1 .. Len(stream)}
           \cup UNION {relayBatch[y] : y \in Relays}

\* tx.Commit: the events are PENDING and their records visible.  Transactions commit in
\* any order, so relays may have fetched records with later ids by then.
Commit(S) ==
    /\ IsTransaction(S)
    /\ status' = [e \in Events |-> IF \E r \in S : outbox[r].event = e
                                   THEN "PENDING" ELSE status[e]]
    /\ outbox' = [r \in DOMAIN outbox |->
                     IF r \in S THEN [event |-> outbox[r].event, status |-> "PENDING",
                                      late |-> {q \in Fetched : q > r}]
                     ELSE outbox[r]]
    /\ UNCHANGED <<attempts, endpoints, streamVars, relayVars, consumerVars,
                   cancelled, faults, received>>

\* tx.Rollback, or the connection of a process that died: the ids are not used again.
Rollback(S) ==
    /\ IsTransaction(S)
    /\ outbox' = [r \in DOMAIN outbox |->
                     IF r \in S THEN [outbox[r] EXCEPT !.status = "ABORTED"] ELSE outbox[r]]
    /\ UNCHANGED <<status, attempts, endpoints, streamVars, relayVars, consumerVars,
                   cancelled, faults, received>>

\* CreateEndpoint: endpoints are active from the start and are never removed.
RegisterEndpoint(t) ==
    /\ t \notin endpoints
    /\ endpoints' = endpoints \cup {t}
    /\ UNCHANGED <<status, outbox, attempts, streamVars, relayVars, consumerVars,
                   cancelled, faults, received>>

(***************************************************************************)
(* The outbox relay                                                        *)
(***************************************************************************)

RelayGoto(y, where, recs, rec) ==
    /\ relayPc' = [relayPc EXCEPT ![y] = where]
    /\ relayBatch' = [relayBatch EXCEPT ![y] = recs]
    /\ relayRecord' = [relayRecord EXCEPT ![y] = rec]

\* FetchAndLockPendingOutbox: the oldest pending records.  The row locks end
\* with the statement, so nothing keeps another relay from the same records.
RelayFetch(y) ==
    /\ relayPc[y] = "idle"
    /\ ~cancelled
    /\ PendingRecords # {}
    /\ RelayGoto(y, "publish", FirstOf(PendingRecords, RelayBatchSize), 0)
    /\ UNCHANGED <<repoVars, streamVars, consumerVars, cancelled, faults, received>>

\* The relay polls an empty outbox.
RelayPoll(y) ==
    /\ relayPc[y] = "idle"
    /\ ~cancelled
    /\ PendingRecords = {}
    /\ UNCHANGED vars

\* XADD, trimming the stream to about MaxLen entries.
XAdd(r) ==
    /\ stream' = Append(stream, [event |-> outbox[r].event, record |-> r])
    /\ trimmed' \in IF MaxLen > 0 /\ Len(stream) + 1 > trimmed + MaxLen
                    THEN trimmed .. (Len(stream) + 1 - MaxLen)
                    ELSE {trimmed}
    /\ UNCHANGED <<lastDelivered, pel>>

\* PublishEvent for the oldest record of the batch.  An error ends the batch,
\* whether or not Redis had added the message before its answer was lost.
RelayPublish(y) ==
    /\ relayPc[y] = "publish"
    /\ ~cancelled
    /\ \E r \in relayBatch[y] :
        /\ IsLeast(r, relayBatch[y])
        /\ \/ /\ XAdd(r)
              /\ RelayGoto(y, "mark", relayBatch[y], r)
              /\ UNCHANGED faults
           \/ /\ Fault("publish")
              /\ XAdd(r) \/ UNCHANGED streamVars
              /\ RelayGoto(y, "idle", {}, 0)
    /\ UNCHANGED <<repoVars, consumerVars, cancelled, received>>

\* Mutant: the UPDATE matches no row.
MarkNoRecord(r) == r \in DOMAIN outbox /\ UNCHANGED outbox

\* Mutant: the whole batch is marked with its first record.
MarkBatch(r) ==
    outbox' = [k \in DOMAIN outbox |->
                  IF k = r \/ \E y \in Relays : r = relayRecord[y] /\ k \in relayBatch[y]
                  THEN [outbox[k] EXCEPT !.status = "PUBLISHED"] ELSE outbox[k]]

MarkRecord(r) == outbox' = [outbox EXCEPT ![r].status = "PUBLISHED"]

\* MarkOutboxPublished, then the next record of the batch.
RelayMark(y) ==
    /\ relayPc[y] = "mark"
    /\ ~cancelled
    /\ LET r    == relayRecord[y]
           rest == relayBatch[y] \ {r}
       IN \/ /\ MarkRecord(r)
             /\ RelayGoto(y, IF rest = {} THEN "idle" ELSE "publish", rest, 0)
             /\ UNCHANGED faults
          \/ /\ Fault("mark")
             /\ MarkRecord(r) \/ UNCHANGED outbox
             /\ RelayGoto(y, "idle", {}, 0)
    /\ UNCHANGED <<status, attempts, endpoints, streamVars, consumerVars, cancelled, received>>

\* rootCtx is done: every call of the relay fails and Start returns.
RelayExit(y) ==
    /\ cancelled
    /\ relayPc[y] # "exited"
    /\ RelayGoto(y, "exited", {}, 0)
    /\ UNCHANGED <<repoVars, streamVars, consumerVars, cancelled, faults, received>>

(***************************************************************************)
(* Reading and claiming messages                                           *)
(***************************************************************************)

\* Mutant: XREADGROUP with NOACK.
ReadNoAck(w) ==
    /\ pc[w] = "idle"
    /\ ~cancelled
    /\ Unread # {}
    /\ LET msgs == FirstOf(Unread, BatchSize)
       IN /\ lastDelivered' \in msgs
          /\ \A m \in msgs : m <= lastDelivered'
          /\ batch' = [batch EXCEPT ![w] = msgs]
          /\ pc' = [pc EXCEPT ![w] = "next"]
    /\ UNCHANGED <<repoVars, stream, trimmed, pel, relayVars, cur, settled, claimAttempts,
                   dispatchVars, cancelled, faults, received>>

\* ReadEvents(">"): the group moves past the next messages, which are pending
\* from then on.  When the answer is lost the worker never sees them.
ReadEvents(w) ==
    /\ pc[w] = "idle"
    /\ ~cancelled
    /\ Unread # {}
    /\ LET msgs == FirstOf(Unread, BatchSize)
       IN /\ lastDelivered' \in msgs
          /\ \A m \in msgs : m <= lastDelivered'
          /\ pel' = pel \cup msgs
          /\ \/ /\ batch' = [batch EXCEPT ![w] = msgs]
                /\ pc' = [pc EXCEPT ![w] = "next"]
                /\ UNCHANGED faults
             \/ /\ Fault("read")
                /\ UNCHANGED <<batch, pc>>
    /\ UNCHANGED <<repoVars, stream, trimmed, relayVars, cur, settled, claimAttempts,
                   dispatchVars, cancelled, received>>

\* AutoClaim: idle entries of the PEL, at most BatchSize of them.  An entry whose
\* message was trimmed leaves the PEL and is not returned.
AutoClaim(idle) ==
    /\ pc[Reclaimer] = "idle"
    /\ ~cancelled
    /\ idle # {} /\ idle \subseteq pel
    /\ Cardinality(idle) <= BatchSize
    /\ LET kept == {m \in idle : m > trimmed}
       IN /\ pel' = pel \ (idle \ kept)
          /\ batch' = [batch EXCEPT ![Reclaimer] = kept]
          /\ pc' = [pc EXCEPT ![Reclaimer] = IF kept = {} THEN "idle" ELSE "next"]
    /\ UNCHANGED <<repoVars, stream, trimmed, lastDelivered, relayVars, cur, settled,
                   claimAttempts, dispatchVars, cancelled, faults, received>>

\* Mutant: the first claim counts twice.
ClaimCountFromOne(m) == IF m \in DOMAIN claimAttempts THEN claimAttempts[m] ELSE 1

ClaimCount(m) == IF m \in DOMAIN claimAttempts THEN claimAttempts[m] ELSE 0

\* The next message of the batch, in stream order for a worker.  The reclaimer
\* counts the claim, and a message claimed too often is not processed again.
NextMessage(c) ==
    /\ pc[c] = "next"
    /\ ~cancelled
    /\ \E m \in batch[c] :
        /\ c # Reclaimer => IsLeast(m, batch[c])
        /\ cur' = [cur EXCEPT ![c] = m]
        /\ IF c = Reclaimer
           THEN /\ claimAttempts' = [k \in DOMAIN claimAttempts \cup {m} |->
                                        IF k = m THEN ClaimCount(m) + 1 ELSE claimAttempts[k]]
                /\ pc' = [pc EXCEPT ![c] = IF ClaimCount(m) + 1 > MaxClaimAttempts
                                           THEN "poison" ELSE "fence"]
           ELSE /\ pc' = [pc EXCEPT ![c] = "fence"]
                /\ UNCHANGED claimAttempts
    /\ UNCHANGED <<repoVars, streamVars, relayVars, batch, settled, dispatchVars,
                   cancelled, faults, received>>

(***************************************************************************)
(* processMessage and Dispatch                                             *)
(***************************************************************************)

Goto(c, where) == pc' = [pc EXCEPT ![c] = where]

EventOf(c) == stream[cur[c]].event

\* The zombie fence: an event that is final is not dispatched again.  A read
\* that fails lets the message through.
Fence(c) ==
    /\ pc[c] = "fence"
    /\ ~cancelled
    /\ \/ /\ status[EventOf(c)] \in Final
          /\ Goto(c, "ack")
          /\ settled' = [settled EXCEPT ![c] = TRUE]
          /\ UNCHANGED faults
       \/ /\ \/ status[EventOf(c)] \notin Final /\ UNCHANGED faults
             \/ Fault("statusRead")
          /\ Goto(c, "resolve")
          /\ UNCHANGED settled
    /\ UNCHANGED <<repoVars, streamVars, relayVars, batch, cur, claimAttempts,
                   dispatchVars, cancelled, received>>

\* The first, or the next, endpoint of the pass.
StartEndpoint(c, remaining) ==
    \E t \in remaining :
        /\ ep' = [ep EXCEPT ![c] = t]
        /\ targets' = [targets EXCEPT ![c] = remaining \ {t}]
        /\ attemptNum' = [attemptNum EXCEPT ![c] = 1]
        /\ verdict' = [verdict EXCEPT ![c] = "NONE"]
        /\ Goto(c, "post")

\* processMessage returns; its caller acknowledges whatever the outcome.
Return(c) ==
    /\ ep' = [ep EXCEPT ![c] = NoEndpoint]
    /\ targets' = [targets EXCEPT ![c] = {}]
    /\ attemptNum' = [attemptNum EXCEPT ![c] = 0]
    /\ verdict' = [verdict EXCEPT ![c] = "NONE"]
    /\ Goto(c, "ack")

NextEndpoint(c) == IF targets[c] = {} THEN Return(c) ELSE StartEndpoint(c, targets[c])

\* GetEndpointsByTenant.  Without an answer, or without an active endpoint, the
\* pass is over.
Resolve(c) ==
    /\ pc[c] = "resolve"
    /\ ~cancelled
    /\ \/ /\ IF endpoints = {} THEN Return(c) ELSE StartEndpoint(c, endpoints)
          /\ UNCHANGED faults
       \/ /\ Fault("endpointsRead")
          /\ Return(c)
    /\ UNCHANGED <<repoVars, streamVars, relayVars, batch, cur, settled, claimAttempts,
                   cancelled, received>>

\* The HTTP request of Dispatch and the verdict on its answer.
Post(c) ==
    /\ pc[c] = "post"
    /\ ~cancelled
    /\ \E answer \in {"OK", "TRANSIENT", "PERMANENT"} :
        /\ verdict' = [verdict EXCEPT ![c] = Classify(answer, attemptNum[c])]
        /\ received' = IF answer = "OK" THEN received \cup {<<EventOf(c), ep[c]>>}
                       ELSE received
    /\ Goto(c, "record")
    /\ UNCHANGED <<repoVars, streamVars, relayVars, batch, cur, settled, claimAttempts,
                   targets, ep, attemptNum, cancelled, faults>>

\* The retry loop: one more attempt after a backoff, unless the budget is spent.
RetryOrMoveOn(c) ==
    IF verdict[c] = "RETRYING" /\ attemptNum[c] + 1 <= MaxRetries
    THEN /\ attemptNum' = [attemptNum EXCEPT ![c] = @ + 1]
         /\ verdict' = [verdict EXCEPT ![c] = "NONE"]
         /\ Goto(c, "post")
         /\ UNCHANGED <<targets, ep>>
    ELSE NextEndpoint(c)

\* Mutant: Dispatch carries on after RecordDeliveryAttempt has failed.
RecordOrCarryOn(c) ==
    /\ pc[c] = "record"
    /\ ~cancelled
    /\ \/ /\ attempts' = attempts \cup {[event |-> EventOf(c), endpoint |-> ep[c],
                                         status |-> verdict[c]]}
          /\ UNCHANGED faults
       \/ Fault("record") /\ UNCHANGED attempts
    /\ IF verdict[c] = "RETRYING" THEN RetryOrMoveOn(c)
       ELSE Goto(c, "update") /\ UNCHANGED dispatchVars
    /\ UNCHANGED <<status, outbox, endpoints, streamVars, relayVars, batch, cur, settled,
                   claimAttempts, cancelled, received>>

\* RecordDeliveryAttempt.  When it fails, or its answer is lost, Dispatch returns before
\* it has updated the event, with the verdict the retry loop looks at.
Record(c) ==
    /\ pc[c] = "record"
    /\ ~cancelled
    /\ \/ /\ attempts' = attempts \cup {[event |-> EventOf(c), endpoint |-> ep[c],
                                         status |-> verdict[c]]}
          /\ IF verdict[c] = "RETRYING" THEN RetryOrMoveOn(c)
             ELSE Goto(c, "update") /\ UNCHANGED dispatchVars
          /\ UNCHANGED faults
       \/ /\ Fault("record")
          /\ RetryOrMoveOn(c)
          /\ \/ attempts' = attempts \cup {[event |-> EventOf(c), endpoint |-> ep[c],
                                            status |-> verdict[c]]}
             \/ UNCHANGED attempts
    /\ UNCHANGED <<status, outbox, endpoints, streamVars, relayVars, batch, cur, settled,
                   claimAttempts, cancelled, received>>

\* Mutant: the status of the attempt is written for the status of the event.
SetDeliveryStatus(c, final) ==
    /\ ~Locked(EventOf(c))
    /\ status' = [status EXCEPT ![EventOf(c)] = IF final = "DLQ" THEN final ELSE verdict[c]]
    /\ settled' = [settled EXCEPT ![c] = TRUE]

\* UPDATE events, which waits for the lock of a replay.
SetStatus(c, final) ==
    /\ ~Locked(EventOf(c))
    /\ status' = [status EXCEPT ![EventOf(c)] = final]
    /\ settled' = [settled EXCEPT ![c] = TRUE]

\* UpdateEventStatus of a success or a final failure, whose error is ignored.
Update(c) ==
    /\ pc[c] = "update"
    /\ ~cancelled
    /\ \/ /\ SetStatus(c, IF verdict[c] = "SUCCESS" THEN "DELIVERED" ELSE "DLQ")
          /\ UNCHANGED faults
       \/ /\ Fault("update")
          /\ UNCHANGED <<status, settled>>
    /\ NextEndpoint(c)
    /\ UNCHANGED <<outbox, attempts, endpoints, streamVars, relayVars, batch, cur,
                   claimAttempts, cancelled, received>>

\* The claim ceiling: the event goes to the DLQ, whatever its status was.
Quarantine ==
    /\ pc[Reclaimer] = "poison"
    /\ ~cancelled
    /\ \/ SetStatus(Reclaimer, "DLQ") /\ UNCHANGED faults
       \/ Fault("update") /\ UNCHANGED <<status, settled>>
    /\ Goto(Reclaimer, "ack")
    /\ UNCHANGED <<outbox, attempts, endpoints, streamVars, relayVars, batch, cur,
                   claimAttempts, dispatchVars, cancelled, received>>

\* rootCtx is done: every call of the pass fails and processMessage returns.
Abort(c) ==
    /\ cancelled
    /\ pc[c] \in Busy
    /\ Return(c)
    /\ UNCHANGED <<repoVars, streamVars, relayVars, batch, cur, settled, claimAttempts,
                   cancelled, faults, received>>

\* Mutant: the acknowledgement does not use the context of the pool.
AckDetached(c) ==
    /\ pc[c] = "ack"
    /\ \/ pel' = pel \ {cur[c]} /\ UNCHANGED faults
       \/ Fault("ack") /\ UNCHANGED pel
    /\ LET rest == batch[c] \ {cur[c]}
       IN /\ batch' = [batch EXCEPT ![c] = rest]
          /\ Goto(c, IF rest = {} THEN "idle" ELSE "next")
    /\ cur' = [cur EXCEPT ![c] = 0]
    /\ settled' = [settled EXCEPT ![c] = FALSE]
    /\ UNCHANGED <<repoVars, stream, trimmed, lastDelivered, relayVars, claimAttempts,
                   dispatchVars, cancelled, received>>

\* AckEvent.  It fails when the context is done, and its error is ignored.
AckEvent(c) ==
    /\ pc[c] = "ack"
    /\ \/ ~cancelled /\ pel' = pel \ {cur[c]} /\ UNCHANGED faults
       \/ cancelled  /\ UNCHANGED <<pel, faults>>
       \/ ~cancelled /\ Fault("ack") /\ UNCHANGED pel
    /\ LET rest == batch[c] \ {cur[c]}
       IN /\ batch' = [batch EXCEPT ![c] = rest]
          /\ Goto(c, IF rest = {} THEN "idle" ELSE "next")
    /\ cur' = [cur EXCEPT ![c] = 0]
    /\ settled' = [settled EXCEPT ![c] = FALSE]
    /\ UNCHANGED <<repoVars, stream, trimmed, lastDelivered, relayVars, claimAttempts,
                   dispatchVars, cancelled, received>>

(***************************************************************************)
(* Shutdown, crash and restart                                             *)
(***************************************************************************)

\* main cancels rootCtx once the HTTP server is shut down.
Shutdown ==
    /\ ~cancelled
    /\ Fault("shutdown")
    /\ cancelled' = TRUE
    /\ UNCHANGED <<repoVars, streamVars, relayVars, consumerVars, received>>

\* A consumer between two messages sees that the context is done.
ConsumerExit(c) ==
    /\ cancelled
    /\ pc[c] \in {"idle", "next"}
    /\ Goto(c, "exited")
    /\ batch' = [batch EXCEPT ![c] = {}]
    /\ UNCHANGED <<repoVars, streamVars, relayVars, cur, settled, claimAttempts,
                   dispatchVars, cancelled, faults, received>>

\* A new process: goroutines and maps start afresh, and so does the queue when
\* it lived in the old process.
NewProcess ==
    /\ relayPc' = [y \in Relays |-> "idle"]
    /\ relayBatch' = [y \in Relays |-> {}]
    /\ relayRecord' = [y \in Relays |-> 0]
    /\ pc' = [c \in Consumers |-> "idle"]
    /\ batch' = [c \in Consumers |-> {}]
    /\ cur' = [c \in Consumers |-> 0]
    /\ settled' = [c \in Consumers |-> FALSE]
    /\ claimAttempts' = [m \in {} |-> 0]
    /\ targets' = [c \in Consumers |-> {}]
    /\ ep' = [c \in Consumers |-> NoEndpoint]
    /\ attemptNum' = [c \in Consumers |-> 0]
    /\ verdict' = [c \in Consumers |-> "NONE"]
    /\ cancelled' = FALSE
    /\ IF DurableQueue THEN UNCHANGED streamVars
       ELSE stream' = << >> /\ trimmed' = 0 /\ lastDelivered' = 0 /\ pel' = {}
    /\ UNCHANGED <<repoVars, received>>

\* main waits for the relay and for every goroutine of the pool.
Restart ==
    /\ cancelled
    /\ \A y \in Relays : relayPc[y] = "exited"
    /\ \A c \in Consumers : pc[c] = "exited"
    /\ NewProcess
    /\ UNCHANGED faults

Crash == Fault("crash") /\ NewProcess

(***************************************************************************)
(* Specification                                                           *)
(***************************************************************************)

Api == \/ \E e \in Events : CreateEventWithOutbox(e) \/ ReplayDLQEvents(e)
       \/ \E S \in SUBSET OpenRecords : Commit(S) \/ Rollback(S)
       \/ \E t \in Endpoints : RegisterEndpoint(t)

Relay(y) == RelayFetch(y) \/ RelayPoll(y) \/ RelayPublish(y) \/ RelayMark(y) \/ RelayExit(y)

Process(c) == \/ NextMessage(c) \/ Fence(c) \/ Resolve(c) \/ Post(c) \/ Record(c)
              \/ Update(c) \/ Abort(c) \/ AckEvent(c) \/ ConsumerExit(c)

Claim == \E idle \in SUBSET pel : AutoClaim(idle)

Next ==
    \/ Api
    \/ \E y \in Relays : Relay(y)
    \/ \E w \in Workers : ReadEvents(w)
    \/ Claim
    \/ \E c \in Consumers : Process(c)
    \/ Quarantine
    \/ Shutdown
    \/ Restart
    \/ Crash

Spec == Init /\ [][Next]_vars

\* Every goroutine the scheduler runs makes progress, an entry that stays in the
\* PEL is claimed in the end (XAUTOCLAIM pages through it), a transaction is ended
\* by its handler or by PostgreSQL, and a server that was shut down is started again.
Fairness ==
    /\ \A r \in 1 .. MaxOutbox :
          WF_vars(\E S \in SUBSET OpenRecords : r \in S /\ (Commit(S) \/ Rollback(S)))
    /\ \A y \in Relays : WF_vars(Relay(y))
    /\ \A w \in Workers : WF_vars(ReadEvents(w))
    /\ \A c \in Consumers : WF_vars(Process(c))
    /\ WF_vars(Quarantine)
    /\ \A m \in 1 .. MaxOutbox + MaxFaults :
          WF_vars(\E idle \in SUBSET pel : m \in idle /\ AutoClaim(idle))
    /\ WF_vars(Restart)

FairSpec == Spec /\ Fairness

(***************************************************************************)
(* Properties                                                              *)
(***************************************************************************)

Positions     == 0 .. Len(stream)
OutboxStatus  == {"UNCOMMITTED", "ABORTED", "PENDING", "PUBLISHED"}
OutboxRecords == [event : Events, status : OutboxStatus, late : SUBSET Nat]
Messages      == [event : Events, record : Nat]

RepoTypeOK ==
    /\ status \in [Events -> {"NONE", "PENDING"} \cup Final]
    /\ outbox \in Seq(OutboxRecords)
    /\ attempts \subseteq [event : Events, endpoint : Endpoints, status : Verdicts]
    /\ endpoints \subseteq Endpoints
    /\ received \subseteq Events \X Endpoints

StreamTypeOK ==
    /\ stream \in Seq(Messages)
    /\ trimmed \in Positions
    /\ lastDelivered \in Positions
    /\ pel \subseteq 1 .. Len(stream)

RelayTypeOK ==
    /\ relayPc \in [Relays -> {"idle", "publish", "mark", "exited"}]
    /\ relayBatch \in [Relays -> SUBSET (1 .. Len(outbox))]
    /\ relayRecord \in [Relays -> 0 .. Len(outbox)]

ConsumerTypeOK ==
    /\ pc \in [Consumers -> Busy \cup {"idle", "next", "ack", "exited"}]
    /\ batch \in [Consumers -> SUBSET (1 .. Len(stream))]
    /\ cur \in [Consumers -> Positions]
    /\ settled \in [Consumers -> BOOLEAN]

DispatchTypeOK ==
    /\ targets \in [Consumers -> SUBSET Endpoints]
    /\ ep \in [Consumers -> Endpoints \cup {NoEndpoint}]
    /\ attemptNum \in [Consumers -> Nat]
    /\ verdict \in [Consumers -> Verdicts \cup {"NONE"}]

ProcessTypeOK ==
    /\ DOMAIN claimAttempts \subseteq 1 .. Len(stream)
    /\ \A m \in DOMAIN claimAttempts : claimAttempts[m] \in Nat
    /\ cancelled \in BOOLEAN
    /\ faults \in Nat

\* Every variable keeps the shape the code gives it: statuses of events.status and
\* outbox_events.status, batches and cursors within the stream.
TypeOK == /\ RepoTypeOK /\ StreamTypeOK /\ RelayTypeOK
          /\ ConsumerTypeOK /\ DispatchTypeOK /\ ProcessTypeOK

\* What will make the engine look at event e again: an outbox record the relay has
\* yet to publish, a message the group has yet to be given, or a pending entry.
Carried(e) ==
    \/ \E r \in PendingRecords : outbox[r].event = e
    \/ \E m \in Unread \cup pel : stream[m].event = e

\* Zero data loss: an event that is neither delivered nor in the DLQ is still carried
\* by the outbox, the stream or the pending entries list, through crashes, shutdowns,
\* lost answers, reclaims and replays.
NoEventStranded == \A e \in Events : status[e] = "PENDING" => Carried(e)

\* An event is DELIVERED only when some endpoint answered 2xx and the attempt was
\* recorded before the status was written (Dispatch records first).
DeliveredWasAccepted ==
    \A e \in Events : status[e] = "DELIVERED" =>
        \E t \in Endpoints : /\ [event |-> e, endpoint |-> t, status |-> "SUCCESS"] \in attempts
                             /\ <<e, t>> \in received

\* The claim ceiling never quarantines a healthy event: until as many failures have
\* happened as MaxClaimAttempts allows, the DLQ holds only events with a final
\* failure on record.
QuarantineNeedsFailures ==
    \A e \in Events : status[e] = "DLQ" /\ faults < MaxClaimAttempts =>
        \E t \in Endpoints : [event |-> e, endpoint |-> t, status |-> "FAILED"] \in attempts

\* The relay publishes before it marks: a record marked PUBLISHED has its message in
\* the stream, whatever failed in between.
PublishedIsInStream ==
    \A r \in 1 .. Len(outbox) : outbox[r].status = "PUBLISHED" =>
        \E m \in 1 .. Len(stream) : stream[m] = [event |-> outbox[r].event, record |-> r]

Committed == {r \in 1 .. Len(outbox) : outbox[r].status \in {"PENDING", "PUBLISHED"}}

\* The relays publish in the order of the ids as far as they can see them: a record is
\* overtaken only by those that a relay had in hand, or had published, when it was
\* committed, although batches break off, are fetched anew and are published twice.
PublishedInOrder ==
    \A m \in 1 .. Len(stream) : \A r \in Committed :
        r < stream[m].record /\ stream[m].record \notin outbox[r].late =>
            \E k \in 1 .. m - 1 : stream[k].record = r

\* One relay publishes a record again only after a failure: each duplicate in the
\* stream is paid for by a crash, a shutdown, or a failed publish or mark.
DuplicatesArePaidFor == Len(stream) <= Cardinality(Committed) + faults

\* The consumer group hands a message to one worker: two workers never hold the same
\* message, and none holds a message the group has not moved past.
GroupIsExclusive ==
    \A w \in Workers :
        /\ \A m \in batch[w] : m <= lastDelivered
        /\ \A v \in Workers \ {w} : batch[w] \cap batch[v] = {}

\* Every ingested or replayed event is delivered or dead-lettered in the end.
EventuallyFinal == \A e \in Events : status[e] = "PENDING" ~> status[e] \in Final

\* The engine keeps the promise of DeliveryPromise: its statuses and the attempts on
\* record are those of an event's life there, every other step is a stutter.
Promise == INSTANCE DeliveryPromise WITH
    evidence <- [e \in Events |->
                    {v \in {"SUCCESS", "FAILED"} :
                        \E t \in Endpoints :
                            [event |-> e, endpoint |-> t, status |-> v] \in attempts}]

KeepsPromise == Promise!Spec

\* A stream in Redis that is not trimmed is the stream with a consumer group that
\* MemoryStreamQueue is as well.
Group == INSTANCE ConsumerGroup WITH
    log <- stream, joined <- TRUE, cursor <- lastDelivered, pending <- pel

KeepsGroup == Group!Spec

=============================================================================
