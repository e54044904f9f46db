----------------------------- MODULE SoakAudit ------------------------------
(***************************************************************************)
(* The soak test (cmd/soak): the whole engine on the in-memory repository  *)
(* and queue, a load generator, an injector of abandoned messages, the     *)
(* counters kept by the dispatcher's callback, and the audit at the end.   *)
(*                                                                         *)
(* The deadline cancels the context that producers, relay and pool share,  *)
(* and every call of repository and queue refuses a cancelled context.     *)
(* Workers read a message at a time.  The ceiling of claims is left out:   *)
(* the reclaimer acknowledges what it claims, so it claims nothing twice   *)
(* before the deadline.                                                    *)
(***************************************************************************)
EXTENDS Integers, Sequences, FiniteSets

CONSTANTS
    Loads,                    \* events the load generator posts
    Injected,                 \* events the injector makes
    Workers,
    Reclaimer,
    MaxRetries,
    FlakyEvery, PoisonEvery   \* the requests the destination answers 500 and 400

Events == Loads \cup Injected
Consumers == Workers \cup {Reclaimer}
Nobody == "nobody"
Ghost == "crashed-worker"
NoJob == [at |-> "idle", msg |-> 0, try |-> 0, code |-> 0]

VARIABLES
    done,        \* the context is cancelled
    status,      \* of the events, "NONE" before they exist
    outbox,      \* the outbox's events, in the order of their ids
    published,   \* how many of them are PUBLISHED
    relay,       \* whether the relay has published the next one, and not marked it
    stream, lastDelivered,
    holder,      \* the consumer of each pending message
    job,         \* what each consumer does
    requests,    \* rawRequestCount
    attempted,   \* history: the events the destination has had a request for
    posting,     \* the event whose POST is under way
    injector,    \* the event it makes, and its next step
    totalIngested, totalDelivered, totalDLQ,
    report       \* the audit's data loss, -1 before it

repoVars == <<status, outbox, published, relay>>
queueVars == <<stream, lastDelivered, holder>>
server == <<requests, attempted>>
counters == <<totalIngested, totalDelivered, totalDLQ>>
producers == <<posting, injector>>
vars == <<done, repoVars, queueVars, job, server, producers, counters, report>>

Init ==
    /\ done = FALSE
    /\ status = [e \in Events |-> "NONE"]
    /\ outbox = <<>> /\ published = 0 /\ relay = FALSE
    /\ stream = <<>> /\ lastDelivered = 0 /\ holder = <<>>
    /\ job = [c \in Consumers |-> NoJob]
    /\ requests = 0 /\ attempted = {}
    /\ posting = Nobody
    /\ injector = [event |-> Nobody, at |-> "idle"]
    /\ totalIngested = 0 /\ totalDelivered = 0 /\ totalDLQ = 0
    /\ report = -1

(***************************************************************************)
(* The in-memory repository and queue                                      *)
(***************************************************************************)

CreateEventWithOutbox(e) ==
    /\ status' = [status EXCEPT ![e] = "PENDING"]
    /\ outbox' = Append(outbox, e)

PublishEvent(e) ==
    /\ stream' = Append(stream, e)
    /\ holder' = Append(holder, Nobody)

\* The next message for c, which is then pending for it.
ReadEvents(c) ==
    /\ lastDelivered' = lastDelivered + 1
    /\ holder' = [holder EXCEPT ![lastDelivered + 1] = c]

Unread == lastDelivered < Len(stream)

\* Done with a message: acknowledged, unless the context is cancelled.
AckEvent(c) ==
    /\ holder' = IF done THEN holder ELSE [holder EXCEPT ![job[c].msg] = Nobody]
    /\ job' = [job EXCEPT ![c] = NoJob]

(***************************************************************************)
(* Producers                                                               *)
(***************************************************************************)

\* A POST of the load generator creates the event; its context is the request's own.
Post(e) ==
    /\ ~done /\ posting = Nobody /\ status[e] = "NONE"
    /\ CreateEventWithOutbox(e)
    /\ posting' = e
    /\ UNCHANGED <<done, published, relay, queueVars, job, server, injector, counters, report>>

Accepted ==
    /\ posting # Nobody
    /\ posting' = Nobody
    /\ totalIngested' = totalIngested + 1
    /\ UNCHANGED <<done, repoVars, queueVars, job, server, injector>>
    /\ UNCHANGED <<totalDelivered, totalDLQ, report>>

\* The injector ignores every error, so it counts an event it could not create.
Inject(e) ==
    /\ ~done /\ injector.at = "idle" /\ status[e] = "NONE"
    /\ injector' = [event |-> e, at |-> "publish"]
    /\ CreateEventWithOutbox(e)
    /\ UNCHANGED <<done, published, relay, queueVars, job, server, posting, counters, report>>

InjectPublish ==
    /\ injector.at = "publish"
    /\ injector' = [injector EXCEPT !.at = "read"]
    /\ IF done THEN UNCHANGED <<stream, holder>> ELSE PublishEvent(injector.event)
    /\ UNCHANGED <<done, repoVars, lastDelivered, job, server, posting, counters, report>>

\* Whatever is next goes to a consumer that will never acknowledge it.
InjectRead ==
    /\ injector.at = "read"
    /\ injector' = [injector EXCEPT !.at = "count"]
    /\ IF done \/ ~Unread THEN UNCHANGED <<lastDelivered, holder>> ELSE ReadEvents(Ghost)
    /\ UNCHANGED <<done, repoVars, stream, job, server, posting, counters, report>>

InjectCount ==
    /\ injector.at = "count"
    /\ injector' = [event |-> Nobody, at |-> "idle"]
    /\ totalIngested' = totalIngested + 1
    /\ UNCHANGED <<done, repoVars, queueVars, job, server, posting>>
    /\ UNCHANGED <<totalDelivered, totalDLQ, report>>

(***************************************************************************)
(* Relay and pool                                                          *)
(***************************************************************************)

\* The relay also publishes what the injector has published itself.
RelayPublish ==
    /\ ~done /\ ~relay /\ published < Len(outbox)
    /\ PublishEvent(outbox[published + 1])
    /\ relay' = TRUE
    /\ UNCHANGED <<done, status, outbox, published, lastDelivered, job, server>>
    /\ UNCHANGED <<producers, counters, report>>

MarkOutboxPublished ==
    /\ ~done /\ relay
    /\ relay' = FALSE
    /\ published' = published + 1
    /\ UNCHANGED <<done, status, outbox, queueVars, job, server, producers, counters, report>>

Start(c, m) == job' = [job EXCEPT ![c] = [NoJob EXCEPT !.at = "fence", !.msg = m]]

Read(c) ==
    /\ ~done /\ c \in Workers /\ job[c] = NoJob /\ Unread
    /\ ReadEvents(c)
    /\ Start(c, lastDelivered + 1)
    /\ UNCHANGED <<done, repoVars, stream, server, producers, counters, report>>

\* Messages idle for MinIdleDuration: a ghost's, and those of a worker in a backoff.
AutoClaim ==
    /\ ~done /\ job[Reclaimer] = NoJob
    /\ \E m \in DOMAIN holder :
         /\ \/ holder[m] = Ghost
            \/ holder[m] \in Workers /\ job[holder[m]].msg = m /\ job[holder[m]].at = "backoff"
         /\ holder' = [holder EXCEPT ![m] = Reclaimer]
         /\ Start(Reclaimer, m)
    /\ UNCHANGED <<done, repoVars, stream, lastDelivered, server, producers, counters, report>>

EventOf(c) == stream[job[c].msg]

\* The zombie fence of processMessage: an event that is final is skipped.
Fence(c) ==
    /\ ~done /\ job[c].at = "fence"
    /\ \/ /\ status[EventOf(c)] \in {"DELIVERED", "DLQ"}
          /\ AckEvent(c)
       \/ /\ status[EventOf(c)] \notin {"DELIVERED", "DLQ"}
          /\ job' = [job EXCEPT ![c].at = "send", ![c].try = 1]
          /\ UNCHANGED holder
    /\ UNCHANGED <<done, repoVars, stream, lastDelivered, server, producers, counters, report>>

\* The destination server of the soak test.
Answer(n) ==
    CASE n % PoisonEvery = 0 -> 400
      [] n % PoisonEvery # 0 /\ n % FlakyEvery = 0 -> 500
      [] OTHER -> 200

Send(c) ==
    /\ ~done /\ job[c].at = "send"
    /\ requests' = requests + 1
    /\ attempted' = attempted \cup {EventOf(c)}
    /\ job' = [job EXCEPT ![c].at = "record", ![c].code = Answer(requests + 1)]
    /\ UNCHANGED <<done, repoVars, queueVars, producers, counters, report>>

\* A cancelled context loses the record, and with it the callback.
RecordDeliveryAttempt(c) ==
    /\ job[c].at = "record"
    /\ \/ done /\ job' = [job EXCEPT ![c] = NoJob]
       \/ ~done /\ job' = [job EXCEPT ![c].at = "update"]
    /\ UNCHANGED <<done, repoVars, queueVars, server, producers, counters, report>>

Succeeded(c) == job[c].code = 200
Retrying(c) == job[c].code = 500 /\ job[c].try < MaxRetries
FinalStatus(c) == IF Succeeded(c) THEN "DELIVERED" ELSE "DLQ"

\* A cancelled context loses the status, and not the callback.
UpdateEventStatus(c) ==
    /\ job[c].at = "update"
    /\ job' = [job EXCEPT ![c].at = "callback"]
    /\ status' = IF done \/ Retrying(c) THEN status
                 ELSE [status EXCEPT ![EventOf(c)] = FinalStatus(c)]
    /\ UNCHANGED <<done, outbox, published, relay, queueVars, server, producers, counters, report>>

\* The callback counts attempts, whichever event they are for.
AttemptCallback(c) ==
    /\ job[c].at = "callback"
    /\ totalDelivered' = IF Succeeded(c) THEN totalDelivered + 1 ELSE totalDelivered
    /\ totalDLQ' = IF Succeeded(c) \/ Retrying(c) THEN totalDLQ ELSE totalDLQ + 1
    /\ \/ /\ Retrying(c)
          /\ job' = [job EXCEPT ![c].at = "backoff", ![c].try = @ + 1]
          /\ UNCHANGED holder
       \/ /\ ~Retrying(c)
          /\ AckEvent(c)
    /\ UNCHANGED <<done, repoVars, stream, lastDelivered, server, producers>>
    /\ UNCHANGED <<totalIngested, report>>

Wake(c) ==
    /\ ~done /\ job[c].at = "backoff"
    /\ job' = [job EXCEPT ![c].at = "send"]
    /\ UNCHANGED <<done, repoVars, queueVars, server, producers, counters, report>>

\* A consumer that finds the context cancelled returns, whatever it was about to do.
Return(c) ==
    /\ done /\ job[c].at \in {"fence", "send", "backoff"}
    /\ job' = [job EXCEPT ![c] = NoJob]
    /\ UNCHANGED <<done, repoVars, queueVars, server, producers, counters, report>>

(***************************************************************************)
(* The end                                                                 *)
(***************************************************************************)

\* The test's time is over, or it is interrupted.
Deadline ==
    /\ ~done
    /\ done' = TRUE
    /\ UNCHANGED <<repoVars, queueVars, job, server, producers, counters, report>>

\* The audit, after three seconds in which everything that was under way ends.
Audit ==
    /\ done /\ report = -1
    /\ posting = Nobody /\ injector.at = "idle" /\ \A c \in Consumers : job[c] = NoJob
    /\ LET loss == totalIngested - (totalDelivered + totalDLQ)
       IN  report' = IF loss < 0 THEN 0 ELSE loss
    /\ UNCHANGED <<done, repoVars, queueVars, job, server, producers, counters>>

Exited == report # -1 /\ UNCHANGED vars

Next ==
    \/ \E e \in Loads : Post(e)
    \/ \E e \in Injected : Inject(e)
    \/ Accepted \/ InjectPublish \/ InjectRead \/ InjectCount
    \/ RelayPublish \/ MarkOutboxPublished \/ AutoClaim
    \/ \E c \in Consumers :
         \/ Read(c) \/ Fence(c) \/ Send(c) \/ RecordDeliveryAttempt(c)
         \/ UpdateEventStatus(c) \/ AttemptCallback(c) \/ Wake(c) \/ Return(c)
    \/ Deadline \/ Audit \/ Exited

Spec == Init /\ [][Next]_vars

-----------------------------------------------------------------------------
(***************************************************************************)
(* What the audit claims                                                   *)
(***************************************************************************)

\* An audit that reports no data loss has at least seen every event it ingested sent to
\* its destination once ("Data loss check: Ingested vs (Delivered + DLQ)").
ZeroLossIsReal ==
    report = 0 => \A e \in Events : status[e] = "NONE" \/ e \in attempted

=============================================================================
