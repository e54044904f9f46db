----------------------------- MODULE IngestGuard -----------------------------
(***************************************************************************)
(* POST /api/v1/events with an idempotency key: HandleIngestEvent           *)
(* (internal/api), the guard in Redis or in memory (internal/idempotency)  *)
(* and the unique key of the events table (internal/storage).              *)
(*                                                                         *)
(* All requests here carry one tenant and one key: keys do not interact,   *)
(* and a request without a key meets neither the guard nor the unique key. *)
(* The event a request stores is named by the request, and so is the       *)
(* response that carries its id.                                           *)
(***************************************************************************)
EXTENDS Naturals

CONSTANTS
    Requests,         \* the requests clients send, retries among them
    Valid,            \* those whose body passes the checks of the handler
    SharedGuard,      \* TRUE for the guard in Redis, FALSE for the one in memory
    Postgres,         \* TRUE for PostgresRepository, FALSE for MemoryRepository
    EarlyExpiry,      \* a lock may expire while its request is being served
    Faults,           \* the kinds of failure that may happen
    MaxFaults,        \* bound: how many failures happen in all
    MaxExpiries       \* bound: how often the entry expires

FaultKinds == {"crash", "disconnect", "acquire", "create", "cache", "release"}

ASSUME ConstantsAssumption ==
    /\ Requests \cap {"none", "in_flight"} = {}
    /\ Requests \cap {"BadRequest", "Conflict", "Error", "Lost"} = {}
    /\ Valid \subseteq Requests
    /\ SharedGuard \in BOOLEAN
    /\ Postgres \in BOOLEAN
    /\ EarlyExpiry \in BOOLEAN
    /\ Faults \subseteq FaultKinds
    /\ MaxFaults \in Nat
    /\ MaxExpiries \in Nat

VARIABLES
    entry,      \* the guard's entry: "none", "in_flight" or the response cached
    stored,     \* the events with this key that are in the table
    pc,         \* where each request is
    reply,      \* what a request will answer once it has released the lock
    answer,     \* what it answered: a 202 with an event's id, or an error
    gone,       \* requests whose context is done: the client went away
    faults, expiries

handlerVars == <<pc, reply, answer>>
vars == <<entry, stored, handlerVars, gone, faults, expiries>>

Errors  == {"BadRequest", "Conflict", "Error", "Lost"}
Holding == {"body", "create", "cache", "release"}   \* between AcquireLock and its end

Init ==
    /\ entry = "none"
    /\ stored = {}
    /\ pc = [r \in Requests |-> "arrived"]
    /\ reply = [r \in Requests |-> "none"]
    /\ answer = [r \in Requests |-> "none"]
    /\ gone = {}
    /\ faults = 0
    /\ expiries = 0

\* A call fails, because its context is done or for a reason of its own.
Fails(r, kind) ==
    \/ r \in gone /\ UNCHANGED faults
    \/ kind \in Faults /\ faults < MaxFaults /\ faults' = faults + 1

Works(r) == r \notin gone /\ UNCHANGED faults

Goto(r, where) == pc' = [pc EXCEPT ![r] = where]

Answer(r, what) ==
    /\ Goto(r, "done")
    /\ answer' = [answer EXCEPT ![r] = what]
    /\ UNCHANGED reply

\* Mutant: the status of the answer is not kept.
RefuseSilently(r, what) ==
    /\ what # "none"
    /\ Goto(r, "release")
    /\ UNCHANGED <<reply, answer>>

\* An error answer, which first gives the lock back.
Refuse(r, what) ==
    /\ Goto(r, "release")
    /\ reply' = [reply EXCEPT ![r] = what]
    /\ UNCHANGED answer

\* Mutant: SET without NX.
AcquireAnyway(r) ==
    /\ pc[r] = "arrived"
    /\ Works(r)
    /\ \/ entry \notin Requests /\ entry' = "in_flight" /\ Goto(r, "body")
          /\ UNCHANGED <<reply, answer>>
       \/ entry \in Requests /\ Answer(r, entry) /\ UNCHANGED entry
    /\ UNCHANGED <<stored, gone, expiries>>

\* AcquireLock: one script, or one critical section.  The lock may be taken although
\* the answer of Redis is lost.
Acquire(r) ==
    /\ pc[r] = "arrived"
    /\ \/ /\ Works(r)
          /\ \/ entry = "none" /\ entry' = "in_flight" /\ Goto(r, "body")
                /\ UNCHANGED <<reply, answer>>
             \/ entry = "in_flight" /\ Answer(r, "Conflict") /\ UNCHANGED entry
             \/ entry \in Requests /\ Answer(r, entry) /\ UNCHANGED entry
       \/ /\ Fails(r, "acquire")
          /\ Answer(r, "Error")
          /\ \/ UNCHANGED entry
             \/ entry = "none" /\ r \notin gone /\ entry' = "in_flight"
    /\ UNCHANGED <<stored, gone, expiries>>

\* The body is read and checked under the lock; that of a client that went away may be
\* incomplete.
ReadBody(r) ==
    /\ pc[r] = "body"
    /\ \/ r \in Valid /\ Goto(r, "create") /\ UNCHANGED <<reply, answer>>
       \/ (r \notin Valid \/ r \in gone) /\ Refuse(r, "BadRequest")
    /\ UNCHANGED <<entry, stored, gone, faults, expiries>>

\* Mutant: the unique key is missing.
CreateAnother(r) ==
    /\ pc[r] = "create"
    /\ \/ Works(r) /\ stored' = stored \cup {r} /\ Goto(r, "cache") /\ UNCHANGED <<reply, answer>>
       \/ Fails(r, "create") /\ Refuse(r, "Error") /\ UNCHANGED stored
    /\ UNCHANGED <<entry, gone, expiries>>

\* CreateEventWithOutbox in one transaction.  The unique key refuses a second event,
\* with ErrDuplicateKey only when the repository is in memory; a failed call may have
\* committed.
Create(r) ==
    /\ pc[r] = "create"
    /\ \/ /\ Works(r)
          /\ stored = {}
          /\ stored' = {r}
          /\ Goto(r, "cache")
          /\ UNCHANGED <<reply, answer>>
       \/ /\ Works(r)
          /\ stored # {}
          /\ Refuse(r, IF Postgres THEN "Error" ELSE "Conflict")
          /\ UNCHANGED stored
       \/ /\ Fails(r, "create")
          /\ Refuse(r, "Error")
          /\ \/ UNCHANGED stored
             \/ stored = {} /\ r \notin gone /\ stored' = {r}
    /\ UNCHANGED <<entry, gone, expiries>>

\* Mutant: a response that cannot be cached is taken for a conflict.
CacheOrRefuse(r) ==
    /\ pc[r] = "cache"
    /\ \/ Works(r) /\ entry' = r /\ Answer(r, r)
       \/ Fails(r, "cache") /\ Refuse(r, "Conflict") /\ UNCHANGED entry
    /\ UNCHANGED <<stored, gone, expiries>>

\* SetResponse, whose error is ignored: the client is answered 202 all the same.
Cache(r) ==
    /\ pc[r] = "cache"
    /\ \/ Works(r) /\ entry' = r
       \/ Fails(r, "cache") /\ (UNCHANGED entry \/ (r \notin gone /\ entry' = r))
    /\ Answer(r, r)
    /\ UNCHANGED <<stored, gone, expiries>>

\* Mutant: DEL without a look at the value.
ReleaseAny(r) ==
    /\ pc[r] = "release"
    /\ \/ Works(r) /\ entry' = "none"
       \/ Fails(r, "release") /\ UNCHANGED entry
    /\ Answer(r, reply[r])
    /\ UNCHANGED <<stored, gone, expiries>>

\* ReleaseLock, whose error is ignored: the entry goes if it is an in-flight marker,
\* whoever set it.
Release(r) ==
    /\ pc[r] = "release"
    /\ \/ Works(r) /\ entry' = IF entry = "in_flight" THEN "none" ELSE entry
       \/ Fails(r, "release") /\ UNCHANGED entry
    /\ Answer(r, reply[r])
    /\ UNCHANGED <<stored, gone, expiries>>

(***************************************************************************)
(* The environment                                                         *)
(***************************************************************************)

\* The client goes away while its request is served.
Disconnect(r) ==
    /\ pc[r] \in {"arrived"} \cup Holding
    /\ r \notin gone
    /\ "disconnect" \in Faults /\ faults < MaxFaults
    /\ faults' = faults + 1
    /\ gone' = gone \cup {r}
    /\ UNCHANGED <<entry, stored, handlerVars, expiries>>

\* The time to live of the entry is over.
Expire ==
    /\ entry # "none"
    /\ expiries < MaxExpiries
    /\ EarlyExpiry \/ \A r \in Requests : pc[r] \notin Holding
    /\ entry' = "none"
    /\ expiries' = expiries + 1
    /\ UNCHANGED <<stored, handlerVars, gone, faults>>

\* The server dies with the requests it was serving, and with what it kept in memory.
Crash ==
    /\ \E r \in Requests : pc[r] \in Holding
    /\ "crash" \in Faults /\ faults < MaxFaults
    /\ faults' = faults + 1
    /\ pc' = [r \in Requests |-> IF pc[r] \in Holding THEN "done" ELSE pc[r]]
    /\ answer' = [r \in Requests |-> IF pc[r] \in Holding THEN "Lost" ELSE answer[r]]
    /\ entry' = IF SharedGuard THEN entry ELSE "none"
    /\ stored' = IF Postgres THEN stored ELSE {}
    /\ UNCHANGED <<reply, gone, expiries>>

\* Every request has been answered.
Terminated == (\A r \in Requests : pc[r] = "done") /\ UNCHANGED vars

HandleIngestEvent(r) == Acquire(r) \/ ReadBody(r) \/ Create(r) \/ Cache(r) \/ Release(r)

Next ==
    \/ \E r \in Requests : HandleIngestEvent(r) \/ Disconnect(r)
    \/ Expire
    \/ Crash
    \/ Terminated

Spec == Init /\ [][Next]_vars

(***************************************************************************)
(* Properties                                                              *)
(***************************************************************************)

\* The guard's entry is absent, a marker or a response, requests are at a step of the
\* handler, and each ends with exactly one answer.
TypeOK ==
    /\ entry \in {"none", "in_flight"} \cup Requests
    /\ stored \subseteq Requests
    /\ pc \in [Requests -> {"arrived", "done"} \cup Holding]
    /\ reply \in [Requests -> {"none"} \cup Errors]
    /\ answer \in [Requests -> {"none"} \cup Errors \cup Requests]
    /\ \A r \in Requests : pc[r] = "done" <=> answer[r] # "none"
    /\ gone \subseteq Requests
    /\ faults \in Nat
    /\ expiries \in Nat

\* However requests with one key interleave with expiries, crashes and clients that go
\* away, all that are answered 202 name one event, and it is in the table: a replay never
\* carries the response of a request that failed.
AcceptedAgree ==
    \A r \in Requests : answer[r] \in Requests => stored = {answer[r]}

\* A cached response leaves the guard by expiry or with the guard's process, and no late
\* release or second response removes or replaces it.
CachedIsStable ==
    [][(entry \in Requests /\ entry' # entry) => (expiries' > expiries \/ faults' > faults)]_vars

\* A lock may have expired under the request that held it.
Overrun == EarlyExpiry /\ expiries > 0

\* "acquired == true: caller owns the lock": two requests are never past the guard at
\* once, as long as no lock has expired under the request that holds it, although a
\* release deletes the marker of whoever holds it.
OneOwner ==
    ~Overrun => \A r, s \in Requests : pc[r] \in Holding /\ pc[s] \in Holding => r = s

\* Clients are refused for the reason they are given: one told that its request was bad
\* or in conflict stored no event by it, and a 500 means that something failed or that the
\* table refused what an expired entry let through.
RefusalsAreHonest ==
    \A r \in Requests :
        /\ answer[r] \in {"BadRequest", "Conflict"} => r \notin stored
        /\ answer[r] = "Error" => faults > 0 \/ (Postgres /\ expiries > 0)

=============================================================================
