-------------------------- MODULE IngestGuardProofs --------------------------
(***************************************************************************)
(* Proofs about IngestGuard, for every set of requests, every mix of       *)
(* failures and any number of them.                                        *)
(*                                                                         *)
(* AcceptedAgree needs a strengthening: what the cache holds, and what a   *)
(* request is about to cache, is the one event in the table.               *)
(***************************************************************************)
EXTENDS IngestGuard, TLAPS

USE DEF Holding, Errors

AgreeInv ==
    /\ TypeOK
    /\ AcceptedAgree
    /\ entry \in Requests => stored = {entry}
    /\ \A r \in Requests : pc[r] = "cache" => stored = {r}
    /\ \A r \in Requests : pc[r] = "release" => reply[r] # "none"

LEMMA InitAgree == ASSUME Init PROVE AgreeInv
  BY ConstantsAssumption DEF Init, AgreeInv, TypeOK, AcceptedAgree

LEMMA AcquireAgree == ASSUME AgreeInv, NEW r \in Requests, Acquire(r) PROVE AgreeInv'
  <1> USE ConstantsAssumption DEF AgreeInv
  <1>1. TypeOK'  BY DEF TypeOK, Acquire, Works, Fails, Goto, Answer
  <1>2. AcceptedAgree'
    BY DEF TypeOK, AcceptedAgree, Acquire, Goto, Answer
  <1>3. entry' \in Requests => stored' = {entry'}  BY DEF Acquire
  <1>4. \A s \in Requests : /\ pc'[s] = "cache" => stored' = {s}
                            /\ pc'[s] = "release" => reply'[s] # "none"
    BY DEF TypeOK, Acquire, Goto, Answer
  <1> QED  BY <1>1, <1>2, <1>3, <1>4

LEMMA ReadBodyAgree == ASSUME AgreeInv, NEW r \in Requests, ReadBody(r) PROVE AgreeInv'
  <1> USE ConstantsAssumption DEF AgreeInv
  <1>1. TypeOK'  BY DEF TypeOK, ReadBody, Goto, Refuse
  <1>2. AcceptedAgree'  BY DEF AcceptedAgree, ReadBody, Refuse
  <1>3. \A s \in Requests : /\ pc'[s] = "cache" => stored' = {s}
                            /\ pc'[s] = "release" => reply'[s] # "none"
    BY DEF TypeOK, ReadBody, Goto, Refuse
  <1> QED  BY <1>1, <1>2, <1>3 DEF ReadBody

\* The unique key: an event enters an empty table only.
LEMMA CreateAgree == ASSUME AgreeInv, NEW r \in Requests, Create(r) PROVE AgreeInv'
  <1> USE ConstantsAssumption DEF AgreeInv
  <1>1. stored' = stored \/ (stored = {} /\ stored' = {r})  BY DEF Create
  <1>2. entry' = entry /\ answer' = answer  BY DEF Create, Refuse
  <1>3. TypeOK'  BY DEF TypeOK, Create, Works, Fails, Goto, Refuse
  <1>4. AcceptedAgree'  BY <1>1, <1>2 DEF AcceptedAgree
  <1>5. entry' \in Requests => stored' = {entry'}  BY <1>1, <1>2
  <1>6. \A s \in Requests : /\ pc'[s] = "cache" => stored' = {s}
                            /\ pc'[s] = "release" => reply'[s] # "none"
    BY <1>1 DEF TypeOK, Create, Goto, Refuse
  <1> QED  BY <1>3, <1>4, <1>5, <1>6

LEMMA CacheAgree == ASSUME AgreeInv, NEW r \in Requests, Cache(r) PROVE AgreeInv'
  <1> USE ConstantsAssumption DEF AgreeInv
  <1>1. stored = {r} /\ stored' = stored /\ (entry' = entry \/ entry' = r)  BY DEF Cache
  <1>2. TypeOK'  BY DEF TypeOK, Cache, Works, Fails, Goto, Answer
  <1>3. AcceptedAgree'  BY <1>1 DEF TypeOK, AcceptedAgree, Cache, Answer
  <1>4. \A s \in Requests : /\ pc'[s] = "cache" => stored' = {s}
                            /\ pc'[s] = "release" => reply'[s] # "none"
    BY <1>1 DEF TypeOK, Cache, Goto, Answer
  <1> QED  BY <1>1, <1>2, <1>3, <1>4

LEMMA ReleaseAgree == ASSUME AgreeInv, NEW r \in Requests, Release(r) PROVE AgreeInv'
  <1> USE ConstantsAssumption DEF AgreeInv
  <1>1. stored' = stored /\ (entry' = entry \/ entry' = "none")  BY DEF Release
  <1>2. TypeOK'  BY DEF TypeOK, Release, Works, Fails, Goto, Answer
  <1>3. reply[r] \notin Requests  BY DEF TypeOK, Release
  <1>4. AcceptedAgree'  BY <1>1, <1>3 DEF TypeOK, AcceptedAgree, Release, Answer
  <1>5. \A s \in Requests : /\ pc'[s] = "cache" => stored' = {s}
                            /\ pc'[s] = "release" => reply'[s] # "none"
    BY <1>1 DEF TypeOK, Release, Goto, Answer
  <1> QED  BY <1>1, <1>2, <1>4, <1>5

LEMMA EnvironmentAgree ==
    ASSUME AgreeInv, Postgres,
           (\E r \in Requests : Disconnect(r)) \/ Expire \/ Crash \/ UNCHANGED vars
    PROVE  AgreeInv'
  <1> USE ConstantsAssumption DEF AgreeInv
  <1>1. CASE \E r \in Requests : Disconnect(r)
    BY <1>1 DEF Disconnect, TypeOK, AcceptedAgree, handlerVars
  <1>2. CASE Expire  BY <1>2 DEF Expire, TypeOK, AcceptedAgree, handlerVars
  <1>3. CASE Crash
    <2>1. stored' = stored /\ (entry' = entry \/ entry' = "none")  BY <1>3 DEF Crash
    <2>2. TypeOK'  BY <1>3 DEF Crash, TypeOK
    <2>3. AcceptedAgree'  BY <1>3, <2>1 DEF Crash, TypeOK, AcceptedAgree
    <2>4. \A s \in Requests : /\ pc'[s] = "cache" => stored' = {s}
                              /\ pc'[s] = "release" => reply'[s] # "none"
      BY <1>3 DEF Crash, TypeOK
    <2>5. QED  BY <2>1, <2>2, <2>3, <2>4
  <1>4. CASE UNCHANGED vars  BY <1>4 DEF vars, handlerVars, TypeOK, AcceptedAgree
  <1> QED  BY <1>1, <1>2, <1>3, <1>4

LEMMA NextAgree == ASSUME Postgres, AgreeInv, [Next]_vars PROVE AgreeInv'
  BY AcquireAgree, ReadBodyAgree, CreateAgree, CacheAgree, ReleaseAgree, EnvironmentAgree
  DEF Next, HandleIngestEvent, Terminated

\* Every 202 that clients are given for one key names the one event in the table, for any
\* number of requests, expiries (under a live request too), crashes and failed calls.
THEOREM AcceptedOnce == ASSUME Postgres PROVE Spec => []AcceptedAgree
  <1>1. Init => AgreeInv  BY InitAgree
  <1>2. AgreeInv /\ [Next]_vars => AgreeInv'  BY NextAgree
  <1>3. AgreeInv => AcceptedAgree  BY DEF AgreeInv
  <1> QED  BY <1>1, <1>2, <1>3, PTL DEF Spec

\* A late release of a lock, or a second response, never displaces a cached response:
\* what changes it is expiry or the loss of the process that holds it.
THEOREM CachedStays == ASSUME Postgres PROVE Spec => CachedIsStable
  <1> DEFINE Stable == (entry \in Requests /\ entry' # entry)
                          => (expiries' > expiries \/ faults' > faults)
  <1>1. Init => AgreeInv  BY InitAgree
  <1>2. AgreeInv /\ [Next]_vars => AgreeInv'  BY NextAgree
  <1>3. ASSUME AgreeInv, [Next]_vars PROVE [Stable]_vars
    <2> SUFFICES ASSUME Next, entry \in Requests, entry' # entry
                 PROVE  expiries' > expiries \/ faults' > faults
      BY <1>3 DEF vars
    <2> USE <1>3, ConstantsAssumption DEF AgreeInv
    <2>1. ASSUME NEW r \in Requests, HandleIngestEvent(r) PROVE FALSE
      <3>1. CASE Cache(r)
        BY <3>1 DEF Cache
      <3>2. CASE Acquire(r) \/ ReadBody(r) \/ Create(r) \/ Release(r)
        BY <3>2 DEF Acquire, ReadBody, Create, Release
      <3>3. QED  BY <2>1, <3>1, <3>2 DEF HandleIngestEvent
    <2>2. CASE Expire  BY <2>2 DEF Expire, TypeOK
    <2>3. CASE Crash  BY <2>3 DEF Crash, TypeOK
    <2>4. QED  BY <2>1, <2>2, <2>3 DEF Next, Disconnect, Terminated, vars
  <1> QED  BY <1>1, <1>2, <1>3, PTL DEF Spec, CachedIsStable

(***************************************************************************)
(* Mutual exclusion                                                        *)
(***************************************************************************)

\* The marker of whoever holds the lock is in place.
OwnerInv ==
    /\ TypeOK
    /\ OneOwner
    /\ ~Overrun => \A r \in Requests : pc[r] \in Holding => entry = "in_flight"

LEMMA TypeStep == ASSUME TypeOK, [Next]_vars,
                         \A r \in Requests : pc[r] = "release" => reply[r] # "none"
                  PROVE  TypeOK' /\ \A r \in Requests : pc'[r] = "release" => reply'[r] # "none"
  <1> USE ConstantsAssumption DEF TypeOK
  <1>1. ASSUME NEW r \in Requests, HandleIngestEvent(r)
        PROVE  TypeOK' /\ \A s \in Requests : pc'[s] = "release" => reply'[s] # "none"
    <2>1. CASE Acquire(r)  BY <2>1 DEF Acquire, Works, Fails, Goto, Answer
    <2>2. CASE ReadBody(r)  BY <2>2 DEF ReadBody, Goto, Refuse
    <2>3. CASE Create(r)  BY <2>3 DEF Create, Works, Fails, Goto, Refuse
    <2>4. CASE Cache(r)  BY <2>4 DEF Cache, Works, Fails, Goto, Answer
    <2>5. CASE Release(r)  BY <2>5 DEF Release, Works, Fails, Goto, Answer
    <2>6. QED  BY <1>1, <2>1, <2>2, <2>3, <2>4, <2>5 DEF HandleIngestEvent
  <1>2. CASE \E r \in Requests : Disconnect(r)  BY <1>2 DEF Disconnect, handlerVars
  <1>3. CASE Expire  BY <1>3 DEF Expire, handlerVars
  <1>4. CASE Crash  BY <1>4 DEF Crash
  <1>5. CASE UNCHANGED vars  BY <1>5 DEF vars, handlerVars
  <1> QED  BY <1>1, <1>2, <1>3, <1>4, <1>5 DEF Next, Terminated

LockInv == OwnerInv /\ \A r \in Requests : pc[r] = "release" => reply[r] # "none"

LEMMA NextOwner == ASSUME LockInv, [Next]_vars PROVE LockInv'
  <1> USE ConstantsAssumption DEF LockInv, OwnerInv
  <1>1. TypeOK' /\ \A r \in Requests : pc'[r] = "release" => reply'[r] # "none"  BY TypeStep
  <1> DEFINE Owned == OneOwner /\ (~Overrun => \A r \in Requests : pc[r] \in Holding => entry = "in_flight")
  <1>2. ASSUME NEW r \in Requests, HandleIngestEvent(r) PROVE Owned'
    <2>1. CASE Acquire(r)  BY <2>1 DEF Acquire, Goto, Answer, OneOwner, Overrun, TypeOK
    <2>2. CASE ReadBody(r)  BY <2>2 DEF ReadBody, Goto, Refuse, OneOwner, Overrun, TypeOK
    <2>3. CASE Create(r)  BY <2>3 DEF Create, Goto, Refuse, OneOwner, Overrun, TypeOK
    <2>4. CASE Cache(r)  BY <2>4 DEF Cache, Goto, Answer, OneOwner, Overrun, TypeOK
    <2>5. CASE Release(r)  BY <2>5 DEF Release, Goto, Answer, OneOwner, Overrun, TypeOK
    <2>6. QED  BY <1>2, <2>1, <2>2, <2>3, <2>4, <2>5 DEF HandleIngestEvent
  <1>3. CASE \E r \in Requests : Disconnect(r)  BY <1>1, <1>3 DEF Disconnect, handlerVars, OneOwner, Overrun, TypeOK
  <1>4. CASE Expire  BY <1>1, <1>4 DEF Expire, handlerVars, OneOwner, Overrun, TypeOK
  <1>5. CASE Crash  BY <1>1, <1>5 DEF Crash, OneOwner, Overrun, TypeOK
  <1>6. CASE UNCHANGED vars  BY <1>1, <1>6 DEF vars, handlerVars, OneOwner, Overrun, TypeOK
  <1> QED  BY <1>1, <1>2, <1>3, <1>4, <1>5, <1>6 DEF Next, Terminated

LEMMA LockInvariant == Spec => []LockInv
  <1>1. Init => LockInv  BY ConstantsAssumption DEF Init, LockInv, OwnerInv, OneOwner, Overrun, TypeOK
  <1>2. LockInv /\ [Next]_vars => LockInv'  BY NextOwner
  <1> QED  BY <1>1, <1>2, PTL DEF Spec

\* Requests are where the handler can be, whatever fails, and each ends with one answer,
\* with Redis or memory behind the guard and with either repository.
THEOREM GuardType == Spec => []TypeOK
  BY LockInvariant, PTL DEF LockInv, OwnerInv

\* Until a lock expires under its request, one request at most is past the guard,
\* although a release does not say whose lock it gives back.
THEOREM LockIsExclusive == Spec => []OneOwner
  BY LockInvariant, PTL DEF LockInv, OwnerInv

(***************************************************************************)
(* Refusals                                                                *)
(***************************************************************************)

\* What a 500 may be blamed on.
Excused == faults > 0 \/ (Postgres /\ expiries > 0)

\* A request whose event is in the table is on its way to a 202 or to a 500, and until
\* something fails or expires a table that is not empty shows in the guard.
BlameInv ==
    /\ gone # {} => faults > 0
    /\ \A r \in stored :
          \/ pc[r] = "cache"
          \/ pc[r] = "release" /\ reply[r] = "Error"
          \/ pc[r] = "done" /\ answer[r] \notin {"BadRequest", "Conflict"}
    /\ \A r \in Requests : (pc[r] = "release" /\ reply[r] = "Error") \/ answer[r] = "Error" => Excused
    /\ faults = 0 /\ expiries = 0 /\ stored # {} =>
          entry \in Requests \/ \E s \in Requests : pc[s] = "cache"

\* Failures and expiries are not forgotten, and a failed call has a failure to show.
LEMMA FailsFacts ==
    ASSUME TypeOK, BlameInv, NEW r \in Requests, NEW kind, Fails(r, kind)
    PROVE  faults' \in Nat /\ faults' > 0 /\ faults' >= faults
  BY DEF TypeOK, BlameInv, Fails

LEMMA AcquireBlame ==
    ASSUME LockInv, BlameInv, NEW r \in Requests, Acquire(r)
    PROVE  BlameInv'
  <1> TypeOK  BY DEF LockInv, OwnerInv
  <1>1. pc[r] = "arrived" /\ UNCHANGED <<stored, gone, expiries>>  BY DEF Acquire
  <1>2. r \notin stored  BY <1>1 DEF BlameInv
  <1>3. ASSUME UNCHANGED faults, entry = "none", entry' = "in_flight", Goto(r, "body"),
               UNCHANGED <<reply, answer>>
        PROVE  BlameInv'
    BY <1>1, <1>2, <1>3, ConstantsAssumption DEF BlameInv, Goto, Excused, TypeOK
  <1>4. ASSUME UNCHANGED <<faults, entry>>, NEW what \in {"Conflict"} \cup Requests, Answer(r, what)
        PROVE  BlameInv'
    <2>1. what # "Error"  BY ConstantsAssumption
    <2> QED  BY <1>1, <1>2, <1>4, <2>1 DEF BlameInv, Answer, Goto, Excused, TypeOK
  <1>5. ASSUME Fails(r, "acquire"), Answer(r, "Error") PROVE BlameInv'
    <2>1. faults' \in Nat /\ faults' > 0  BY <1>5, FailsFacts
    <2> QED  BY <1>1, <1>2, <1>5, <2>1 DEF BlameInv, Answer, Goto, Excused, TypeOK
  <1> QED  BY <1>3, <1>4, <1>5 DEF Acquire, Works

LEMMA ReadBodyBlame ==
    ASSUME LockInv, BlameInv, NEW r \in Requests, ReadBody(r)
    PROVE  BlameInv'
  <1> TypeOK  BY DEF LockInv, OwnerInv
  <1>1. /\ pc[r] = "body" /\ UNCHANGED <<entry, stored, gone, faults, expiries>>
    BY DEF ReadBody
  <1>2. r \notin stored  BY <1>1 DEF BlameInv
  <1>3. CASE Goto(r, "create") /\ UNCHANGED <<reply, answer>>
    BY <1>1, <1>2, <1>3 DEF BlameInv, Goto, Excused, TypeOK
  <1>4. CASE Refuse(r, "BadRequest")
    BY <1>1, <1>2, <1>4 DEF BlameInv, Refuse, Goto, Excused, TypeOK
  <1> QED  BY <1>3, <1>4 DEF ReadBody

LEMMA CreateBlame ==
    ASSUME LockInv, BlameInv, NEW r \in Requests, Create(r)
    PROVE  BlameInv'
  <1> TypeOK  BY DEF LockInv, OwnerInv
  <1>1. pc[r] = "create" /\ UNCHANGED <<entry, gone, expiries>>  BY DEF Create
  <1>2. r \notin stored  BY <1>1 DEF BlameInv
  <1>3. ASSUME UNCHANGED faults, stored = {}, stored' = {r}, Goto(r, "cache"), UNCHANGED <<reply, answer>>
        PROVE  BlameInv'
    BY <1>1, <1>2, <1>3 DEF BlameInv, Goto, Excused, TypeOK
  <1>4. ASSUME UNCHANGED <<faults, stored>>, stored # {},
               Refuse(r, IF Postgres THEN "Error" ELSE "Conflict")
        PROVE  BlameInv'
    \* The table can only be occupied because something failed or an entry expired.
    <2>1. faults > 0 \/ expiries > 0
      <3> SUFFICES ASSUME faults = 0, expiries = 0 PROVE FALSE  BY DEF TypeOK
      <3>1. ~Overrun  BY DEF Overrun
      <3>2. entry = "in_flight" /\ \A s \in Requests : pc[s] \in Holding => s = r
        BY <1>1, <3>1 DEF LockInv, OwnerInv, OneOwner
      <3>3. entry \notin Requests  BY <3>2, ConstantsAssumption
      <3> QED  BY <1>1, <1>4, <3>2, <3>3 DEF BlameInv
    <2>2. Postgres \in BOOLEAN  BY ConstantsAssumption
    <2>3. CASE Postgres
      <3>1. Excused /\ Excused'  BY <1>1, <1>4, <2>1, <2>3 DEF Excused
      <3>2. reply' = [reply EXCEPT ![r] = "Error"]  BY <1>4, <2>3 DEF Refuse
      <3> QED  BY <1>1, <1>2, <1>4, <2>1, <3>1, <3>2 DEF BlameInv, Refuse, Goto, TypeOK
    <2>4. CASE ~Postgres
      <3>1. reply' = [reply EXCEPT ![r] = "Conflict"]  BY <1>4, <2>4 DEF Refuse
      <3> QED  BY <1>1, <1>2, <1>4, <2>1, <3>1 DEF BlameInv, Refuse, Goto, Excused, TypeOK
    <2> QED  BY <2>3, <2>4
  <1>5. ASSUME Fails(r, "create"), Refuse(r, "Error"), stored' = stored \/ stored' = {r} PROVE BlameInv'
    <2>1. faults' \in Nat /\ faults' > 0  BY <1>5, FailsFacts
    <2>2. stored' \subseteq stored \cup {r}  BY <1>5
    <2>3. pc'[r] = "release" /\ reply'[r] = "Error"  BY <1>5 DEF Refuse, Goto, TypeOK
    <2> QED  BY <1>1, <1>2, <1>5, <2>1, <2>2, <2>3 DEF BlameInv, Refuse, Goto, Excused, TypeOK
  <1> QED  BY <1>3, <1>4, <1>5 DEF Create, Works

LEMMA CacheBlame ==
    ASSUME LockInv, BlameInv, NEW r \in Requests, Cache(r)
    PROVE  BlameInv'
  <1> TypeOK  BY DEF LockInv, OwnerInv
  <1>1. pc[r] = "cache" /\ UNCHANGED <<stored, gone, expiries>> /\ Answer(r, r)  BY DEF Cache
  <1>2. (UNCHANGED faults /\ entry' = r) \/ (faults' \in Nat /\ faults' > 0)
    BY FailsFacts DEF Cache, Works
  <1>3. r \notin {"BadRequest", "Conflict", "Error"}  BY ConstantsAssumption
  <1> QED  BY <1>1, <1>2, <1>3 DEF BlameInv, Answer, Goto, Excused, TypeOK

LEMMA ReleaseBlame ==
    ASSUME LockInv, BlameInv, NEW r \in Requests, Release(r)
    PROVE  BlameInv'
  <1> TypeOK  BY DEF LockInv, OwnerInv
  <1>1. pc[r] = "release" /\ UNCHANGED <<stored, gone, expiries>> /\ Answer(r, reply[r])
    BY DEF Release
  <1>2. \/ UNCHANGED faults /\ (entry' = entry \/ entry = "in_flight")
        \/ faults' \in Nat /\ faults' > 0
    BY FailsFacts DEF Release, Works
  <1>3. entry = "in_flight" => entry \notin Requests  BY ConstantsAssumption
  <1>4. Excused => Excused'  BY <1>1, <1>2 DEF Excused, TypeOK
  <1>5. \A s \in Requests : answer'[s] = IF s = r THEN reply[r] ELSE answer[s]
    BY <1>1 DEF Answer, TypeOK
  <1>6. pc' = [pc EXCEPT ![r] = "done"] /\ UNCHANGED reply  BY <1>1 DEF Answer, Goto
  <1>7. \A s \in stored' :
          \/ pc'[s] = "cache"
          \/ pc'[s] = "release" /\ reply'[s] = "Error"
          \/ pc'[s] = "done" /\ answer'[s] \notin {"BadRequest", "Conflict"}
    BY <1>1, <1>5, <1>6 DEF BlameInv, TypeOK
  <1>8. \A s \in Requests :
          (pc'[s] = "release" /\ reply'[s] = "Error") \/ answer'[s] = "Error" => Excused'
    BY <1>1, <1>4, <1>5, <1>6 DEF BlameInv, TypeOK
  <1>9. faults' = 0 /\ expiries' = 0 /\ stored' # {} =>
          entry' \in Requests \/ \E s \in Requests : pc'[s] = "cache"
    BY <1>1, <1>2, <1>3, <1>6 DEF BlameInv, TypeOK
  <1>10. gone' # {} => faults' > 0  BY <1>1, <1>2 DEF BlameInv
  <1> QED  BY <1>7, <1>8, <1>9, <1>10 DEF BlameInv

LEMMA EnvironmentBlame ==
    ASSUME LockInv, BlameInv,
           (\E r \in Requests : Disconnect(r)) \/ Expire \/ Crash \/ UNCHANGED vars
    PROVE  BlameInv'
  <1> TypeOK  BY DEF LockInv, OwnerInv
  <1> USE DEF BlameInv, Excused, TypeOK
  <1>1. CASE \E r \in Requests : Disconnect(r)  BY <1>1 DEF Disconnect, handlerVars
  <1>2. CASE Expire  BY <1>2 DEF Expire, handlerVars
  <1>3. CASE Crash
    <2>1. faults' \in Nat /\ faults' > 0 /\ stored' \subseteq stored /\ UNCHANGED <<reply, gone>>
      BY <1>3 DEF Crash
    <2>2. \A r \in Requests : /\ pc'[r] = IF pc[r] \in Holding THEN "done" ELSE pc[r]
                             /\ answer'[r] = IF pc[r] \in Holding THEN "Lost" ELSE answer[r]
      BY <1>3 DEF Crash
    <2> QED  BY <2>1, <2>2
  <1>4. CASE UNCHANGED vars  BY <1>4 DEF vars, handlerVars
  <1> QED  BY <1>1, <1>2, <1>3, <1>4

\* HandleIngestEvent gives its refusals for their reason: no event is stored by a request
\* that is told 400 or 409, and without a failure there is a 500 only when PostgreSQL
\* refuses the second event of a key whose entry had expired.
THEOREM RefusalsAreTrue == Spec => []RefusalsAreHonest
  <1>1. Init => BlameInv  BY DEF Init, BlameInv, Excused
  <1>2. LockInv /\ BlameInv /\ [Next]_vars => BlameInv'
    BY AcquireBlame, ReadBodyBlame, CreateBlame, CacheBlame, ReleaseBlame, EnvironmentBlame
    DEF Next, HandleIngestEvent, Terminated
  <1>3. LockInv /\ BlameInv => RefusalsAreHonest
    <2> SUFFICES ASSUME LockInv, BlameInv, NEW r \in Requests
                 PROVE  /\ answer[r] \in {"BadRequest", "Conflict"} => r \notin stored
                        /\ answer[r] = "Error" => Excused
      BY DEF RefusalsAreHonest, Excused
    <2>1. answer[r] # "none" => pc[r] = "done"  BY DEF LockInv, OwnerInv, TypeOK
    <2> QED  BY <2>1 DEF BlameInv
  <1> QED  BY <1>1, <1>2, <1>3, LockInvariant, PTL DEF Spec

=============================================================================
