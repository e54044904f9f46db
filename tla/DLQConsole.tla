----------------------------- MODULE DLQConsole -----------------------------
(***************************************************************************)
(* The dead letter queue as its users see it: GET /api/v1/dlq and          *)
(* POST /api/v1/dlq/replay (internal/api), the transaction of              *)
(* PostgresRepository.ReplayDLQEvents (internal/storage), the dashboard's  *)
(* useDLQ (web/src/hooks) and programs that call ReplayDLQ of the SDK,     *)
(* while workers go on delivering and dead-lettering the same events.      *)
(*                                                                         *)
(* WebhookEngine has a replay in one step.  Here it is a transaction of    *)
(* one UPDATE and one INSERT for each id, with the row locks PostgreSQL    *)
(* takes under READ COMMITTED: an UPDATE whose row matches and is locked   *)
(* waits, and looks at the row again when it has the lock.                 *)
(***************************************************************************)
EXTENDS Naturals, FiniteSets, Sequences

CONSTANTS
    MaxEvent,       \* events are 1 .. MaxEvent, in the order of created_at
    Tenants,
    TenantOf,       \* the tenant of each event
    Dashboards,     \* browsers with the dashboard open
    Programs,       \* users of the SDK
    HomeTenant,     \* the tenant dashboards open with and programs' clients were made for
    Batches,        \* what programs ask to replay: sequences of ids
    PageSize,       \* 50: the limit HandleListDLQ always asks for
    MaxBatch,       \* 100: what HandleReplayDLQ accepts
    MaxReplays,     \* bound: how many replays are asked for
    MaxLists,       \* bound: lists asked for before no more are but after a replay
    MaxDead,        \* bound: how often an event is dead-lettered
    MaxFaults       \* bound: how many failures happen

Events == 1 .. MaxEvent

ASSUME ConstantsAssumption ==
    /\ MaxEvent \in Nat
    /\ TenantOf \in [Events -> Tenants]
    /\ Dashboards \cap Programs = {}
    /\ HomeTenant \in Tenants
    /\ \A b \in Batches : b \in Seq(Events)
    /\ PageSize \in Nat \ {0} /\ MaxBatch \in Nat /\ PageSize <= MaxBatch
    /\ MaxReplays \in Nat /\ MaxLists \in Nat /\ MaxDead \in Nat /\ MaxFaults \in Nat

VARIABLES
    \* the database, as committed
    status,     \* events.status
    records,    \* outbox records and messages not yet done with: <<event, number>>
    reopened,   \* how often replays have reopened an event
    dead,       \* history: how often an event became DLQ
    \* the calls of HandleReplayDLQ
    calls,      \* who asked for what: [by, tenant, ids]
    pc,         \* "sent", "tx" or "ended"
    next,       \* the id the loop of ReplayDLQEvents is at
    touched,    \* the rows its transaction has updated, and holds locked
    granted,    \* history: the rows it has reopened for good
    answer,     \* what the client is answered
    \* the dashboards
    tenant, shown, selected, loading, replaying,
    lists,      \* requests for a list under way
    asked,      \* how many were made
    \* the workers
    passes,     \* the records workers are at
    faults

database == <<status, records, reopened, dead>>
callVars == <<calls, pc, next, touched, granted, answer>>
viewVars == <<tenant, shown, selected, loading, replaying, lists, asked>>
vars == <<database, callVars, viewVars, passes, faults>>

\* GetDLQEvents: the newest PageSize dead letters of a tenant.
GetDLQEvents(t) ==
    LET D == {e \in Events : status[e] = "DLQ" /\ TenantOf[e] = t}
    IN  {e \in D : Cardinality({f \in D : f > e}) < PageSize}

\* All events went to the DLQ earlier, and the dashboards have just shown them.
Init ==
    /\ status = [e \in Events |-> "DLQ"]
    /\ records = {}
    /\ reopened = [e \in Events |-> 0]
    /\ dead = [e \in Events |-> 1]
    /\ calls = << >> /\ pc = << >> /\ next = << >>
    /\ touched = << >> /\ granted = << >> /\ answer = << >>
    /\ tenant = [d \in Dashboards |-> HomeTenant]
    /\ shown = [d \in Dashboards |-> GetDLQEvents(tenant[d])]
    /\ selected = [d \in Dashboards |-> {}]
    /\ loading = [d \in Dashboards |-> FALSE]
    /\ replaying = [d \in Dashboards |-> FALSE]
    /\ lists = {}
    /\ asked = 0
    /\ passes = {}
    /\ faults = 0

Fault == faults < MaxFaults /\ faults' = faults + 1

(***************************************************************************)
(* Asking for a replay                                                     *)
(***************************************************************************)

Send(by, t, ids) ==
    /\ Len(calls) < MaxReplays
    /\ calls' = Append(calls, [by |-> by, tenant |-> t, ids |-> ids])
    /\ pc' = Append(pc, "sent")
    /\ next' = Append(next, 1)
    /\ touched' = Append(touched, {})
    /\ granted' = Append(granted, {})
    /\ answer' = Append(answer, "none")

\* ReplayDLQ of the SDK sends what it is given, repeated ids and all.
ReplayDLQ(p, ids) ==
    /\ ids # << >>
    /\ Send(p, HomeTenant, ids)
    /\ UNCHANGED <<database, viewVars, passes, faults>>

\* The ids of a set in any order: a Set keeps the order of the clicks.
Orders(S) == {s \in [1 .. Cardinality(S) -> S] : {s[i] : i \in DOMAIN s} = S}

\* replaySelected and replayAll, whose buttons are off while a replay is on, and
\* replaySingle, whose button never is.
ReplayEvents(d) ==
    /\ \/ \E e \in shown[d] : Send(d, tenant[d], <<e>>)
       \/ ~replaying[d] /\ selected[d] # {} /\ \E s \in Orders(selected[d]) : Send(d, tenant[d], s)
       \/ ~replaying[d] /\ shown[d] # {} /\ \E s \in Orders(shown[d]) : Send(d, tenant[d], s)
    /\ replaying' = [replaying EXCEPT ![d] = TRUE]
    /\ UNCHANGED <<database, tenant, shown, selected, loading, lists, asked, passes, faults>>

(***************************************************************************)
(* HandleReplayDLQ and ReplayDLQEvents                                     *)
(***************************************************************************)

\* A number no list request under way has.
Ticket == CHOOSE n \in 0 .. Cardinality(lists) : \A l \in lists : l.n # n

\* A dashboard asks for a list, after a replay or on its own.
FetchDLQ(d, t, after) ==
    /\ after \/ asked < MaxLists
    /\ asked' = asked + 1
    /\ lists' = lists \cup {[n |-> Ticket, by |-> d, tenant |-> t, after |-> after,
                             state |-> "asked", rows |-> {}]}
    /\ loading' = [loading EXCEPT ![d] = TRUE]

\* The call ends and its client takes the answer: a dashboard refreshes its list when
\* it was a 200, and otherwise is done with replaying.
Ended(k, what) ==
    /\ pc' = [pc EXCEPT ![k] = "ended"]
    /\ calls' = [calls EXCEPT ![k].ids = << >>]
    /\ next' = [next EXCEPT ![k] = 1]
    /\ answer' = [answer EXCEPT ![k] = what]
    /\ touched' = [touched EXCEPT ![k] = {}]
    /\ LET d == calls[k].by IN
       \/ d \in Programs /\ UNCHANGED viewVars
       \/ /\ d \in Dashboards /\ what = "OK"
          /\ FetchDLQ(d, calls[k].tenant, TRUE)
          /\ UNCHANGED <<tenant, shown, selected, replaying>>
       \/ /\ d \in Dashboards /\ what # "OK"
          /\ replaying' = [replaying EXCEPT ![d] = FALSE]
          /\ UNCHANGED <<tenant, shown, selected, loading, lists, asked>>

\* The checks of the handler, and BeginTx.
HandleReplayDLQ(k) ==
    /\ pc[k] = "sent"
    /\ \/ /\ Len(calls[k].ids) > MaxBatch
          /\ Ended(k, "BadRequest")
          /\ UNCHANGED granted
       \/ /\ Len(calls[k].ids) <= MaxBatch
          /\ pc' = [pc EXCEPT ![k] = "tx"]
          /\ UNCHANGED <<calls, next, touched, granted, answer, viewVars>>
    /\ UNCHANGED <<database, passes, faults>>

Row(k) == calls[k].ids[next[k]]   \* the row of the next UPDATE
InLoop(k) == pc[k] = "tx" /\ next[k] <= Len(calls[k].ids)

\* Mutant: the UPDATE does not ask for the status DLQ.
MatchesAnyStatus(k) == Row(k) \notin touched[k] /\ TenantOf[Row(k)] = calls[k].tenant

\* Mutant: the UPDATE does not ask for the tenant.
MatchesAnyTenant(k) == status[Row(k)] = "DLQ" /\ Row(k) \notin touched[k]

\* The row matches the WHERE clause.
Matches(k) ==
    /\ status[Row(k)] = "DLQ"
    /\ Row(k) \notin touched[k]
    /\ TenantOf[Row(k)] = calls[k].tenant

LockedBy(e, k) == k \in DOMAIN touched /\ e \in touched[k]

\* Call k waits for a row that call h has locked.
WaitsFor(k, h) == k # h /\ InLoop(k) /\ Matches(k) /\ LockedBy(Row(k), h)

\* Mutant: the UPDATE is not part of the transaction.
UpdateRowAtOnce(k) ==
    /\ InLoop(k)
    /\ \A h \in DOMAIN calls : ~WaitsFor(k, h)
    /\ next' = [next EXCEPT ![k] = @ + 1]
    /\ touched' = [touched EXCEPT ![k] = IF Matches(k) THEN @ \cup {Row(k)} ELSE @]
    /\ status' = [status EXCEPT ![Row(k)] = IF Matches(k) THEN "PENDING" ELSE @]
    /\ granted' = [granted EXCEPT ![k] = touched'[k]]
    /\ UNCHANGED <<records, reopened, dead, calls, pc, answer, viewVars, passes, faults>>

\* One turn of the loop: the UPDATE and, when it changed the row, the INSERT.
UpdateRow(k) ==
    /\ InLoop(k)
    /\ \A h \in DOMAIN calls : ~WaitsFor(k, h)
    /\ next' = [next EXCEPT ![k] = @ + 1]
    /\ touched' = [touched EXCEPT ![k] = IF Matches(k) THEN @ \cup {Row(k)} ELSE @]
    /\ UNCHANGED <<database, calls, pc, granted, answer, viewVars, passes, faults>>

\* The rows of S become PENDING, with a new outbox record each.
Reopen(k, S) ==
    /\ status' = [e \in Events |-> IF e \in S THEN "PENDING" ELSE status[e]]
    /\ reopened' = [e \in Events |-> IF e \in S THEN reopened[e] + 1 ELSE reopened[e]]
    /\ records' = records \cup {<<e, reopened'[e]>> : e \in S}
    /\ granted' = [granted EXCEPT ![k] = @ \cup S]
    /\ UNCHANGED dead

Commit(k) ==
    /\ pc[k] = "tx" /\ ~InLoop(k)
    /\ Reopen(k, touched[k])
    /\ Ended(k, "OK")
    /\ UNCHANGED <<passes, faults>>

\* Commit fails and nobody knows whether it was done.
CommitFails(k) ==
    /\ pc[k] = "tx" /\ ~InLoop(k)
    /\ Fault
    /\ Reopen(k, touched[k]) \/ UNCHANGED <<database, granted>>
    /\ Ended(k, "CommitError")
    /\ UNCHANGED passes

\* Mutant: no Rollback, in a transaction that is not begun with the request's context.
StatementFailsOpen(k) ==
    /\ InLoop(k)
    /\ Fault
    /\ pc' = [pc EXCEPT ![k] = "ended"]
    /\ answer' = [answer EXCEPT ![k] = "Error"]
    /\ replaying' = [d \in Dashboards |-> replaying[d] /\ d # calls[k].by]
    /\ UNCHANGED <<database, calls, next, touched, granted, tenant, shown, selected, loading,
                   lists, asked, passes>>

\* A statement fails, or the client is gone and its context with it: the deferred
\* Rollback gives up what the transaction did.
StatementFails(k) ==
    /\ InLoop(k)
    /\ Fault
    /\ Ended(k, "Error")
    /\ UNCHANGED <<database, granted, passes>>

\* Calls that wait for each other in a circle.
Deadlocked(S) ==
    /\ S # {}
    /\ \A k \in S : \E h \in S : WaitsFor(k, h)
    /\ \A h \in S : \E k \in S : WaitsFor(k, h)

\* PostgreSQL ends one transaction of a circle with an error.
BreakDeadlock(k) ==
    /\ \E S \in SUBSET DOMAIN calls : k \in S /\ Deadlocked(S)
    /\ Ended(k, "Error")
    /\ UNCHANGED <<database, granted, passes, faults>>

\* The server dies, and its transactions with it.
Crash ==
    /\ Fault
    /\ \E k \in DOMAIN calls : pc[k] # "ended"
    /\ pc' = [k \in DOMAIN pc |-> "ended"]
    /\ calls' = [k \in DOMAIN pc |-> [calls[k] EXCEPT !.ids = << >>]]
    /\ next' = [k \in DOMAIN pc |-> 1]
    /\ answer' = [k \in DOMAIN pc |-> IF pc[k] = "ended" THEN answer[k] ELSE "Lost"]
    /\ touched' = [k \in DOMAIN pc |-> {}]
    /\ replaying' = [d \in Dashboards |->
                       replaying[d] /\ \A k \in DOMAIN pc : calls[k].by = d => pc[k] = "ended"]
    /\ passes' = {}
    /\ UNCHANGED <<database, granted, tenant, shown, selected, loading, lists, asked>>

(***************************************************************************)
(* The dashboard: useDLQ                                                   *)
(***************************************************************************)

\* The Refresh button.
Refresh(d) ==
    /\ ~loading[d] /\ ~replaying[d]
    /\ FetchDLQ(d, tenant[d], FALSE)
    /\ UNCHANGED <<database, callVars, tenant, shown, selected, replaying, passes, faults>>

\* Another tenant is chosen: its list is asked for, and the old one stays until then.
SwitchTenant(d, t) ==
    /\ t # tenant[d]
    /\ tenant' = [tenant EXCEPT ![d] = t]
    /\ FetchDLQ(d, t, FALSE)
    /\ UNCHANGED <<database, callVars, shown, selected, replaying, passes, faults>>

HandleListDLQ(l) ==
    /\ l \in lists /\ l.state = "asked"
    /\ lists' = (lists \ {l}) \cup {[l EXCEPT !.state = "answered", !.rows = GetDLQEvents(l.tenant)]}
    /\ UNCHANGED <<database, callVars, tenant, shown, selected, loading, replaying, asked, passes,
                   faults>>

\* Mutant: the selection is not cleaned up.
TakeListOnly(l) ==
    /\ l \in lists /\ l.state = "answered"
    /\ lists' = lists \ {l}
    /\ shown' = [shown EXCEPT ![l.by] = l.rows]
    /\ loading' = [loading EXCEPT ![l.by] = FALSE]
    /\ replaying' = [replaying EXCEPT ![l.by] = @ /\ ~l.after]
    /\ UNCHANGED <<database, callVars, tenant, selected, asked, passes, faults>>

\* An answer is taken, in whatever order answers arrive; ids no longer listed leave the
\* selection.
TakeList(l) ==
    /\ l \in lists /\ l.state = "answered"
    /\ lists' = lists \ {l}
    /\ shown' = [shown EXCEPT ![l.by] = l.rows]
    /\ selected' = [selected EXCEPT ![l.by] = @ \cap l.rows]
    /\ loading' = [loading EXCEPT ![l.by] = FALSE]
    /\ replaying' = [replaying EXCEPT ![l.by] = @ /\ ~l.after]
    /\ UNCHANGED <<database, callVars, tenant, asked, passes, faults>>

\* The request for a list fails: what is shown stays.
ListFails(l) ==
    /\ l \in lists
    /\ Fault
    /\ lists' = lists \ {l}
    /\ loading' = [loading EXCEPT ![l.by] = FALSE]
    /\ replaying' = [replaying EXCEPT ![l.by] = @ /\ ~l.after]
    /\ UNCHANGED <<database, callVars, tenant, shown, selected, asked, passes>>

\* toggleSelect on a row, selectAll and clearSelection.
Select(d) ==
    /\ \E e \in shown[d] :
          selected' \in {[selected EXCEPT ![d] = (@ \cup {e}) \ (@ \cap {e})],
                         [selected EXCEPT ![d] = shown[d]],
                         [selected EXCEPT ![d] = {}]}
    /\ selected' # selected
    /\ UNCHANGED <<database, callVars, tenant, shown, loading, replaying, lists, asked, passes, faults>>

(***************************************************************************)
(* The workers                                                             *)
(***************************************************************************)

\* A worker takes a record, perhaps one that another worker is still at, and looks at
\* the status: what is final already is done with.
Take(r) ==
    /\ \/ /\ status[r[1]] = "PENDING"
          /\ passes' = passes \cup {r}
          /\ UNCHANGED records
       \/ /\ status[r[1]] # "PENDING"
          /\ records' = records \ {r}
          /\ UNCHANGED passes
    /\ UNCHANGED <<status, reopened, dead, callVars, viewVars, faults>>

\* The pass of a worker ends: UpdateEventStatus, which waits for a row that is locked,
\* and Ack.  A second worker may still be at the record.
Finish(r) ==
    /\ \A k \in DOMAIN calls : ~LockedBy(r[1], k)
    /\ \/ /\ status' = [status EXCEPT ![r[1]] = "DELIVERED"]
          /\ UNCHANGED dead
       \/ /\ dead[r[1]] < MaxDead
          /\ status' = [status EXCEPT ![r[1]] = "DLQ"]
          /\ dead' = [dead EXCEPT ![r[1]] = IF status[r[1]] = "DLQ" THEN @ ELSE @ + 1]
    /\ records' = records \ {r}
    /\ passes' \in {passes, passes \ {r}}
    /\ UNCHANGED <<reopened, callVars, viewVars, faults>>

\* Nothing is under way.
Quiet ==
    /\ \A k \in DOMAIN pc : pc[k] = "ended"
    /\ lists = {} /\ records = {} /\ passes = {}
    /\ UNCHANGED vars

HandlerStep(k) ==
    \/ HandleReplayDLQ(k) \/ UpdateRow(k) \/ Commit(k) \/ CommitFails(k)
    \/ StatementFails(k) \/ BreakDeadlock(k)

DashboardStep(d) ==
    \/ Refresh(d) \/ (\E t \in Tenants : SwitchTenant(d, t)) \/ Select(d) \/ ReplayEvents(d)

ListStep(l) == HandleListDLQ(l) \/ TakeList(l) \/ ListFails(l)

Next ==
    \/ \E k \in DOMAIN calls : HandlerStep(k)
    \/ \E d \in Dashboards : DashboardStep(d)
    \/ \E p \in Programs, ids \in Batches : ReplayDLQ(p, ids)
    \/ \E l \in lists : ListStep(l)
    \/ (\E r \in records : Take(r)) \/ (\E r \in passes : Finish(r))
    \/ Crash
    \/ Quiet

Spec == Init /\ [][Next]_vars

\* Requests that were sent are served and answered.
FairSpec ==
    /\ Spec
    /\ WF_vars(\E k \in DOMAIN calls : HandlerStep(k))
    /\ WF_vars(\E l \in lists : ListStep(l))

(***************************************************************************)
(* Properties                                                              *)
(***************************************************************************)

\* Rows, calls and views are of their kind.  "Clean up selected IDs that no longer exist":
\* what is selected is on the screen, whatever the order in which lists arrive, and never
\* more than the API accepts.
TypeOK ==
    /\ status \in [Events -> {"PENDING", "DELIVERED", "DLQ"}]
    /\ records \subseteq Events \X Nat
    /\ reopened \in [Events -> Nat] /\ dead \in [Events -> Nat]
    /\ \A k \in DOMAIN calls :
          /\ calls[k] \in [by : Dashboards \cup Programs, tenant : Tenants, ids : Seq(Events)]
          /\ pc[k] \in {"sent", "tx", "ended"}
          /\ next[k] \in 1 .. Len(calls[k].ids) + 1
          /\ touched[k] \subseteq Events /\ granted[k] \subseteq Events
          /\ answer[k] \in {"none", "OK", "BadRequest", "Error", "CommitError", "Lost"}
    /\ tenant \in [Dashboards -> Tenants]
    /\ shown \in [Dashboards -> SUBSET Events]
    /\ \A d \in Dashboards : selected[d] \subseteq shown[d] /\ Cardinality(shown[d]) <= MaxBatch
    /\ loading \in [Dashboards -> BOOLEAN] /\ replaying \in [Dashboards -> BOOLEAN]
    /\ faults \in Nat /\ asked \in Nat

\* "Update status to PENDING only if event is currently DLQ": however many replays of an
\* event run at once, are repeated after a lost answer or come from a stale list, each
\* time it was dead-lettered is reopened once at most.
ReopenedOnce ==
    \A e \in Events : reopened[e] + (IF status[e] = "DLQ" THEN 1 ELSE 0) <= dead[e]

\* A reopened event has a record that will bring it to a worker, even when a worker that
\* was at an older record of it writes its own verdict in between.
ReopenedIsCarried ==
    \A e \in Events : status[e] = "PENDING" => \E r \in records : r[1] = e

\* A replay that is answered 400 or 500 reopened nothing, unless it was the commit whose
\* outcome was lost, however far its loop had come.
AllOrNothing ==
    \A k \in DOMAIN calls :
        answer[k] \in {"BadRequest", "Error", "Lost"} => granted[k] = {}

\* A dashboard that still shows, or shows again, the list of the tenant it has left
\* reopens none of that tenant's events with its new tenant's name.
TenantsApart ==
    \A k \in DOMAIN calls : \A e \in granted[k] : TenantOf[e] = calls[k].tenant

\* Every replay is answered and no dashboard stays busy with one, although transactions
\* may wait for each other's rows in a circle: with a bounded number of replays, there is
\* always a later moment at which none is under way.
ReplaysAnswered ==
    []<>(/\ \A k \in DOMAIN pc : pc[k] = "ended"
         /\ \A d \in Dashboards : ~replaying[d])

=============================================================================
