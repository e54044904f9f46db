--------------------------- MODULE ServerLifecycle ---------------------------
(***************************************************************************)
(* The life of one server process: main (cmd/server) starts the worker     *)
(* pool, the relay and the HTTP server, waits for a signal and takes them  *)
(* down in order; Start, Stop and Shutdown of WorkerPool (internal/worker) *)
(* may also be called by other goroutines, as tests and tools do.          *)
(*                                                                         *)
(* What requests and workers do is in IngestGuard and WebhookEngine; here  *)
(* it only matters when they run and when they use the store.              *)
(***************************************************************************)
EXTENDS Naturals

CONSTANTS
    Goroutines,   \* those of the pool: its workers and the reclaimer
    Reclaimer,
    Requests,     \* HTTP requests
    Streams,      \* those of them that are live streams, which only their client ends
    Main,
    Callers       \* others that call Stop or Shutdown of the pool

ASSUME ConstantsAssumption ==
    /\ Reclaimer \in Goroutines
    /\ Streams \subseteq Requests
    /\ Main \notin Callers

VARIABLES
    pc,          \* where main is
    listening,   \* the listener is open
    request,     \* what became of each request
    graceOver,   \* the 15 seconds of server.Shutdown have passed
    rootDone,    \* rootCancel was called
    relay,       \* "none", "running" or "exited"
    store,       \* "open" or "closed"
    \* the pool
    started, stopped,   \* the two atomic flags
    cancelSet,   \* p.cancel has been assigned
    poolDone,    \* p.cancel was called
    counted,     \* the wait group: goroutines added and not done
    goroutine,   \* "none", "idle", "busy" or "exited"
    stopper,     \* where each caller of Stop or Shutdown is
    inTime       \* history: callers that called after Start had returned

Stoppers == Callers \cup {Main}

mainVars == <<pc, listening, graceOver, rootDone, store>>
poolVars == <<started, stopped, cancelSet, poolDone, counted, goroutine>>
stopVars == <<stopper, inTime>>
vars == <<mainVars, request, relay, poolVars, stopVars>>

Init ==
    /\ pc = "boot"
    /\ listening = FALSE
    /\ request = [r \in Requests |-> "none"]
    /\ graceOver = FALSE
    /\ rootDone = FALSE
    /\ relay = "none"
    /\ store = "open"
    /\ started = FALSE /\ stopped = FALSE
    /\ cancelSet = FALSE /\ poolDone = FALSE
    /\ counted = {}
    /\ goroutine = [g \in Goroutines |-> "none"]
    /\ stopper = [c \in Stoppers |-> "none"]
    /\ inTime = {}

Alive == pc # "exited"
Done  == rootDone \/ poolDone    \* the context of the pool's goroutines is done

(***************************************************************************)
(* WorkerPool.Start, called by main                                        *)
(***************************************************************************)

StartPool ==
    /\ pc = "boot"
    /\ ~started
    /\ started' = TRUE
    /\ pc' = "group"
    /\ UNCHANGED <<listening, graceOver, rootDone, store, request, relay, stopped, cancelSet,
                   poolDone, counted, goroutine, stopVars>>

\* CreateConsumerGroup, whose error is dropped, and then the assignment of p.cancel.
SetCancel ==
    /\ pc = "group"
    /\ cancelSet' = TRUE
    /\ pc' = "launch"
    /\ UNCHANGED <<listening, graceOver, rootDone, store, request, relay, started, stopped,
                   poolDone, counted, goroutine, stopVars>>

\* Mutant: the reclaimer is launched without wg.Add.
LaunchUncounted(g) ==
    /\ pc = "launch"
    /\ goroutine[g] = "none"
    /\ g = Reclaimer => \A h \in Goroutines \ {g} : goroutine[h] # "none"
    /\ counted' = IF g = Reclaimer THEN counted ELSE counted \cup {g}
    /\ goroutine' = [goroutine EXCEPT ![g] = "idle"]
    /\ UNCHANGED <<mainVars, request, relay, started, stopped, cancelSet, poolDone, stopVars>>

\* wg.Add(1) and the go statement, for the workers and then the reclaimer.
Launch(g) ==
    /\ pc = "launch"
    /\ goroutine[g] = "none"
    /\ g = Reclaimer => \A h \in Goroutines \ {g} : goroutine[h] # "none"
    /\ counted' = counted \cup {g}
    /\ goroutine' = [goroutine EXCEPT ![g] = "idle"]
    /\ UNCHANGED <<mainVars, request, relay, started, stopped, cancelSet, poolDone, stopVars>>

\* Start has returned: the relay and the listener are started, and signals are caught.
Serve ==
    /\ pc = "launch"
    /\ \A g \in Goroutines : goroutine[g] # "none"
    /\ relay' = "running"
    /\ listening' = TRUE
    /\ pc' = "serving"
    /\ UNCHANGED <<graceOver, rootDone, store, request, poolVars, stopVars>>

\* ListenAndServe fails: log.Fatalf ends the process as it is.
ListenFails ==
    /\ pc = "serving"
    /\ listening
    /\ \A r \in Requests : request[r] = "none"
    /\ pc' = "exited"
    /\ UNCHANGED <<listening, graceOver, rootDone, store, request, relay, poolVars, stopVars>>

(***************************************************************************)
(* The shutdown                                                            *)
(***************************************************************************)

\* SIGINT or SIGTERM: server.Shutdown closes the listener.
Signal ==
    /\ pc = "serving"
    /\ listening' = FALSE
    /\ pc' = "draining"
    /\ UNCHANGED <<graceOver, rootDone, store, request, relay, poolVars, stopVars>>

Running(r) == request[r] = "running"

\* server.Shutdown returns when no request is being served.
HTTPDrained ==
    /\ pc = "draining"
    /\ \A r \in Requests : ~Running(r)
    /\ pc' = "drained"
    /\ UNCHANGED <<listening, graceOver, rootDone, store, request, relay, poolVars, stopVars>>

\* Mutant: Shutdown without a deadline.
NoDeadline == FALSE /\ UNCHANGED vars

\* Or when its 15 seconds are over, whatever is being served.
HTTPDeadline ==
    /\ pc = "draining"
    /\ graceOver' = TRUE
    /\ pc' = "drained"
    /\ UNCHANGED <<listening, rootDone, store, request, relay, poolVars, stopVars>>

RootCancel ==
    /\ pc = "drained"
    /\ rootDone' = TRUE
    /\ pc' = "joining"
    /\ UNCHANGED <<listening, graceOver, store, request, relay, poolVars, stopVars>>

\* Mutant: main does not wait for the relay.
JoinNothing ==
    /\ pc = "joining"
    /\ pc' = "stopping"
    /\ UNCHANGED <<listening, graceOver, rootDone, store, request, relay, poolVars, stopVars>>

\* <-relayDone.
JoinRelay ==
    /\ pc = "joining"
    /\ relay = "exited"
    /\ pc' = "stopping"
    /\ UNCHANGED <<listening, graceOver, rootDone, store, request, relay, poolVars, stopVars>>

\* Stop has returned: db.Close and redisClient.Close.
CloseStore ==
    /\ pc = "stopping"
    /\ stopper[Main] \in {"drained", "lost"}
    /\ store' = "closed"
    /\ pc' = "closed"
    /\ UNCHANGED <<listening, graceOver, rootDone, request, relay, poolVars, stopVars>>

Exit ==
    /\ pc = "closed"
    /\ pc' = "exited"
    /\ UNCHANGED <<listening, graceOver, rootDone, store, request, relay, poolVars, stopVars>>

(***************************************************************************)
(* WorkerPool.Stop and Shutdown                                            *)
(***************************************************************************)

\* The flag stopped is set once: whoever comes later returns at once.
CallStop(c) ==
    /\ Alive
    /\ stopper[c] = "none"
    /\ c = Main => pc = "stopping"
    /\ stopper' = [stopper EXCEPT ![c] = IF stopped THEN "lost" ELSE "cancelling"]
    /\ stopped' = TRUE
    /\ inTime' = IF relay # "none" THEN inTime \cup {c} ELSE inTime
    /\ UNCHANGED <<mainVars, request, relay, started, cancelSet, poolDone, counted, goroutine>>

\* p.cancel is called, unless Start has not got as far as to assign it.
CancelPool(c) ==
    /\ Alive
    /\ stopper[c] = "cancelling"
    /\ poolDone' = (poolDone \/ cancelSet)
    /\ stopper' = [stopper EXCEPT ![c] = "waiting"]
    /\ UNCHANGED <<mainVars, request, relay, started, stopped, cancelSet, counted, goroutine, inTime>>

\* wg.Wait returns.
Drained(c) ==
    /\ Alive
    /\ stopper[c] = "waiting"
    /\ counted = {}
    /\ stopper' = [stopper EXCEPT ![c] = "drained"]
    /\ UNCHANGED <<mainVars, request, relay, poolVars, inTime>>

\* The context given to Shutdown ends first; main calls Stop, which has none.
ShutdownTimesOut(c) ==
    /\ Alive
    /\ c # Main
    /\ stopper[c] = "waiting"
    /\ stopper' = [stopper EXCEPT ![c] = "timedOut"]
    /\ UNCHANGED <<mainVars, request, relay, poolVars, inTime>>

(***************************************************************************)
(* The goroutines                                                          *)
(***************************************************************************)

\* A worker has a message in hand, or the reclaimer a batch.
Work(g) ==
    /\ Alive
    /\ goroutine[g] = "idle" /\ ~Done
    /\ goroutine' = [goroutine EXCEPT ![g] = "busy"]
    /\ UNCHANGED <<mainVars, request, relay, started, stopped, cancelSet, poolDone, counted, stopVars>>

\* It is done with it, or a call of it fails because the context is done.
Rest(g) ==
    /\ Alive
    /\ goroutine[g] = "busy"
    /\ goroutine' = [goroutine EXCEPT ![g] = "idle"]
    /\ UNCHANGED <<mainVars, request, relay, started, stopped, cancelSet, poolDone, counted, stopVars>>

\* Mutant: a loop returns without wg.Done.
ReturnWithoutDone(g) ==
    /\ Alive
    /\ goroutine[g] = "idle" /\ Done
    /\ goroutine' = [goroutine EXCEPT ![g] = "exited"]
    /\ UNCHANGED <<mainVars, request, relay, started, stopped, cancelSet, poolDone, counted, stopVars>>

\* The loop sees that the context is done; wg.Done.
ReturnFromLoop(g) ==
    /\ Alive
    /\ goroutine[g] = "idle" /\ Done
    /\ goroutine' = [goroutine EXCEPT ![g] = "exited"]
    /\ counted' = counted \ {g}
    /\ UNCHANGED <<mainVars, request, relay, started, stopped, cancelSet, poolDone, stopVars>>

RelayReturns ==
    /\ Alive
    /\ relay = "running" /\ rootDone
    /\ relay' = "exited"
    /\ UNCHANGED <<mainVars, request, poolVars, stopVars>>

\* A request arrives while the listener is open.
Arrive(r) ==
    /\ Alive
    /\ listening /\ request[r] = "none"
    /\ request' = [request EXCEPT ![r] = "running"]
    /\ UNCHANGED <<mainVars, relay, poolVars, stopVars>>

\* Its handler uses the store and answers; a live stream ends when its client goes.
Respond(r) ==
    /\ Alive
    /\ Running(r)
    /\ request' = [request EXCEPT ![r] =
                     IF store = "closed" /\ r \notin Streams THEN "failed" ELSE "answered"]
    /\ UNCHANGED <<mainVars, relay, poolVars, stopVars>>

Stopped == ~Alive /\ UNCHANGED vars

MainStep ==
    \/ StartPool \/ SetCancel \/ (\E g \in Goroutines : Launch(g)) \/ Serve
    \/ HTTPDrained \/ HTTPDeadline \/ RootCancel \/ JoinRelay \/ CloseStore \/ Exit

StopStep(c) == CallStop(c) \/ CancelPool(c) \/ Drained(c) \/ ShutdownTimesOut(c)

Next ==
    \/ MainStep \/ Signal \/ ListenFails
    \/ \E c \in Stoppers : StopStep(c)
    \/ \E g \in Goroutines : Work(g) \/ Rest(g) \/ ReturnFromLoop(g)
    \/ RelayReturns
    \/ \E r \in Requests : Arrive(r) \/ Respond(r)
    \/ Stopped

Spec == Init /\ [][Next]_vars

\* Goroutines run, and calls made with a context return once it is done.  Nothing is
\* assumed of clients, of signals or of the other callers' choice to call.
FairSpec ==
    /\ Spec
    /\ WF_vars(MainStep)
    /\ WF_vars(StopStep(Main))
    /\ \A c \in Callers : WF_vars(stopper[c] # "none" /\ StopStep(c))
    /\ \A g \in Goroutines : WF_vars(Done /\ (Rest(g) \/ ReturnFromLoop(g)))
    /\ WF_vars(RelayReturns)

(***************************************************************************)
(* Properties                                                              *)
(***************************************************************************)

\* Main, requests, goroutines and callers are at a step of their own, and the wait group
\* counts the goroutines that run.
TypeOK ==
    /\ pc \in {"boot", "group", "launch", "serving", "draining", "drained", "joining",
               "stopping", "closed", "exited"}
    /\ request \in [Requests -> {"none", "running", "answered", "failed"}]
    /\ relay \in {"none", "running", "exited"} /\ store \in {"open", "closed"}
    /\ {listening, graceOver, rootDone, started, stopped, cancelSet, poolDone} \subseteq BOOLEAN
    /\ counted = {g \in Goroutines : goroutine[g] \in {"idle", "busy"}}
    /\ goroutine \in [Goroutines -> {"none", "idle", "busy", "exited"}]
    /\ stopper \in [Stoppers -> {"none", "cancelling", "waiting", "drained", "lost", "timedOut"}]
    /\ inTime \subseteq Stoppers

\* "waits for them to drain cleanly": when Stop or Shutdown was called after Start and
\* returned by the end of its wait, no goroutine of the pool is left or will be started.
DrainedMeansDone ==
    \A c \in inTime : stopper[c] = "drained" =>
        \A g \in Goroutines : goroutine[g] = "exited"

\* The database and Redis are closed under nobody: relay and workers are gone by then
\* when main was the one to stop the pool, and a request that is still being served, or
\* has met the closed store, took longer than the grace period.
ClosedUnderNobody ==
    store = "closed" =>
        /\ relay = "exited"
        /\ stopper[Main] = "drained" => \A g \in Goroutines : goroutine[g] = "exited"
        /\ \A r \in Requests : request[r] \in {"running", "failed"} => graceOver

\* After a signal the process ends, whatever clients do with their live streams, and
\* whoever else called Stop, before or during Start too.
ShutdownEnds == (pc = "draining") ~> (pc = "exited")

=============================================================================
