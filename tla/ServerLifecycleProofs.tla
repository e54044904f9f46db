----------------------- MODULE ServerLifecycleProofs -----------------------
(***************************************************************************)
(* Proofs about ServerLifecycle: whoever stops the pool after it has been  *)
(* started and comes back from the wait finds it drained, and the store is *)
(* closed under nobody but requests that outlast the grace period.         *)
(***************************************************************************)
EXTENDS ServerLifecycle, TLAPS

Starting == {"boot", "group", "launch"}
GoingDown == {"drained", "joining", "stopping", "closed"}

\* The relay runs, and a caller is in time, only once Start has launched every goroutine
\* of the pool; main stops the pool only then.
OrderInv ==
    /\ pc \in Starting <=> relay = "none"
    /\ relay # "none" => \A g \in Goroutines : goroutine[g] # "none"
    /\ inTime # {} => relay # "none"
    /\ stopper[Main] # "none" => Main \in inTime

\* Behind the listener: requests come in only while it is open, and once the HTTP server
\* has been shut down whoever is still served has outlasted the grace period.
GraceInv ==
    /\ pc = "draining" \/ pc \in GoingDown => ~listening
    /\ pc \in {"stopping", "closed"} => relay = "exited"
    /\ store = "closed" => pc \in {"closed", "exited"}
    /\ \A r \in Requests : request[r] = "failed" => store = "closed"
    /\ pc \in GoingDown \/ store = "closed" =>
          graceOver \/ \A r \in Requests : request[r] \notin {"running", "failed"}
    /\ store = "closed" => relay = "exited"

ServerInv == TypeOK /\ OrderInv /\ DrainedMeansDone /\ GraceInv

USE DEF Stoppers, Starting, GoingDown

LEMMA InitServer == ASSUME Init PROVE ServerInv
BY ConstantsAssumption DEF Init, ServerInv, TypeOK, OrderInv, DrainedMeansDone, GraceInv

LEMMA TypeStep == ASSUME TypeOK, [Next]_vars PROVE TypeOK'
<1> USE DEF TypeOK
<1>1. ASSUME MainStep \/ Signal \/ ListenFails PROVE TypeOK'
    <2>1. ASSUME NEW g \in Goroutines, Launch(g) PROVE TypeOK'
        BY <2>1 DEF Launch, mainVars, stopVars
    <2>2. CASE StartPool \/ SetCancel \/ Serve \/ Signal \/ ListenFails
        BY <2>2 DEF StartPool, SetCancel, Serve, Signal, ListenFails, poolVars, stopVars
    <2>3. CASE HTTPDrained \/ HTTPDeadline \/ RootCancel \/ JoinRelay \/ CloseStore \/ Exit
        BY <2>3 DEF HTTPDrained, HTTPDeadline, RootCancel, JoinRelay, CloseStore, Exit,
                    poolVars, stopVars
    <2> QED BY <1>1, <2>1, <2>2, <2>3 DEF MainStep
<1>2. ASSUME NEW c \in Stoppers, StopStep(c) PROVE TypeOK'
    BY <1>2 DEF StopStep, CallStop, CancelPool, Drained, ShutdownTimesOut, mainVars, poolVars
<1>3. ASSUME NEW g \in Goroutines, Work(g) \/ Rest(g) \/ ReturnFromLoop(g) PROVE TypeOK'
    BY <1>3 DEF Work, Rest, ReturnFromLoop, mainVars, stopVars
<1>4. ASSUME NEW r \in Requests, Arrive(r) \/ Respond(r) PROVE TypeOK'
    BY <1>4 DEF Arrive, Respond, Running, mainVars, poolVars, stopVars
<1>5. CASE RelayReturns
    BY <1>5 DEF RelayReturns, mainVars, poolVars, stopVars
<1>6. CASE UNCHANGED vars
    BY <1>6 DEF vars, mainVars, poolVars, stopVars
<1> QED BY <1>1, <1>2, <1>3, <1>4, <1>5, <1>6 DEF Next, Stopped

LEMMA OrderStep == ASSUME TypeOK, OrderInv, [Next]_vars PROVE OrderInv'
<1> USE DEF TypeOK, OrderInv
<1>1. ASSUME MainStep \/ Signal \/ ListenFails PROVE OrderInv'
    <2>1. ASSUME NEW g \in Goroutines, Launch(g) PROVE OrderInv'
        BY <2>1 DEF Launch, mainVars, stopVars
    <2>2. CASE StartPool \/ SetCancel \/ Serve \/ Signal \/ ListenFails
        BY <2>2 DEF StartPool, SetCancel, Serve, Signal, ListenFails, poolVars, stopVars
    <2>3. CASE HTTPDrained \/ HTTPDeadline \/ RootCancel \/ JoinRelay \/ CloseStore \/ Exit
        BY <2>3 DEF HTTPDrained, HTTPDeadline, RootCancel, JoinRelay, CloseStore, Exit,
                    poolVars, stopVars
    <2> QED BY <1>1, <2>1, <2>2, <2>3 DEF MainStep
<1>2. ASSUME NEW c \in Stoppers, StopStep(c) PROVE OrderInv'
    BY <1>2 DEF StopStep, CallStop, CancelPool, Drained, ShutdownTimesOut, mainVars, poolVars
<1>3. ASSUME NEW g \in Goroutines, Work(g) \/ Rest(g) \/ ReturnFromLoop(g) PROVE OrderInv'
    BY <1>3 DEF Work, Rest, ReturnFromLoop, mainVars, stopVars
<1>4. ASSUME NEW r \in Requests, Arrive(r) \/ Respond(r) PROVE OrderInv'
    BY <1>4 DEF Arrive, Respond, Running, mainVars, poolVars, stopVars
<1>5. CASE RelayReturns
    BY <1>5 DEF RelayReturns, mainVars, poolVars, stopVars
<1>6. CASE UNCHANGED vars
    BY <1>6 DEF vars, mainVars, poolVars, stopVars
<1> QED BY <1>1, <1>2, <1>3, <1>4, <1>5, <1>6 DEF Next, Stopped

\* A goroutine that has left its loop is not started again, and a caller comes back from
\* the wait only when all of them have.
LEMMA DrainedStep ==
    ASSUME TypeOK, OrderInv, DrainedMeansDone, [Next]_vars
    PROVE DrainedMeansDone'
<1> USE DEF TypeOK, DrainedMeansDone
<1>1. ASSUME MainStep \/ Signal \/ ListenFails PROVE DrainedMeansDone'
    <2>1. ASSUME NEW g \in Goroutines, Launch(g) PROVE DrainedMeansDone'
        BY <2>1 DEF Launch, mainVars, stopVars, OrderInv
    <2>2. CASE StartPool \/ SetCancel \/ Serve \/ Signal \/ ListenFails
        BY <2>2 DEF StartPool, SetCancel, Serve, Signal, ListenFails, poolVars, stopVars
    <2>3. CASE HTTPDrained \/ HTTPDeadline \/ RootCancel \/ JoinRelay \/ CloseStore \/ Exit
        BY <2>3 DEF HTTPDrained, HTTPDeadline, RootCancel, JoinRelay, CloseStore, Exit,
                    poolVars, stopVars
    <2> QED BY <1>1, <2>1, <2>2, <2>3 DEF MainStep
<1>2. ASSUME NEW c \in Stoppers, CallStop(c) PROVE DrainedMeansDone'
    BY <1>2 DEF CallStop
<1>3. ASSUME NEW c \in Stoppers, CancelPool(c) \/ ShutdownTimesOut(c) PROVE DrainedMeansDone'
    BY <1>3 DEF CancelPool, ShutdownTimesOut, poolVars
<1>4. ASSUME NEW c \in Stoppers, Drained(c) PROVE DrainedMeansDone'
    <2>1. inTime # {} => \A g \in Goroutines : goroutine[g] = "exited"
        BY <1>4 DEF Drained, OrderInv
    <2> QED BY <1>4, <2>1 DEF Drained, poolVars
<1>5. ASSUME NEW g \in Goroutines, Work(g) \/ Rest(g) \/ ReturnFromLoop(g)
      PROVE DrainedMeansDone'
    BY <1>5 DEF Work, Rest, ReturnFromLoop, stopVars
<1>6. ASSUME NEW r \in Requests, Arrive(r) \/ Respond(r) PROVE DrainedMeansDone'
    BY <1>6 DEF Arrive, Respond, poolVars, stopVars
<1>7. CASE RelayReturns
    BY <1>7 DEF RelayReturns, poolVars, stopVars
<1>8. CASE UNCHANGED vars
    BY <1>8 DEF vars, poolVars, stopVars
<1> QED BY <1>1, <1>2, <1>3, <1>4, <1>5, <1>6, <1>7, <1>8 DEF Next, Stopped, StopStep

LEMMA GraceStep == ASSUME TypeOK, OrderInv, GraceInv, [Next]_vars PROVE GraceInv'
<1> USE DEF TypeOK, GraceInv
<1>1. ASSUME MainStep \/ Signal \/ ListenFails PROVE GraceInv'
    <2>1. ASSUME NEW g \in Goroutines, Launch(g) PROVE GraceInv'
        BY <2>1 DEF Launch, mainVars, stopVars
    <2>2. CASE StartPool \/ SetCancel \/ Serve \/ Signal \/ ListenFails
        BY <2>2 DEF StartPool, SetCancel, Serve, Signal, ListenFails, OrderInv
    <2>3. CASE HTTPDrained
        BY <2>3 DEF HTTPDrained, Running
    <2>4. CASE HTTPDeadline \/ RootCancel \/ JoinRelay
        BY <2>4 DEF HTTPDeadline, RootCancel, JoinRelay
    <2>5. CASE CloseStore \/ Exit
        BY <2>5 DEF CloseStore, Exit
    <2> QED BY <1>1, <2>1, <2>2, <2>3, <2>4, <2>5 DEF MainStep
<1>2. ASSUME NEW c \in Stoppers, StopStep(c) PROVE GraceInv'
    BY <1>2 DEF StopStep, CallStop, CancelPool, Drained, ShutdownTimesOut, mainVars
<1>3. ASSUME NEW g \in Goroutines, Work(g) \/ Rest(g) \/ ReturnFromLoop(g) PROVE GraceInv'
    BY <1>3 DEF Work, Rest, ReturnFromLoop, mainVars
<1>4. ASSUME NEW r \in Requests, Arrive(r) PROVE GraceInv'
    BY <1>4 DEF Arrive, Alive, mainVars
<1>5. ASSUME NEW r \in Requests, Respond(r) PROVE GraceInv'
    BY <1>5 DEF Respond, Running, Alive, mainVars
<1>6. CASE RelayReturns
    BY <1>6 DEF RelayReturns, mainVars
<1>7. CASE UNCHANGED vars
    BY <1>7 DEF vars, mainVars
<1> QED BY <1>1, <1>2, <1>3, <1>4, <1>5, <1>6, <1>7 DEF Next, Stopped

LEMMA ServerInvariant == Spec => []ServerInv
<1>1. Init => ServerInv
    BY InitServer
<1>2. ServerInv /\ [Next]_vars => ServerInv'
    BY TypeStep, OrderStep, DrainedStep, GraceStep DEF ServerInv
<1> QED BY <1>1, <1>2, PTL DEF Spec

\* The wait group of the pool counts exactly the goroutines that run, from the wg.Add
\* before a go statement to the deferred wg.Done, and main, requests and callers are at
\* steps of their own.
THEOREM ServerType == Spec => []TypeOK
BY ServerInvariant, PTL DEF ServerInv

\* Stop and Shutdown keep what they promise for any number of workers and of callers that
\* race for the flag: a caller that came after Start and back from the wait finds every
\* goroutine of the pool gone for good.
THEOREM PoolIsDrained == Spec => []DrainedMeansDone
BY ServerInvariant, PTL DEF ServerInv

\* The order in which main takes the server down: the database and Redis are closed after
\* the relay and, when it was main who stopped the pool, its goroutines have returned, and
\* only requests that outlast the 15 seconds of server.Shutdown can meet the closed store.
THEOREM StoreIsClosedLast == Spec => []ClosedUnderNobody
<1>1. ServerInv => ClosedUnderNobody
    <2> SUFFICES ASSUME ServerInv, store = "closed" PROVE ClosedUnderNobody
        BY DEF ClosedUnderNobody
    <2>1. stopper[Main] = "drained" => \A g \in Goroutines : goroutine[g] = "exited"
        BY DEF ServerInv, OrderInv, DrainedMeansDone
    <2>2. \A r \in Requests : request[r] \in {"running", "failed"} => graceOver
        BY DEF ServerInv, GraceInv
    <2> QED BY <2>1, <2>2 DEF ClosedUnderNobody, ServerInv, GraceInv
<1> QED BY <1>1, ServerInvariant, PTL

=============================================================================
