----------------------------- MODULE SSEBroker -----------------------------
(***************************************************************************)
(* The live stream of delivery attempts (internal/api/stream.go): the      *)
(* dispatcher hands every attempt to Broadcast on the goroutine of its     *)
(* worker, and ServeHTTP runs once for every connected dashboard.          *)
(*                                                                         *)
(* sync.RWMutex is modelled as Go has it: a goroutine that waits for the   *)
(* write lock keeps new readers out.  A connection is one call of          *)
(* ServeHTTP with its channel; a dashboard that reconnects is another one. *)
(***************************************************************************)
EXTENDS Naturals, Sequences

CONSTANTS
    Workers,        \* the goroutines that dispatch
    Connections,    \* the calls of ServeHTTP
    BufferSize,     \* DefaultClientBufferSize
    MaxAttempts     \* bound: how many attempts each worker broadcasts

ASSUME ConstantsAssumption == BufferSize \in Nat /\ MaxAttempts \in Nat

VARIABLES
    clients,     \* the registered channels
    waiting,     \* connections that wait for the write lock
    pc,          \* where each connection is in ServeHTTP
    feed,        \* all that was ever put into a connection's channel
    taken,       \* how much of it ServeHTTP has taken out
    gone,        \* connections whose client went away
    todo,        \* the clients a worker's Broadcast has yet to look at
    reading,     \* workers that hold the read lock
    calling,     \* workers that wait for the read lock
    count,       \* the attempts of each worker so far
    audience,    \* history: the clients of a worker's last Broadcast
    missed       \* history: what was dropped for a full buffer

connVars == <<waiting, pc, taken, gone>>
sendVars == <<feed, missed, todo>>
callVars == <<reading, calling, count, audience>>
vars == <<clients, connVars, sendVars, callVars>>

Init ==
    /\ clients = {}
    /\ waiting = {}
    /\ pc = [c \in Connections |-> "absent"]
    /\ feed = [c \in Connections |-> << >>]
    /\ taken = [c \in Connections |-> 0]
    /\ gone = {}
    /\ todo = [w \in Workers |-> {}]
    /\ reading = {}
    /\ calling = {}
    /\ count = [w \in Workers |-> 0]
    /\ audience = [w \in Workers |-> {}]
    /\ missed = [c \in Connections |-> {}]

Attempt(w) == <<w, count[w]>>   \* the attempt a worker is broadcasting

Buffered(c) == Len(feed[c]) - taken[c]

(***************************************************************************)
(* Broadcast                                                               *)
(***************************************************************************)

Call(w) ==
    /\ w \notin calling \cup reading
    /\ count[w] < MaxAttempts
    /\ calling' = calling \cup {w}
    /\ count' = [count EXCEPT ![w] = @ + 1]
    /\ UNCHANGED <<clients, connVars, sendVars, reading, audience>>

RLock(w) ==
    /\ w \in calling
    /\ waiting = {}
    /\ calling' = calling \ {w}
    /\ reading' = reading \cup {w}
    /\ todo' = [todo EXCEPT ![w] = clients]
    /\ audience' = [audience EXCEPT ![w] = clients]
    /\ UNCHANGED <<clients, connVars, feed, missed, count>>

\* Mutant: a send without a default case.
SendBlocking(w, c) ==
    /\ Buffered(c) < BufferSize
    /\ feed' = [feed EXCEPT ![c] = Append(@, Attempt(w))]
    /\ todo' = [todo EXCEPT ![w] = @ \ {c}]
    /\ UNCHANGED <<clients, connVars, missed, callVars>>

\* Mutant: a full buffer ends the loop over the clients.
SendOrStop(w, c) ==
    /\ IF Buffered(c) < BufferSize
       THEN /\ feed' = [feed EXCEPT ![c] = Append(@, Attempt(w))]
            /\ todo' = [todo EXCEPT ![w] = @ \ {c}]
            /\ UNCHANGED missed
       ELSE /\ missed' = [missed EXCEPT ![c] = @ \cup {Attempt(w)}]
            /\ todo' = [todo EXCEPT ![w] = {}]
            /\ UNCHANGED feed
    /\ UNCHANGED <<clients, connVars, callVars>>

\* The select with its default case: a full buffer costs the client this attempt.
Send(w, c) ==
    /\ IF Buffered(c) < BufferSize
       THEN feed' = [feed EXCEPT ![c] = Append(@, Attempt(w))] /\ UNCHANGED missed
       ELSE missed' = [missed EXCEPT ![c] = @ \cup {Attempt(w)}] /\ UNCHANGED feed
    /\ todo' = [todo EXCEPT ![w] = @ \ {c}]
    /\ UNCHANGED <<clients, connVars, callVars>>

RUnlock(w) ==
    /\ w \in reading
    /\ todo[w] = {}
    /\ reading' = reading \ {w}
    /\ UNCHANGED <<clients, connVars, sendVars, calling, count, audience>>

Broadcast(w) == RLock(w) \/ (\E c \in todo[w] : Send(w, c)) \/ RUnlock(w)

(***************************************************************************)
(* ServeHTTP                                                               *)
(***************************************************************************)

Goto(c, where) == pc' = [pc EXCEPT ![c] = where]

\* The headers are out and RegisterClient waits for the lock.
Connect(c) ==
    /\ pc[c] = "absent"
    /\ Goto(c, "register")
    /\ waiting' = waiting \cup {c}
    /\ UNCHANGED <<clients, taken, gone, sendVars, callVars>>

RegisterClient(c) ==
    /\ pc[c] = "register"
    /\ reading = {}
    /\ clients' = clients \cup {c}
    /\ waiting' = waiting \ {c}
    /\ Goto(c, "select")
    /\ UNCHANGED <<taken, gone, sendVars, callVars>>

\* Mutant: a failed write returns without the deferred call.
ReturnLeaking(c) == Goto(c, "closed") /\ UNCHANGED waiting

\* ServeHTTP returns, and its deferred UnregisterClient waits for the lock.
Return(c) == Goto(c, "unregister") /\ waiting' = waiting \cup {c}

\* The client is gone.
Leave(c) ==
    /\ pc[c] = "select"
    /\ c \in gone
    /\ Return(c)
    /\ UNCHANGED <<clients, taken, gone, sendVars, callVars>>

\* The next attempt is taken from the channel, and its write may block.
Receive(c) ==
    /\ pc[c] = "select"
    /\ Buffered(c) > 0
    /\ taken' = [taken EXCEPT ![c] = @ + 1]
    /\ Goto(c, "write")
    /\ UNCHANGED <<clients, waiting, gone, sendVars, callVars>>

\* The ticker fires, and the ping's write may block.
Ping(c) ==
    /\ pc[c] = "select"
    /\ Goto(c, "write")
    /\ UNCHANGED <<clients, waiting, taken, gone, sendVars, callVars>>

Written(c) ==
    /\ pc[c] = "write"
    /\ Goto(c, "select")
    /\ UNCHANGED <<clients, waiting, taken, gone, sendVars, callVars>>

\* A write to a client that is gone fails in the end.
WriteFails(c) ==
    /\ pc[c] = "write"
    /\ c \in gone
    /\ Return(c)
    /\ UNCHANGED <<clients, taken, gone, sendVars, callVars>>

\* Mutant: the map is changed without the lock.
UnregisterUnlocked(c) ==
    /\ pc[c] = "unregister"
    /\ clients' = clients \ {c}
    /\ waiting' = waiting \ {c}
    /\ Goto(c, "closed")
    /\ UNCHANGED <<taken, gone, sendVars, callVars>>

UnregisterClient(c) ==
    /\ pc[c] = "unregister"
    /\ reading = {}
    /\ clients' = clients \ {c}
    /\ waiting' = waiting \ {c}
    /\ Goto(c, "closed")
    /\ UNCHANGED <<taken, gone, sendVars, callVars>>

Disconnect(c) ==
    /\ pc[c] \notin {"absent", "closed"}
    /\ c \notin gone
    /\ gone' = gone \cup {c}
    /\ UNCHANGED <<clients, waiting, pc, taken, sendVars, callVars>>

ServeHTTP(c) == \/ RegisterClient(c) \/ Leave(c) \/ Receive(c) \/ Ping(c)
                \/ Written(c) \/ WriteFails(c) \/ UnregisterClient(c)

(***************************************************************************)
(* Specification                                                           *)
(***************************************************************************)

Next ==
    \/ \E w \in Workers : Call(w) \/ Broadcast(w)
    \/ \E c \in Connections : Connect(c) \/ ServeHTTP(c) \/ Disconnect(c)

Spec == Init /\ [][Next]_vars

\* Goroutines run, a lock that stays free is taken, and select does not overlook a done
\* context for ever (it chooses at random among its ready cases).  A write need not
\* return while its client is there: the write deadline is disabled.
Fairness ==
    /\ \A w \in Workers : WF_vars(Broadcast(w))
    /\ \A c \in Connections :
        /\ WF_vars(RegisterClient(c) \/ UnregisterClient(c))
        /\ WF_vars(WriteFails(c))
        /\ SF_vars(Leave(c))

FairSpec == Spec /\ Fairness

(***************************************************************************)
(* Properties                                                              *)
(***************************************************************************)

\* Channels hold attempts of the workers, at most BufferSize at a time, and only a
\* registered channel, whose ServeHTTP has not returned, is sent to.
TypeOK ==
    /\ clients \subseteq Connections
    /\ waiting \subseteq Connections
    /\ pc \in [Connections ->
                  {"absent", "register", "select", "write", "unregister", "closed"}]
    /\ feed \in [Connections -> Seq(Workers \X (1 .. MaxAttempts))]
    /\ taken \in [Connections -> Nat]
    /\ \A c \in Connections : taken[c] <= Len(feed[c]) /\ Buffered(c) <= BufferSize
    /\ gone \subseteq Connections
    /\ todo \in [Workers -> SUBSET clients]
    /\ reading \subseteq Workers
    /\ calling \subseteq Workers \ reading
    /\ count \in [Workers -> 0 .. MaxAttempts]
    /\ audience \in [Workers -> SUBSET Connections]
    /\ missed \in [Connections -> SUBSET (Workers \X (1 .. MaxAttempts))]

\* A slow client costs the others nothing: each client registered when a broadcast took
\* its lock has the attempt, unless its own buffer was full.
NoCollateralLoss ==
    \A w \in Workers \ calling : \A c \in audience[w] \ todo[w] :
        \/ Attempt(w) \in missed[c]
        \/ \E i \in 1 .. Len(feed[c]) : feed[c][i] = Attempt(w)

\* "drop message to prevent stalling workers": Broadcast returns, although clients stop
\* reading and connections come and go.
BroadcastReturns == \A w \in Workers : w \in calling ~> w \notin calling \cup reading

\* The channel of a client that went away is unregistered in the end, although its write
\* was blocked and broadcasts go on.
GoneIsUnregistered == \A c \in Connections : c \in gone ~> pc[c] = "closed" /\ c \notin clients

=============================================================================
