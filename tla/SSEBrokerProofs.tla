-------------------------- MODULE SSEBrokerProofs --------------------------
(***************************************************************************)
(* Proofs about the live stream: its type invariant, which says that only  *)
(* registered channels are sent to, and that a slow client costs the other *)
(* clients nothing.                                                        *)
(*                                                                         *)
(* The type invariant is not inductive by itself.  That the channels a     *)
(* broadcast has yet to look at stay registered rests on the lock: they    *)
(* are empty unless the worker holds it, and the map only changes while    *)
(* nobody does (ReaderInv).                                                *)
(***************************************************************************)
EXTENDS SSEBroker, SequenceTheorems, TLAPS

Attempts == Workers \X (1 .. MaxAttempts)

ReaderInv ==
    /\ \A w \in Workers : todo[w] # {} => w \in reading
    /\ \A w \in calling \cup reading : count[w] > 0

BrokerInv == TypeOK /\ ReaderInv /\ NoCollateralLoss

LEMMA AttemptType ==
    ASSUME TypeOK, ReaderInv, NEW w \in reading
    PROVE  w \in Workers /\ w \notin calling /\ Attempt(w) \in Attempts
<1>1. w \in Workers /\ w \notin calling
    BY DEF TypeOK
<1>2. count[w] \in 1 .. MaxAttempts
    BY <1>1, ConstantsAssumption DEF TypeOK, ReaderInv
<1> QED BY <1>1, <1>2 DEF Attempt, Attempts

LEMMA FeedType ==
    ASSUME TypeOK, NEW c \in Connections
    PROVE  /\ feed[c] \in Seq(Attempts)
           /\ Len(feed[c]) \in Nat
           /\ taken[c] \in Nat
           /\ taken[c] <= Len(feed[c])
           /\ Buffered(c) \in Nat
<1>1. feed[c] \in Seq(Attempts) /\ taken[c] \in Nat /\ taken[c] <= Len(feed[c])
    BY DEF TypeOK, Attempts
<1>2. Len(feed[c]) \in Nat
    BY <1>1, LenProperties
<1> QED BY <1>1, <1>2 DEF Buffered

\* A step that sends nothing and ends no wait for the lock leaves the claim as it is.
LEMMA LossStable ==
    ASSUME NoCollateralLoss,
           UNCHANGED <<feed, missed, todo, count, audience>>,
           calling \subseteq calling'
    PROVE  NoCollateralLoss'
BY DEF NoCollateralLoss, Attempt

(***************************************************************************)
(* Init                                                                    *)
(***************************************************************************)

LEMMA InitBroker == Init => BrokerInv
<1> SUFFICES ASSUME Init PROVE BrokerInv
    OBVIOUS
<1>1. \A c \in Connections : feed[c] = << >> /\ taken[c] = 0
    BY DEF Init
<1>2. << >> \in Seq(Workers \X (1 .. MaxAttempts)) /\ Len(<< >>) = 0
    BY EmptySeq
<1>3. feed \in [Connections -> Seq(Workers \X (1 .. MaxAttempts))]
    BY <1>2 DEF Init
<1>4. \A c \in Connections : taken[c] <= Len(feed[c]) /\ Buffered(c) <= BufferSize
    BY <1>1, <1>2, ConstantsAssumption DEF Buffered
<1>5. TypeOK
    BY <1>3, <1>4, ConstantsAssumption DEF Init, TypeOK
<1>6. ReaderInv /\ NoCollateralLoss
    BY DEF Init, ReaderInv, NoCollateralLoss
<1> QED BY <1>5, <1>6 DEF BrokerInv

(***************************************************************************)
(* Broadcast                                                               *)
(***************************************************************************)

LEMMA CallBroker ==
    ASSUME BrokerInv, NEW w \in Workers, Call(w)
    PROVE  BrokerInv'
<1> USE DEF BrokerInv
<1>1. UNCHANGED <<clients, waiting, pc, feed, taken, gone, todo, reading, audience, missed>>
    BY DEF Call, connVars, sendVars
<1>2. /\ calling' = calling \cup {w}
      /\ count' = [count EXCEPT ![w] = @ + 1]
      /\ w \notin reading
    BY DEF Call
<1>3. count' \in [Workers -> 0 .. MaxAttempts] /\ count'[w] > 0
    BY <1>2, ConstantsAssumption DEF Call, TypeOK
<1>4. TypeOK'
    BY <1>1, <1>2, <1>3 DEF TypeOK, Buffered
<1>5. ReaderInv'
    BY <1>1, <1>2, <1>3 DEF ReaderInv, TypeOK
<1>6. NoCollateralLoss'
    <2> SUFFICES ASSUME NEW u \in Workers \ calling', NEW c \in audience'[u] \ todo'[u]
                 PROVE  Attempt(u)' \in missed'[c]
                        \/ \E i \in 1 .. Len(feed'[c]) : feed'[c][i] = Attempt(u)'
        BY DEF NoCollateralLoss
    <2>1. u # w /\ u \notin calling
        BY <1>2
    <2>2. Attempt(u)' = Attempt(u)
        BY <1>2, <2>1 DEF Attempt, TypeOK
    <2> QED BY <1>1, <2>1, <2>2 DEF NoCollateralLoss
<1> QED BY <1>4, <1>5, <1>6

LEMMA RLockBroker ==
    ASSUME BrokerInv, NEW w \in Workers, RLock(w)
    PROVE  BrokerInv'
<1> USE DEF BrokerInv
<1>1. UNCHANGED <<clients, waiting, pc, feed, taken, gone, count, missed>>
    BY DEF RLock, connVars
<1>2. /\ w \in calling
      /\ calling' = calling \ {w}
      /\ reading' = reading \cup {w}
      /\ todo' = [todo EXCEPT ![w] = clients]
      /\ audience' = [audience EXCEPT ![w] = clients]
    BY DEF RLock
<1>3. TypeOK'
    BY <1>1, <1>2 DEF TypeOK, Buffered
<1>4. ReaderInv'
    BY <1>1, <1>2 DEF ReaderInv, TypeOK
<1>5. NoCollateralLoss'
    <2> SUFFICES ASSUME NEW u \in Workers \ calling', NEW c \in audience'[u] \ todo'[u]
                 PROVE  Attempt(u)' \in missed'[c]
                        \/ \E i \in 1 .. Len(feed'[c]) : feed'[c][i] = Attempt(u)'
        BY DEF NoCollateralLoss
    <2>1. u # w
        BY <1>2 DEF TypeOK
    <2>2. u \notin calling /\ c \in audience[u] \ todo[u]
        BY <1>2, <2>1 DEF TypeOK
    <2>3. Attempt(u)' = Attempt(u)
        BY <1>1 DEF Attempt
    <2> QED BY <1>1, <2>2, <2>3 DEF NoCollateralLoss
<1> QED BY <1>3, <1>4, <1>5

LEMMA RUnlockBroker ==
    ASSUME BrokerInv, NEW w \in Workers, RUnlock(w)
    PROVE  BrokerInv'
<1> USE DEF BrokerInv
<1>1. /\ UNCHANGED <<clients, waiting, pc, feed, taken, gone, count, missed>>
      /\ UNCHANGED <<todo, calling, audience>>
    BY DEF RUnlock, connVars, sendVars
<1>2. reading' = reading \ {w} /\ todo[w] = {}
    BY DEF RUnlock
<1>3. TypeOK'
    BY <1>1, <1>2 DEF TypeOK, Buffered
<1>4. ReaderInv'
    BY <1>1, <1>2 DEF ReaderInv
<1>5. NoCollateralLoss'
    BY <1>1, LossStable
<1> QED BY <1>3, <1>4, <1>5

\* One turn of the loop of Broadcast: the client has the attempt, or its own buffer is
\* full and the attempt is counted as missed by it alone.
LEMMA SendBroker ==
    ASSUME BrokerInv, NEW w \in Workers, NEW c \in todo[w], Send(w, c)
    PROVE  BrokerInv'
<1> USE DEF BrokerInv
<1>1. UNCHANGED <<clients, waiting, pc, taken, gone, reading, calling, count, audience>>
    BY DEF Send, connVars, callVars
<1>2. todo' = [todo EXCEPT ![w] = @ \ {c}]
    BY DEF Send
<1>3. w \in reading /\ c \in clients /\ c \in Connections
    BY DEF ReaderInv, TypeOK
<1>4. w \notin calling /\ Attempt(w) \in Attempts
    BY <1>3, AttemptType
<1>5. \A u \in Workers : Attempt(u)' = Attempt(u)
    BY <1>1 DEF Attempt
<1>6. ReaderInv'
    BY <1>1, <1>2 DEF ReaderInv, TypeOK
<1>7. todo' \in [Workers -> SUBSET clients']
    BY <1>1, <1>2 DEF TypeOK
<1>8. \A u \in Workers : \A d \in audience'[u] \ todo'[u] :
          d \in audience[u] /\ (d \in todo[u] => u = w /\ d = c)
    BY <1>1, <1>2 DEF TypeOK
<1>9. \A u \in Workers : \A d \in audience[u] : d \in Connections
    BY DEF TypeOK
<1>10. CASE Buffered(c) < BufferSize
    <2>1. feed' = [feed EXCEPT ![c] = Append(@, Attempt(w))] /\ missed' = missed
        BY <1>10 DEF Send
    <2>2. feed[c] \in Seq(Attempts) /\ Len(feed[c]) \in Nat /\ taken[c] \in Nat
          /\ taken[c] <= Len(feed[c])
        BY <1>3, FeedType
    <2>3. feed'[c] = Append(feed[c], Attempt(w))
        BY <1>3, <2>1 DEF TypeOK
    <2>4. /\ feed'[c] \in Seq(Attempts)
          /\ Len(feed'[c]) = Len(feed[c]) + 1
          /\ \A i \in 1 .. Len(feed[c]) : feed'[c][i] = feed[c][i]
          /\ feed'[c][Len(feed[c]) + 1] = Attempt(w)
        BY <1>4, <2>2, <2>3, AppendProperties
    <2>5. \A d \in Connections \ {c} : feed'[d] = feed[d]
        BY <1>3, <2>1 DEF TypeOK
    <2>6. feed' \in [Connections -> Seq(Workers \X (1 .. MaxAttempts))]
        BY <2>1, <2>4, <2>3, <1>3 DEF TypeOK, Attempts
    <2>7. \A d \in Connections : (taken[d] <= Len(feed[d]) /\ Buffered(d) <= BufferSize)'
        <3> TAKE d \in Connections
        <3>1. CASE d = c
            BY <3>1, <1>1, <1>10, <2>2, <2>4, ConstantsAssumption DEF Buffered
        <3>2. CASE d # c
            BY <3>2, <1>1, <2>5 DEF Buffered, TypeOK
        <3> QED BY <3>1, <3>2
    <2>8. TypeOK'
        BY <1>1, <1>7, <2>1, <2>6, <2>7 DEF TypeOK
    <2>9. NoCollateralLoss'
        <3> SUFFICES ASSUME NEW u \in Workers \ calling', NEW d \in audience'[u] \ todo'[u]
                     PROVE  Attempt(u)' \in missed'[d]
                            \/ \E i \in 1 .. Len(feed'[d]) : feed'[d][i] = Attempt(u)'
            BY DEF NoCollateralLoss
        <3>1. d \in Connections /\ d \in audience[u] /\ (d \in todo[u] => u = w /\ d = c)
            BY <1>8, <1>9
        <3>2. CASE d \in todo[u]
            <4>1. Len(feed[c]) + 1 \in 1 .. Len(feed'[c])
                BY <2>2, <2>4
            <4> QED BY <3>1, <3>2, <4>1, <2>4, <1>5
        <3>3. CASE d \notin todo[u]
            <4>1. \/ Attempt(u) \in missed[d]
                  \/ \E i \in 1 .. Len(feed[d]) : feed[d][i] = Attempt(u)
                BY <1>1, <3>1, <3>3 DEF NoCollateralLoss
            <4>2. CASE Attempt(u) \in missed[d]
                BY <4>2, <2>1, <1>5
            <4>3. ASSUME NEW i \in 1 .. Len(feed[d]), feed[d][i] = Attempt(u)
                  PROVE  i \in 1 .. Len(feed'[d]) /\ feed'[d][i] = Attempt(u)'
                <5>1. CASE d = c
                    BY <5>1, <4>3, <2>2, <2>4, <1>5
                <5>2. CASE d # c
                    BY <5>2, <4>3, <2>5, <3>1, <1>5
                <5> QED BY <5>1, <5>2
            <4> QED BY <4>1, <4>2, <4>3
        <3> QED BY <3>2, <3>3
    <2> QED BY <1>6, <2>8, <2>9
<1>11. CASE ~(Buffered(c) < BufferSize)
    <2>1. missed' = [missed EXCEPT ![c] = @ \cup {Attempt(w)}] /\ feed' = feed
        BY <1>11 DEF Send
    <2>2. missed' \in [Connections -> SUBSET (Workers \X (1 .. MaxAttempts))]
        BY <2>1, <1>3, <1>4 DEF TypeOK, Attempts
    <2>3. TypeOK'
        BY <1>1, <1>7, <2>1, <2>2 DEF TypeOK, Buffered
    <2>4. /\ \A d \in Connections : missed[d] \subseteq missed'[d]
          /\ Attempt(w) \in missed'[c]
        BY <2>1, <1>3 DEF TypeOK
    <2>5. NoCollateralLoss'
        <3> SUFFICES ASSUME NEW u \in Workers \ calling', NEW d \in audience'[u] \ todo'[u]
                     PROVE  Attempt(u)' \in missed'[d]
                            \/ \E i \in 1 .. Len(feed'[d]) : feed'[d][i] = Attempt(u)'
            BY DEF NoCollateralLoss
        <3>1. d \in Connections /\ d \in audience[u] /\ (d \in todo[u] => u = w /\ d = c)
            BY <1>8, <1>9
        <3>2. CASE d \in todo[u]
            BY <3>1, <3>2, <2>4, <1>5
        <3>3. CASE d \notin todo[u]
            BY <3>1, <3>3, <1>1, <1>5, <2>1, <2>4 DEF NoCollateralLoss
        <3> QED BY <3>2, <3>3
    <2> QED BY <1>6, <2>3, <2>5
<1> QED BY <1>10, <1>11

(***************************************************************************)
(* ServeHTTP                                                               *)
(***************************************************************************)

\* A connection that takes and leaves its lock: the map changes while nobody reads it.
LEMMA MapBroker ==
    ASSUME BrokerInv, NEW c \in Connections, RegisterClient(c) \/ UnregisterClient(c)
    PROVE  BrokerInv'
<1> USE DEF BrokerInv
<1>1. UNCHANGED <<taken, gone, feed, missed, todo, reading, calling, count, audience>>
    BY DEF RegisterClient, UnregisterClient, sendVars, callVars
<1>2. clients' \subseteq Connections /\ waiting' \subseteq Connections
    BY DEF RegisterClient, UnregisterClient, TypeOK
<1>3. pc' \in [Connections ->
                  {"absent", "register", "select", "write", "unregister", "closed"}]
    BY DEF RegisterClient, UnregisterClient, Goto, TypeOK
<1>4. reading = {}
    BY DEF RegisterClient, UnregisterClient
<1>5. \A w \in Workers : todo[w] = {}
    BY <1>4 DEF ReaderInv
<1>6. todo' \in [Workers -> SUBSET clients']
    BY <1>1, <1>5 DEF TypeOK
<1>7. TypeOK'
    BY <1>1, <1>2, <1>3, <1>6 DEF TypeOK, Buffered
<1>8. ReaderInv'
    BY <1>1 DEF ReaderInv
<1>9. NoCollateralLoss'
    BY <1>1, LossStable
<1> QED BY <1>7, <1>8, <1>9

\* The steps of ServeHTTP that do not hold the lock.
LEMMA ServeBroker ==
    ASSUME BrokerInv, NEW c \in Connections,
           \/ Connect(c) \/ Leave(c) \/ Receive(c) \/ Ping(c)
           \/ Written(c) \/ WriteFails(c) \/ Disconnect(c)
    PROVE  BrokerInv'
<1> USE DEF BrokerInv
<1>1. UNCHANGED <<clients, feed, missed, todo, reading, calling, count, audience>>
    BY DEF Connect, Leave, Receive, Ping, Written, WriteFails, Disconnect, sendVars, callVars
<1>2. waiting' \subseteq Connections /\ gone' \subseteq Connections
    BY DEF Connect, Leave, Receive, Ping, Written, WriteFails, Disconnect, Return, TypeOK
<1>3. pc' \in [Connections ->
                  {"absent", "register", "select", "write", "unregister", "closed"}]
    BY DEF Connect, Leave, Receive, Ping, Written, WriteFails, Disconnect, Return, Goto,
           TypeOK
<1>4. /\ taken' \in [Connections -> Nat]
      /\ \A d \in Connections : (taken[d] <= Len(feed[d]) /\ Buffered(d) <= BufferSize)'
    <2>1. CASE Receive(c)
        <3>1. taken' = [taken EXCEPT ![c] = @ + 1] /\ Buffered(c) > 0
            BY <2>1 DEF Receive
        <3>2. \A d \in Connections : Len(feed[d]) \in Nat /\ taken[d] \in Nat
            BY FeedType
        <3>3. taken' \in [Connections -> Nat]
            BY <3>1, <3>2 DEF TypeOK
        <3> SUFFICES ASSUME NEW d \in Connections
                     PROVE  (taken[d] <= Len(feed[d]) /\ Buffered(d) <= BufferSize)'
            BY <3>3
        <3>4. /\ taken[d] <= Len(feed[d])
              /\ Len(feed[d]) - taken[d] <= BufferSize
              /\ feed'[d] = feed[d]
            BY <1>1 DEF TypeOK, Buffered
        <3>5. CASE d = c
            <4>1. taken'[d] = taken[d] + 1 /\ Len(feed[d]) - taken[d] > 0
                BY <3>1, <3>5 DEF Buffered, TypeOK
            <4> QED BY <4>1, <3>2, <3>4, ConstantsAssumption DEF Buffered
        <3>6. CASE d # c
            <4>1. taken'[d] = taken[d]
                BY <3>1, <3>6 DEF TypeOK
            <4> QED BY <4>1, <3>4 DEF Buffered
        <3> QED BY <3>5, <3>6
    <2>2. CASE ~Receive(c)
        <3>1. taken' = taken
            BY <2>2 DEF Connect, Leave, Ping, Written, WriteFails, Disconnect
        <3> QED BY <1>1, <3>1 DEF TypeOK, Buffered
    <2> QED BY <2>1, <2>2
<1>5. TypeOK'
    BY <1>1, <1>2, <1>3, <1>4 DEF TypeOK
<1>6. ReaderInv'
    BY <1>1 DEF ReaderInv
<1>7. NoCollateralLoss'
    BY <1>1, LossStable
<1> QED BY <1>5, <1>6, <1>7

(***************************************************************************)
(* Theorems                                                                *)
(***************************************************************************)

LEMMA NextBroker == BrokerInv /\ [Next]_vars => BrokerInv'
<1> SUFFICES ASSUME BrokerInv, [Next]_vars PROVE BrokerInv'
    OBVIOUS
<1>1. ASSUME NEW w \in Workers, Call(w) \/ Broadcast(w)
      PROVE  BrokerInv'
    BY <1>1, CallBroker, RLockBroker, SendBroker, RUnlockBroker DEF Broadcast
<1>2. ASSUME NEW c \in Connections, Connect(c) \/ ServeHTTP(c) \/ Disconnect(c)
      PROVE  BrokerInv'
    BY <1>2, MapBroker, ServeBroker DEF ServeHTTP
<1>3. CASE UNCHANGED vars
    <2>1. /\ UNCHANGED <<clients, waiting, pc, feed, taken, gone, count, missed>>
          /\ UNCHANGED <<todo, reading, calling, audience>>
        BY <1>3 DEF vars, connVars, sendVars, callVars
    <2> QED BY <2>1 DEF BrokerInv, TypeOK, ReaderInv, NoCollateralLoss, Buffered, Attempt
<1> QED BY <1>1, <1>2, <1>3 DEF Next

LEMMA BrokerInvariant == Spec => []BrokerInv
BY InitBroker, NextBroker, PTL DEF Spec

\* No channel of the live stream is ever sent to after it was unregistered, none is filled
\* beyond its buffer and nothing but attempts of the workers is put into one, for any
\* number of workers and dashboards and every size of the buffer.
THEOREM BrokerType == Spec => []TypeOK
BY BrokerInvariant, PTL DEF BrokerInv

\* A dashboard that stops reading costs the others nothing: whoever was registered when a
\* broadcast took its lock has the attempt, unless its own buffer was full.
THEOREM SlowClientsAreAlone == Spec => []NoCollateralLoss
BY BrokerInvariant, PTL DEF BrokerInv

=============================================================================
