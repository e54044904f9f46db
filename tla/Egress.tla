------------------------------- MODULE Egress -------------------------------
(***************************************************************************)
(* Delivery over the network: the retry loop of processMessage             *)
(* (internal/worker), the request of Dispatch with its signature and its   *)
(* guarded client (internal/dispatcher), the backoff (internal/retry), and *)
(* the receivers the repository has: those that verify signatures with the *)
(* SDK, and the routes of the mock receiver (cmd/mockreceiver).            *)
(*                                                                         *)
(* Time is kept as ages and timers that Tick moves together.  A pass is a  *)
(* worker's work on the event for one endpoint; a second pass is that of   *)
(* the reclaimer or of a replay.  All endpoints are on one host, whose DNS *)
(* records may change at any moment.                                       *)
(***************************************************************************)
EXTENDS Integers, FiniteSets

CONSTANTS
    Passes,
    Routings,         \* which receivers the passes may send to
    Addresses,        \* IP addresses
    Restricted,       \* those for which IsRestrictedIP holds
    AllowPrivate,     \* ALLOW_LOCAL_DISPATCH
    MaxRetries,       \* of the BackoffPolicy
    InitialInterval, MaxInterval,
    Timeout,          \* of the HTTP client
    Tolerance,        \* of VerifySignature
    MaxFaults         \* bound: lost requests and answers, and changes of the DNS

Routes == {"success", "flaky", "poison", "slow", "verify"}
Patient == {"slow", "verify"}   \* receivers that may take their time

NoCode == 0
NoAddress == "none"

ASSUME ConstantsAssumption ==
    /\ Routings \subseteq [Passes -> Routes]
    /\ Restricted \subseteq Addresses /\ NoAddress \notin Addresses
    /\ AllowPrivate \in BOOLEAN
    /\ MaxRetries \in Nat \ {0}
    /\ InitialInterval \in Nat \ {0} /\ MaxInterval \in Nat \ {0}
    /\ Timeout \in Nat \ {0} /\ Tolerance \in Nat /\ Timeout <= Tolerance
    /\ MaxFaults \in Nat

VARIABLES
    route,      \* the kind of receiver each pass sends to
    pc,         \* where each pass is
    attempt,    \* attemptNum
    age,        \* the time since the request under way was signed
    timer,      \* the time left of the client's timeout, or of the backoff
    elapsed,    \* the time since the pass began, while it lasts
    code,       \* the status code on its way back
    conn,       \* the address its request goes to
    idle,       \* addresses of idle connections kept alive
    dns,        \* what a lookup of the host returns
    count,      \* attempts of FlakyState for the event's X-Webhook-ID
    opened,     \* history: every address a connection was opened to
    faults

passVars == <<pc, attempt, age, timer, elapsed, code, conn>>
vars == <<route, passVars, idle, dns, count, opened, faults>>

Init ==
    /\ route \in Routings
    /\ pc = [p \in Passes |-> "ready"]
    /\ attempt = [p \in Passes |-> 1]
    /\ age = [p \in Passes |-> 0]
    /\ timer = [p \in Passes |-> 0]
    /\ elapsed = [p \in Passes |-> 0]
    /\ code = [p \in Passes |-> NoCode]
    /\ conn = [p \in Passes |-> NoAddress]
    /\ idle = {}
    /\ dns \in SUBSET Addresses
    /\ count = 0
    /\ opened = {}
    /\ faults = 0

Fault == faults < MaxFaults /\ faults' = faults + 1

Goto(p, where) == pc' = [pc EXCEPT ![p] = where]

(***************************************************************************)
(* Retries                                                                 *)
(***************************************************************************)

\* The interval before attempt n: it doubles with every attempt, the default multiplier.
interval[n \in Nat] == IF n <= 1 THEN InitialInterval ELSE 2 * interval[n - 1]

\* Mutant: the backoff is not capped.
Uncapped(n) == interval[n]

\* CalculateBackoff: full jitter below Cap(n).
Cap(n) == IF interval[n] > MaxInterval THEN MaxInterval ELSE interval[n]

\* Code -1 is a network error.
IsRetryable(c) == c = -1 \/ c \in {408, 429} \/ c \in 500 .. 599

\* The loop's variables are gone.
EndPass(p) ==
    /\ attempt' = [attempt EXCEPT ![p] = 1]
    /\ timer' = [timer EXCEPT ![p] = 0]
    /\ elapsed' = [elapsed EXCEPT ![p] = 0]

\* The end of Dispatch and of a turn of the retry loop, with max attempts: this one is a
\* success, is to be repeated after a backoff, or sends the event to the DLQ.
OutcomeWithin(p, c, max) ==
    /\ code' = [code EXCEPT ![p] = NoCode]
    /\ conn' = [conn EXCEPT ![p] = NoAddress]
    /\ age' = [age EXCEPT ![p] = 0]
    /\ \/ /\ c \in 200 .. 299
          /\ Goto(p, "delivered")
          /\ EndPass(p)
       \/ /\ c \notin 200 .. 299
          /\ IsRetryable(c) /\ attempt[p] < max
          /\ Goto(p, "backoff")
          /\ attempt' = [attempt EXCEPT ![p] = @ + 1]
          /\ \E t \in 0 .. Cap(attempt[p] + 1) : timer' = [timer EXCEPT ![p] = t]
          /\ UNCHANGED elapsed
       \/ /\ c \notin 200 .. 299
          /\ ~(IsRetryable(c) /\ attempt[p] < max)
          /\ Goto(p, "dead")
          /\ EndPass(p)

\* Mutants: one attempt fewer, or more, than the policy allows.
OutcomeOneLess(p, c) == OutcomeWithin(p, c, MaxRetries - 1)
OutcomeOneMore(p, c) == OutcomeWithin(p, c, MaxRetries + 1)

Outcome(p, c) == OutcomeWithin(p, c, MaxRetries)

Wake(p) ==
    /\ pc[p] = "backoff" /\ timer[p] = 0
    /\ Goto(p, "ready")
    /\ UNCHANGED <<route, attempt, age, timer, elapsed, code, conn>>
    /\ UNCHANGED <<idle, dns, count, opened, faults>>

(***************************************************************************)
(* The request                                                             *)
(***************************************************************************)

\* Mutant: retries carry the signature of the first attempt.
SignOnce(p) ==
    /\ pc[p] = "ready"
    /\ age' = [age EXCEPT ![p] = elapsed[p]]
    /\ timer' = [timer EXCEPT ![p] = Timeout]
    /\ Goto(p, "dial")
    /\ UNCHANGED <<route, attempt, elapsed, code, conn, idle, dns, count, opened, faults>>

\* The signature covers the time of now.
SignPayload(p) == age' = [age EXCEPT ![p] = 0]

\* The request is signed and given to client.Do, whose timeout starts.
Dispatch(p) ==
    /\ pc[p] = "ready"
    /\ SignPayload(p)
    /\ timer' = [timer EXCEPT ![p] = Timeout]
    /\ Goto(p, "dial")
    /\ UNCHANGED <<route, attempt, elapsed, code, conn, idle, dns, count, opened, faults>>

\* The transport has an idle connection to the host.
Reuse(p) ==
    /\ pc[p] = "dial"
    /\ \E a \in idle : idle' = idle \ {a} /\ conn' = [conn EXCEPT ![p] = a]
    /\ Goto(p, "sent")
    /\ UNCHANGED <<route, attempt, age, timer, elapsed, code, dns, count, opened, faults>>

IsRestrictedIP(a) == a \in Restricted

\* DialContext: the host is looked up, and refused when one of its addresses is
\* restricted.
Lookup(p) ==
    /\ pc[p] = "dial"
    /\ \/ /\ AllowPrivate \/ (dns # {} /\ \A a \in dns : ~IsRestrictedIP(a))
          /\ Goto(p, "resolved")
          /\ UNCHANGED <<attempt, age, timer, elapsed, code, conn>>
       \/ /\ ~AllowPrivate /\ (dns = {} \/ \E a \in dns : IsRestrictedIP(a))
          /\ Outcome(p, -1)
    /\ UNCHANGED <<route, idle, dns, count, opened, faults>>

\* Mutant: the dialer has no Control hook.
DialUnchecked(p) ==
    /\ pc[p] = "resolved"
    /\ \/ \E a \in dns : /\ conn' = [conn EXCEPT ![p] = a]
                         /\ opened' = opened \cup {a}
                         /\ Goto(p, "sent")
                         /\ UNCHANGED <<attempt, age, timer, elapsed, code>>
       \/ dns = {} /\ Outcome(p, -1) /\ UNCHANGED opened
    /\ UNCHANGED <<route, idle, dns, count, faults>>

\* The dialer looks the name up again, and Control refuses every restricted address.
Dial(p) ==
    /\ pc[p] = "resolved"
    /\ LET allowed == {a \in dns : AllowPrivate \/ ~IsRestrictedIP(a)} IN
       \/ \E a \in allowed : /\ conn' = [conn EXCEPT ![p] = a]
                             /\ opened' = opened \cup {a}
                             /\ Goto(p, "sent")
                             /\ UNCHANGED <<attempt, age, timer, elapsed, code>>
       \/ allowed = {} /\ Outcome(p, -1) /\ UNCHANGED opened
    /\ UNCHANGED <<route, idle, dns, count, faults>>

\* The answer is read, and the connection kept.
Reply(p) ==
    /\ pc[p] = "answered"
    /\ Outcome(p, code[p])
    /\ idle' = idle \cup {conn[p]}
    /\ UNCHANGED <<route, dns, count, opened, faults>>

\* Mutant: a client without a timeout.
NoTimeout(p) == timer[p] = 0 /\ UNCHANGED vars

\* The client's timeout is over before an answer has come.
TimeOut(p) ==
    /\ pc[p] \in {"dial", "resolved", "sent", "answered", "lost"}
    /\ timer[p] = 0
    /\ Outcome(p, -1)
    /\ UNCHANGED <<route, idle, dns, count, opened, faults>>

(***************************************************************************)
(* The receivers and the network                                           *)
(***************************************************************************)

\* VerifySignature, whose other inputs are those SignPayload was given.  The receiver's
\* clock is the signer's, so no signature is of the future.
VerifySignature(p) == age[p] <= Tolerance

\* handleWebhookFlaky answers 200 to every third request of an event.
Flaky(n) == IF n % 3 # 0 THEN 500 ELSE 200

Answer(p) ==
    CASE route[p] \in {"success", "slow"} -> 200
      [] route[p] = "poison" -> 400
      [] route[p] = "flaky"  -> Flaky(count')
      [] route[p] = "verify" -> IF VerifySignature(p) THEN 200 ELSE 401

Receive(p) ==
    /\ pc[p] = "sent"
    /\ count' = IF route[p] = "flaky" THEN count + 1 ELSE count
    /\ code' = [code EXCEPT ![p] = Answer(p)]
    /\ Goto(p, "answered")
    /\ UNCHANGED <<route, attempt, age, timer, elapsed, conn, idle, dns, opened, faults>>

\* A request or an answer is lost.
Lose(p) ==
    /\ pc[p] \in {"sent", "answered"}
    /\ Fault
    /\ Goto(p, "lost")
    /\ code' = [code EXCEPT ![p] = NoCode]
    /\ UNCHANGED <<route, attempt, age, timer, elapsed, conn, idle, dns, count, opened>>

ChangeDNS ==
    /\ Fault
    /\ dns' \in SUBSET Addresses \ {dns}
    /\ UNCHANGED <<route, passVars, idle, count, opened>>

\* Idle connections are closed after a while.
CloseIdle ==
    /\ idle # {}
    /\ idle' = {}
    /\ UNCHANGED <<route, passVars, dns, count, opened, faults>>

Over(p) == pc[p] \in {"delivered", "dead"}

\* Work of p that takes no time: what the program does itself, and what the receivers do
\* that are not patient.
Urgent(p) ==
    \/ pc[p] = "ready"
    \/ pc[p] \in {"dial", "resolved", "sent", "answered"} /\ route[p] \notin Patient
    \/ ~Over(p) /\ timer[p] = 0

Tick ==
    /\ \E p \in Passes : ~Over(p)
    /\ \A p \in Passes : ~Urgent(p)
    /\ LET On(p) == ~Over(p) IN
       /\ age' = [p \in Passes |-> IF On(p) /\ pc[p] # "backoff" THEN age[p] + 1 ELSE age[p]]
       /\ elapsed' = [p \in Passes |-> IF On(p) THEN elapsed[p] + 1 ELSE elapsed[p]]
       /\ timer' = [p \in Passes |-> IF On(p) THEN timer[p] - 1 ELSE timer[p]]
    /\ UNCHANGED <<route, pc, attempt, code, conn, idle, dns, count, opened, faults>>

AllOver == (\A p \in Passes : Over(p)) /\ UNCHANGED vars

Step(p) ==
    \/ Dispatch(p) \/ Reuse(p) \/ Lookup(p) \/ Dial(p) \/ Reply(p) \/ TimeOut(p) \/ Wake(p)

Next ==
    \/ \E p \in Passes : Step(p) \/ Receive(p) \/ Lose(p)
    \/ ChangeDNS \/ CloseIdle \/ Tick \/ AllOver

Spec == Init /\ [][Next]_vars

\* The receivers that are not patient answer in no time, as Urgent has it.
Prompt(p) == route[p] \notin Patient /\ Receive(p)

\* Workers run and time passes; nothing is assumed of patient receivers and of the network.
FairSpec ==
    Spec /\ WF_vars(Tick) /\ \A p \in Passes : WF_vars(Step(p)) /\ WF_vars(Prompt(p))

-----------------------------------------------------------------------------
(***************************************************************************)
(* Properties                                                              *)
(***************************************************************************)

\* The shape of the state; a pass is never past its last attempt, a pass that waits has
\* an armed timer, and only a pass with a request under way has a connection.
TypeOK ==
    /\ route \in Routings
    /\ pc \in [Passes -> {"ready", "dial", "resolved", "sent", "answered", "lost",
                          "backoff", "delivered", "dead"}]
    /\ attempt \in [Passes -> 1 .. MaxRetries]
    /\ \A p \in Passes :
         /\ {age[p], timer[p], elapsed[p]} \subseteq Nat
         /\ code[p] # NoCode => pc[p] = "answered"
         /\ conn[p] # NoAddress <=> pc[p] \in {"sent", "answered", "lost"}
    /\ idle \subseteq opened /\ opened \subseteq Addresses /\ dns \subseteq Addresses
    /\ count \in Nat
    /\ faults \in 0 .. MaxFaults

\* No connection is ever opened to a restricted address unless private destinations are
\* allowed, although the records of the host may change between the lookup of DialContext
\* and that of the dialer, and connections are kept and used again (ssrf.go).
DialedIsAllowed == AllowPrivate \/ opened \cap Restricted = {}

\* A receiver that verifies with the SDK never refuses a delivery as too old or forged,
\* however many timeouts and backoffs came before it: every attempt is signed again, with
\* a time the client's timeout keeps within the tolerance (Dispatch, VerifySignature).
NeverStale == \A p \in Passes : code[p] # 401

\* The mock receiver's flaky route counts requests by event, so two passes on one event
\* spoil each other's turns; even so five attempts are enough for both, while the network
\* loses nothing and the host resolves ("fails on 1st & 2nd attempts, succeeds on 3rd").
Resolves == dns # {} /\ (AllowPrivate \/ dns \cap Restricted = {})
FlakyIsDelivered ==
    \A p \in Passes : route[p] = "flaky" /\ pc[p] = "dead" /\ Resolves => faults > 0

\* A pass never takes longer than its attempts' timeouts and the capped backoffs between
\* them: the time the reclaimer's MinIdle would have to exceed (processMessage).
Lesser(a, b) == IF a < b THEN a ELSE b
longestPass[n \in Nat] ==
    IF n <= 1 THEN Timeout
    ELSE longestPass[n - 1] + Timeout + Lesser(MaxInterval, interval[n])
PassEndsInTime == \A p \in Passes : elapsed[p] <= longestPass[MaxRetries]

\* Every pass ends in a delivery or in the DLQ, with receivers that never answer and a
\* network that loses requests (the client's Timeout and the policy's MaxRetries).
EveryPassEnds == <>(\A p \in Passes : Over(p))

=============================================================================
