------------------------- MODULE MemoryStreamQueue -------------------------
(***************************************************************************)
(* MemoryStreamQueue of internal/queue, which takes the place of Redis     *)
(* when there is none: one stream, one consumer group, readers that block  *)
(* until a message is published, their deadline passes or their context is *)
(* done, and a reclaimer.  Every method is one critical section but        *)
(* ReadEvents, which leaves the mutex to wait on the channel it found.     *)
(*                                                                         *)
(* The channel notifyCh is named by how many were closed before it.  Time  *)
(* is left out: a deadline may pass, and an entry be idle, at any moment.  *)
(* The group as consumers use it: workerLoop and pelRecoveryLoop take the  *)
(* messages of a call one by one before they call again.                   *)
(***************************************************************************)
EXTENDS Naturals, Sequences, FiniteSets

CONSTANTS
    Events,        \* what is published
    Readers,       \* the consumers that call ReadEvents
    Claimers,      \* the consumers that call AutoClaim
    StartIDs,      \* the start ids passed to CreateConsumerGroup
    Count,         \* the count of each call
    MaxMessages    \* bound: how many messages are ever published

Consumers == Readers \cup Claimers

ASSUME ConstantsAssumption ==
    /\ Readers \cap Claimers = {}
    /\ StartIDs \subseteq {"0", "$"}
    /\ Count \in Nat \ {0}
    /\ MaxMessages \in Nat

VARIABLES
    messages,
    exists,            \* the group exists
    lastDelivered,     \* lastDeliveredIdx + 1
    pending,           \* the consumer of every pending message
    notifyCh,
    pc,                \* where each reader is in ReadEvents
    ch,                \* the channel a reader waits on
    blocking,          \* block > 0
    held,              \* messages a call returned and the consumer has not finished
    cancelled          \* consumers whose context is done

groupVars  == <<exists, lastDelivered, pending>>
readerVars == <<pc, ch, blocking, held>>
vars == <<messages, groupVars, notifyCh, readerVars, cancelled>>

Init ==
    /\ messages = << >>
    /\ exists = FALSE
    /\ lastDelivered = 0
    /\ pending = [m \in {} |-> "none"]
    /\ notifyCh = 0
    /\ pc = [c \in Consumers |-> "idle"]
    /\ ch = [c \in Consumers |-> 0]
    /\ blocking = [c \in Consumers |-> FALSE]
    /\ held = [c \in Consumers |-> {}]
    /\ cancelled = {}

Goto(c, where) == pc' = [pc EXCEPT ![c] = where]

\* pending with the messages of S handed to c.
Owned(S, c) == [m \in DOMAIN pending \cup S |-> IF m \in S THEN c ELSE pending[m]]

(***************************************************************************)
(* PublishEvent and CreateConsumerGroup                                    *)
(***************************************************************************)

\* Mutant: the waiting consumers are not notified.
PublishQuietly(e) ==
    /\ Len(messages) < MaxMessages
    /\ messages' = Append(messages, e)
    /\ UNCHANGED <<groupVars, notifyCh, readerVars, cancelled>>

\* The message is appended and the channel closed and replaced.
PublishEvent(e) ==
    /\ Len(messages) < MaxMessages
    /\ messages' = Append(messages, e)
    /\ notifyCh' = notifyCh + 1
    /\ UNCHANGED <<groupVars, readerVars, cancelled>>

\* An existing group is left alone.
CreateConsumerGroup(startID) ==
    /\ ~exists
    /\ exists' = TRUE
    /\ lastDelivered' = IF startID = "$" THEN Len(messages) ELSE 0
    /\ UNCHANGED <<messages, pending, notifyCh, readerVars, cancelled>>

(***************************************************************************)
(* ReadEvents                                                              *)
(***************************************************************************)

ReadEvents(c) ==
    /\ pc[c] = "idle" /\ held[c] = {}
    /\ Goto(c, "check")
    /\ blocking' \in {[blocking EXCEPT ![c] = b] : b \in BOOLEAN}
    /\ UNCHANGED <<messages, groupVars, notifyCh, ch, held, cancelled>>

\* The head of the loop: ctx.Err().
CheckContext(c) ==
    /\ pc[c] = "check"
    /\ Goto(c, IF c \in cancelled THEN "exited" ELSE "lock")
    /\ UNCHANGED <<messages, groupVars, notifyCh, ch, blocking, held, cancelled>>

\* Mutant: a batch is not cut off at the end of the stream.
BatchEndUncapped == lastDelivered + Count

BatchEnd == IF lastDelivered + Count > Len(messages) THEN Len(messages) ELSE lastDelivered + Count

\* Mutant: messages are given out without an entry.
TakeNoAck(c) ==
    /\ pc[c] = "lock"
    /\ lastDelivered < Len(messages)
    /\ held' = [held EXCEPT ![c] = lastDelivered + 1 .. BatchEnd]
    /\ exists' = TRUE
    /\ lastDelivered' = BatchEnd
    /\ Goto(c, "idle")
    /\ UNCHANGED <<messages, pending, notifyCh, ch, blocking, cancelled>>

\* Under the mutex there are messages to give out: a batch, in order.  The group is
\* created if there was none.
Take(c) ==
    /\ pc[c] = "lock"
    /\ lastDelivered < Len(messages)
    /\ LET batch == lastDelivered + 1 .. BatchEnd
       IN /\ pending' = Owned(batch, c)
          /\ held' = [held EXCEPT ![c] = batch]
    /\ exists' = TRUE
    /\ lastDelivered' = BatchEnd
    /\ Goto(c, "idle")
    /\ UNCHANGED <<messages, notifyCh, ch, blocking, cancelled>>

\* Under the mutex there is none: a call that may block takes hold of the channel.
Arm(c) ==
    /\ pc[c] = "lock"
    /\ lastDelivered >= Len(messages)
    /\ exists' = TRUE
    /\ IF blocking[c] THEN ch' = [ch EXCEPT ![c] = notifyCh] /\ Goto(c, "select")
       ELSE Goto(c, "idle") /\ UNCHANGED ch
    /\ UNCHANGED <<messages, lastDelivered, pending, notifyCh, blocking, held, cancelled>>

\* Mutant: a reader that was woken waits again without a look at the stream.
WakeRearmed(c) ==
    /\ pc[c] = "select"
    /\ ch[c] < notifyCh
    /\ ch' = [ch EXCEPT ![c] = notifyCh]
    /\ UNCHANGED <<messages, groupVars, notifyCh, pc, blocking, held, cancelled>>

\* The channel is closed: the loop starts over.
Wake(c) ==
    /\ pc[c] = "select"
    /\ ch[c] < notifyCh
    /\ Goto(c, "check")
    /\ UNCHANGED <<messages, groupVars, notifyCh, ch, blocking, held, cancelled>>

\* The deadline passes first, and the call returns nothing.
Timeout(c) ==
    /\ pc[c] = "select"
    /\ Goto(c, "idle")
    /\ UNCHANGED <<messages, groupVars, notifyCh, ch, blocking, held, cancelled>>

\* The context is done first.
Done(c) ==
    /\ pc[c] = "select"
    /\ c \in cancelled
    /\ Goto(c, "exited")
    /\ UNCHANGED <<messages, groupVars, notifyCh, ch, blocking, held, cancelled>>

(***************************************************************************)
(* AutoClaim and AckEvent                                                  *)
(***************************************************************************)

\* Up to Count idle entries change hands.
AutoClaim(c, idle) ==
    /\ pc[c] = "idle" /\ held[c] = {}
    /\ c \notin cancelled
    /\ idle # {} /\ idle \subseteq DOMAIN pending
    /\ Cardinality(idle) <= Count
    /\ pending' = Owned(idle, c)
    /\ held' = [held EXCEPT ![c] = idle]
    /\ UNCHANGED <<messages, exists, lastDelivered, notifyCh, pc, ch, blocking, cancelled>>

\* The entry is deleted, whoever owns it by now; nothing happens when the context is
\* done, and the consumer gives up the rest of its messages.
AckEvent(c, m) ==
    /\ m \in held[c]
    /\ IF c \in cancelled
       THEN held' = [held EXCEPT ![c] = {}] /\ UNCHANGED pending
       ELSE /\ held' = [held EXCEPT ![c] = @ \ {m}]
            /\ pending' = [k \in DOMAIN pending \ {m} |-> pending[k]]
    /\ UNCHANGED <<messages, exists, lastDelivered, notifyCh, pc, ch, blocking, cancelled>>

Cancel(c) ==
    /\ c \notin cancelled
    /\ cancelled' = cancelled \cup {c}
    /\ UNCHANGED <<messages, groupVars, notifyCh, readerVars>>

(***************************************************************************)
(* Specification                                                           *)
(***************************************************************************)

Read(c) == ReadEvents(c) \/ CheckContext(c) \/ Take(c) \/ Arm(c) \/ Wake(c) \/ Done(c)

Ack(c) == \E m \in held[c] : AckEvent(c, m)

Next ==
    \/ \E e \in Events : PublishEvent(e)
    \/ \E id \in StartIDs : CreateConsumerGroup(id)
    \/ \E c \in Readers : Read(c) \/ Timeout(c)
    \/ \E c \in Claimers : \E idle \in SUBSET DOMAIN pending : AutoClaim(c, idle)
    \/ \E c \in Consumers : Ack(c) \/ Cancel(c)

Spec == Init /\ [][Next]_vars

\* Readers run and finish what they hold.  No deadline has to pass: a wait ends because
\* a message is published.
Fairness == \A c \in Readers : WF_vars(Read(c)) /\ WF_vars(Ack(c))

FairSpec == Spec /\ Fairness

(***************************************************************************)
(* Properties                                                              *)
(***************************************************************************)

\* The group stays within the stream and every entry has an owner, as have the messages
\* consumers hold.
TypeOK ==
    /\ messages \in Seq(Events)
    /\ exists \in BOOLEAN
    /\ lastDelivered \in 0 .. Len(messages)
    /\ DOMAIN pending \subseteq 1 .. Len(messages)
    /\ \A m \in DOMAIN pending : pending[m] \in Consumers
    /\ notifyCh \in Nat
    /\ pc \in [Consumers -> {"idle", "check", "lock", "select", "exited"}]
    /\ ch \in [Consumers -> Nat]
    /\ blocking \in [Consumers -> BOOLEAN]
    /\ held \in [Consumers -> SUBSET (1 .. Len(messages))]
    /\ cancelled \subseteq Consumers

\* No wake-up is lost: a reader waits on an open channel only while there is nothing to
\* give out, although it takes hold of the channel before it waits and messages are
\* published in between.
WaitersMissNothing ==
    \A c \in Readers : pc[c] = "select" /\ ch[c] = notifyCh => lastDelivered = Len(messages)

\* Every message is given out in the end, by no deadline, unless every reader's context
\* is done.
EveryMessageIsGiven ==
    \A n \in 1 .. MaxMessages :
        (Len(messages) >= n /\ exists) ~> (lastDelivered >= n \/ Readers \subseteq cancelled)

\* The queue in memory is a stream with a consumer group as Redis has it.
Group == INSTANCE ConsumerGroup WITH
    log <- messages, joined <- exists, cursor <- lastDelivered, pending <- DOMAIN pending

KeepsGroup == Group!Spec

=============================================================================
