---------------------- MODULE MemoryStreamQueueProofs ----------------------
(***************************************************************************)
(* Proofs about MemoryStreamQueue: no wake-up is lost, and the queue is a  *)
(* stream with a consumer group as ConsumerGroup has it.                   *)
(***************************************************************************)
EXTENDS MemoryStreamQueue, TLAPS

\* A reader waits only after the group was created, and on no channel of the future.
WaitInv ==
    /\ \A c \in Consumers : ch[c] <= notifyCh
    /\ \A c \in Readers : pc[c] = "select" => exists

QueueInv == TypeOK /\ WaitInv /\ WaitersMissNothing

LEMMA InitQueue == ASSUME Init PROVE QueueInv
<1>1. DOMAIN pending = {} /\ messages = << >> /\ Len(messages) = 0
    BY DEF Init
<1>2. messages \in Seq(Events)
    BY <1>1
<1>3. TypeOK
    <2>1. lastDelivered \in 0 .. Len(messages) /\ notifyCh \in Nat
        BY <1>1 DEF Init
    <2>2. DOMAIN pending \subseteq 1 .. Len(messages) /\ \A m \in DOMAIN pending : FALSE
        BY <1>1
    <2>3. /\ pc \in [Consumers -> {"idle", "check", "lock", "select", "exited"}]
          /\ ch \in [Consumers -> Nat]
          /\ blocking \in [Consumers -> BOOLEAN]
          /\ cancelled \subseteq Consumers
          /\ exists \in BOOLEAN
        BY DEF Init
    <2>4. held \in [Consumers -> SUBSET (1 .. Len(messages))]
        BY DEF Init
    <2> QED BY <1>2, <2>1, <2>2, <2>3, <2>4 DEF TypeOK
<1>4. WaitInv /\ WaitersMissNothing
    BY DEF Init, WaitInv, WaitersMissNothing, Consumers
<1> QED BY <1>3, <1>4 DEF QueueInv

\* A batch never reaches beyond the stream, and always beyond the group's cursor when
\* something is unread.
LEMMA BatchFacts ==
    ASSUME TypeOK
    PROVE /\ BatchEnd \in 0 .. Len(messages)
          /\ BatchEnd >= lastDelivered
          /\ lastDelivered < Len(messages) => BatchEnd > lastDelivered
BY ConstantsAssumption DEF TypeOK, BatchEnd

(***************************************************************************)
(* Types                                                                   *)
(***************************************************************************)

LEMMA PublishType == ASSUME TypeOK, NEW e \in Events, PublishEvent(e) PROVE TypeOK'
<1> USE DEF TypeOK
<1>1. messages' \in Seq(Events) /\ Len(messages') = Len(messages) + 1
    BY DEF PublishEvent
<1>2. 1 .. Len(messages) \subseteq 1 .. Len(messages') /\ Len(messages) \in Nat
    BY <1>1
<1>3. /\ lastDelivered' \in 0 .. Len(messages')
      /\ DOMAIN pending' \subseteq 1 .. Len(messages')
      /\ notifyCh' \in Nat
    BY <1>1, <1>2 DEF PublishEvent, groupVars
<1>4. held' \in [Consumers -> SUBSET (1 .. Len(messages'))]
    <2>1. held' = held /\ \A c \in Consumers : held[c] \in SUBSET (1 .. Len(messages'))
        BY <1>2 DEF PublishEvent, readerVars
    <2> QED BY <2>1
<1> QED BY <1>1, <1>3, <1>4 DEF PublishEvent, groupVars, readerVars

LEMMA ReadType ==
    ASSUME TypeOK, NEW c \in Readers, Read(c) \/ Timeout(c)
    PROVE TypeOK'
<1> c \in Consumers
    BY DEF Consumers
<1>1. CASE Take(c)
    <2>1. /\ BatchEnd \in 0 .. Len(messages)
          /\ lastDelivered + 1 .. BatchEnd \subseteq 1 .. Len(messages)
        BY BatchFacts DEF TypeOK
    <2>2. /\ DOMAIN pending' = DOMAIN pending \cup lastDelivered + 1 .. BatchEnd
          /\ \A m \in DOMAIN pending' : pending'[m] \in Consumers
        BY <1>1 DEF Take, Owned, TypeOK
    <2>3. held' \in [Consumers -> SUBSET (1 .. Len(messages))]
        BY <1>1, <2>1 DEF Take, TypeOK
    <2> QED BY <1>1, <2>1, <2>2, <2>3 DEF Take, Goto, TypeOK
<1>2. CASE Arm(c)
    BY <1>2 DEF Arm, Goto, TypeOK
<1>3. CASE ReadEvents(c) \/ CheckContext(c) \/ Wake(c) \/ Done(c) \/ Timeout(c)
    BY <1>3 DEF ReadEvents, CheckContext, Wake, Done, Timeout, Goto, TypeOK, groupVars
<1> QED BY <1>1, <1>2, <1>3 DEF Read

LEMMA AutoClaimType ==
    ASSUME TypeOK, NEW c \in Claimers, NEW idle \in SUBSET DOMAIN pending, AutoClaim(c, idle)
    PROVE TypeOK'
<1> c \in Consumers
    BY DEF Consumers
<1>1. /\ DOMAIN pending' = DOMAIN pending
      /\ \A m \in DOMAIN pending' : pending'[m] \in Consumers
    BY DEF AutoClaim, Owned, TypeOK
<1> QED BY <1>1 DEF AutoClaim, TypeOK

LEMMA AckType == ASSUME TypeOK, NEW c \in Consumers, Ack(c) PROVE TypeOK'
<1>1. PICK m \in held[c] : AckEvent(c, m)
    BY DEF Ack
<1>2. /\ DOMAIN pending' \subseteq DOMAIN pending
      /\ \A k \in DOMAIN pending' : pending'[k] \in Consumers
    BY <1>1 DEF AckEvent, TypeOK
<1>3. held' \in [Consumers -> SUBSET (1 .. Len(messages))]
    BY <1>1 DEF AckEvent, TypeOK
<1> QED BY <1>1, <1>2, <1>3 DEF AckEvent, TypeOK

LEMMA NextQueueType == ASSUME TypeOK, [Next]_vars PROVE TypeOK'
<1>1. CASE \E e \in Events : PublishEvent(e)
    BY <1>1, PublishType
<1>2. CASE \E id \in StartIDs : CreateConsumerGroup(id)
    BY <1>2 DEF CreateConsumerGroup, TypeOK, readerVars
<1>3. CASE \E c \in Readers : Read(c) \/ Timeout(c)
    BY <1>3, ReadType
<1>4. CASE \E c \in Claimers : \E idle \in SUBSET DOMAIN pending : AutoClaim(c, idle)
    BY <1>4, AutoClaimType
<1>5. CASE \E c \in Consumers : Ack(c) \/ Cancel(c)
    BY <1>5, AckType DEF Cancel, TypeOK, groupVars, readerVars
<1>6. CASE UNCHANGED vars
    BY <1>6 DEF vars, TypeOK, groupVars, readerVars
<1> QED BY <1>1, <1>2, <1>3, <1>4, <1>5, <1>6 DEF Next

(***************************************************************************)
(* Wake-ups                                                                *)
(***************************************************************************)

LEMMA ReadWait ==
    ASSUME QueueInv, NEW c \in Readers, Read(c) \/ Timeout(c)
    PROVE WaitInv' /\ WaitersMissNothing'
<1> c \in Consumers /\ Readers \subseteq Consumers
    BY DEF Consumers
<1> USE DEF QueueInv, TypeOK, WaitInv, WaitersMissNothing
\* While something is unread nobody waits on the open channel.
<1>1. CASE Take(c)
    <2>1. \A d \in Readers : pc[d] = "select" => ch[d] # notifyCh
        BY <1>1 DEF Take
    <2>2. \A d \in Readers : pc'[d] = "select" => pc[d] = "select"
        BY <1>1 DEF Take, Goto
    <2> QED BY <1>1, <2>1, <2>2 DEF Take
\* The reader that takes hold of the channel has found nothing unread.
<1>2. CASE Arm(c)
    <2>1. lastDelivered = Len(messages) /\ exists'
        BY <1>2 DEF Arm
    <2> QED BY <1>2, <2>1 DEF Arm, Goto
<1>3. CASE ReadEvents(c) \/ CheckContext(c) \/ Wake(c) \/ Done(c) \/ Timeout(c)
    <2>1. \A d \in Readers : pc'[d] = "select" => pc[d] = "select"
        BY <1>3 DEF ReadEvents, CheckContext, Wake, Done, Timeout, Goto
    <2> QED BY <1>3, <2>1 DEF ReadEvents, CheckContext, Wake, Done, Timeout, groupVars
<1> QED BY <1>1, <1>2, <1>3 DEF Read

LEMMA NextQueue == ASSUME QueueInv, [Next]_vars PROVE QueueInv'
<1>1. TypeOK'
    BY NextQueueType DEF QueueInv
<1> Readers \subseteq Consumers
    BY DEF Consumers
<1>2. WaitInv' /\ WaitersMissNothing'
    <2> USE DEF QueueInv, WaitInv, WaitersMissNothing
    \* The channel that is open from now on is held by nobody.
    <2>1. CASE \E e \in Events : PublishEvent(e)
        <3>1. /\ notifyCh' = notifyCh + 1 /\ notifyCh \in Nat
              /\ UNCHANGED <<pc, ch, exists>>
              /\ \A c \in Consumers : ch[c] \in Nat
            BY <2>1 DEF PublishEvent, groupVars, readerVars, TypeOK
        <3>2. \A c \in Consumers : ch'[c] < notifyCh'
            BY <3>1
        <3> QED BY <3>1, <3>2
    <2>2. CASE \E id \in StartIDs : CreateConsumerGroup(id)
        BY <2>2 DEF CreateConsumerGroup, readerVars
    <2>3. CASE \E c \in Readers : Read(c) \/ Timeout(c)
        BY <2>3, ReadWait
    <2>4. CASE \/ \E c \in Claimers : \E idle \in SUBSET DOMAIN pending : AutoClaim(c, idle)
               \/ \E c \in Consumers : Ack(c) \/ Cancel(c)
               \/ UNCHANGED vars
        <3>1. UNCHANGED <<messages, lastDelivered, exists, notifyCh, pc, ch>>
            BY <2>4 DEF AutoClaim, Ack, AckEvent, Cancel, vars, groupVars, readerVars
        <3> QED BY <3>1
    <2> QED BY <2>1, <2>2, <2>3, <2>4 DEF Next
<1> QED BY <1>1, <1>2 DEF QueueInv

LEMMA QueueInvariant == Spec => []QueueInv
BY InitQueue, NextQueue, PTL DEF Spec

\* The group of the queue in memory stays within its stream, every pending entry has an
\* owner and consumers hold messages of the stream only, for any number of readers,
\* claimers and messages.
THEOREM QueueType == Spec => []TypeOK
BY QueueInvariant, PTL DEF QueueInv

\* No reader of the queue in memory waits on an open channel while a message is unread,
\* for any number of readers and messages.
THEOREM NoLostWakeup == Spec => []WaitersMissNothing
BY QueueInvariant, PTL DEF QueueInv

(***************************************************************************)
(* Refinement                                                              *)
(***************************************************************************)

LEMMA TakeIsGive ==
    ASSUME TypeOK, NEW c \in Readers, Take(c)
    PROVE \E n \in 1 .. Len(messages) - lastDelivered : Group!Give(n)
<1> DEFINE n == BatchEnd - lastDelivered
<1>1. n \in 1 .. Len(messages) - lastDelivered /\ lastDelivered + n = BatchEnd
    BY BatchFacts DEF Take, TypeOK
<1>2. DOMAIN pending' = DOMAIN pending \cup lastDelivered + 1 .. BatchEnd
    BY DEF Take, Owned
<1>3. Group!Give(n)
    BY <1>1, <1>2 DEF Take, Group!Give
<1> QED BY <1>1, <1>3

LEMMA AckIsDone ==
    ASSUME TypeOK, NEW c \in Consumers, Ack(c)
    PROVE (\E m \in DOMAIN pending : Group!Done({m})) \/ UNCHANGED Group!vars
<1>1. PICK m \in held[c] : AckEvent(c, m)
    BY DEF Ack
<1>2. DOMAIN pending' = DOMAIN pending \/ DOMAIN pending' = DOMAIN pending \ {m}
    BY <1>1 DEF AckEvent
<1>3. UNCHANGED <<messages, exists, lastDelivered>>
    BY <1>1 DEF AckEvent
<1>4. CASE DOMAIN pending' = DOMAIN pending
    BY <1>3, <1>4 DEF Group!vars
<1>5. CASE DOMAIN pending' = DOMAIN pending \ {m} /\ m \in DOMAIN pending
    BY <1>3, <1>5 DEF Group!Done
<1> QED BY <1>2, <1>4, <1>5

LEMMA StepIsGroupStep == ASSUME QueueInv, [Next]_vars PROVE [Group!Next]_Group!vars
<1> TypeOK
    BY DEF QueueInv
<1>1. CASE \E e \in Events : PublishEvent(e)
    <2>1. PICK e \in Events : PublishEvent(e)
        BY <1>1
    <2>2. /\ Len(messages') = Len(messages) + 1
          /\ \A m \in 1 .. Len(messages) : messages'[m] = messages[m]
        BY <2>1 DEF PublishEvent, TypeOK
    <2>3. Group!Add
        BY <2>1, <2>2 DEF PublishEvent, groupVars, Group!Add
    <2> QED BY <2>3 DEF Group!Next
<1>2. CASE \E id \in StartIDs : CreateConsumerGroup(id)
    <2>1. Group!Join
        BY <1>2 DEF CreateConsumerGroup, Group!Join
    <2> QED BY <2>1 DEF Group!Next
<1>3. CASE \E c \in Readers : Take(c)
    BY <1>3, TakeIsGive DEF Group!Next
<1>4. CASE \E c \in Readers : Arm(c)
    <2>1. UNCHANGED <<messages, lastDelivered, pending>> /\ exists' = TRUE
        BY <1>4 DEF Arm
    <2>2. lastDelivered = Len(messages)
        BY <1>4 DEF Arm, TypeOK
    <2>3. CASE exists
        <3>1. UNCHANGED Group!vars
            BY <2>1, <2>3 DEF Group!vars, TypeOK
        <3> QED BY <3>1
    <2>4. CASE ~exists
        <3>1. Group!Join
            BY <2>1, <2>2, <2>4 DEF Group!Join
        <3> QED BY <3>1 DEF Group!Next
    <2> QED BY <2>3, <2>4
<1>5. CASE \E c \in Readers : \/ ReadEvents(c) \/ CheckContext(c) \/ Wake(c) \/ Done(c)
                              \/ Timeout(c)
    BY <1>5 DEF ReadEvents, CheckContext, Wake, Done, Timeout, groupVars, Group!vars
<1>6. CASE \E c \in Claimers : \E idle \in SUBSET DOMAIN pending : AutoClaim(c, idle)
    <2>1. DOMAIN pending' = DOMAIN pending
        BY <1>6 DEF AutoClaim, Owned
    <2> QED BY <1>6, <2>1 DEF AutoClaim, Group!vars
<1>7. CASE \E c \in Consumers : Ack(c)
    BY <1>7, AckIsDone DEF Group!Next
<1>8. CASE (\E c \in Consumers : Cancel(c)) \/ UNCHANGED vars
    BY <1>8 DEF Cancel, vars, groupVars, Group!vars
<1> QED BY <1>1, <1>2, <1>3, <1>4, <1>5, <1>6, <1>7, <1>8 DEF Next, Read

\* The queue in memory implements the consumer group: messages are given out once and in
\* order, and stay pending until they are acknowledged, for any number of consumers.
THEOREM QueueIsGroup == Spec => KeepsGroup
<1>1. Init => Group!Init
    BY DEF Init, Group!Init
<1>2. QueueInv /\ [Next]_vars => [Group!Next]_Group!vars
    BY StepIsGroupStep
<1> QED BY <1>1, <1>2, QueueInvariant, PTL DEF Spec, KeepsGroup, Group!Spec

=============================================================================
