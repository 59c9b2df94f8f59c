------------------------- MODULE FlowConsumerProofs -------------------------
(***************************************************************************)
(* Proofs about FlowConsumer, for every number of replicas, conversations,  *)
(* messages, faults and crashes.                                            *)
(***************************************************************************)
EXTENDS FlowConsumer, FiniteSetTheorems, TLAPS

-----------------------------------------------------------------------------
(* Lemmas *)

\* The part of a pending list that satisfies a condition can be counted.
LEMMA PendingCount ==
    ASSUME NEW n \in Nat, NEW S \in SUBSET (1..n)
    PROVE  Cardinality(S) \in Nat
  <1>1. IsFiniteSet(1..n)
    BY FS_Interval
  <1>2. IsFiniteSet(S)
    BY <1>1, FS_Subset
  <1> QED
    BY <1>2, FS_CardinalityType

\* A worker inside _process has a delivered entry, with a message and a chat.
LEMMA EntryType ==
    ASSUME TypeOK, NEW w \in Workers, pc[w] # "next"
    PROVE  /\ cur[w] \in 1..delivered
           /\ cur[w] \in 1..last
           /\ MsgOf(w) \in Msgs
           /\ ChatAt(w) \in Chats
  <1>1. cur[w] \in 1..delivered
    BY DEF TypeOK
  <1>2. cur[w] \in 1..last
    BY <1>1, ConsumerAssumption DEF TypeOK
  <1>3. msgOf[cur[w]] \in Msgs
    BY <1>2 DEF TypeOK
  <1> QED
    BY <1>1, <1>2, <1>3, ConsumerAssumption DEF MsgOf, ChatAt

\* The bound on mishaps is kept by every step that may be one.
LEMMA MishapBound ==
    ASSUME TypeOK, NEW kind, Mishap(kind, 1) \/ NoFault
    PROVE  mishaps' \in 0..MaxMishaps
  BY ConsumerAssumption DEF TypeOK, Mishap, NoFault

-----------------------------------------------------------------------------
(* Type correctness *)

\* Every reachable state is well typed: entry ids stay within the stream, only
\* delivered entries are pending, in a batch or being processed, and a worker
\* has an entry exactly while it is inside _process.
THEOREM TypeCorrect == Spec => []TypeOK
  <1> USE ConsumerAssumption DEF TypeOK, Ids, Steps, Locked
  <1>1. Init => TypeOK
    BY DEF Init
  <1>2. TypeOK /\ [Next]_vars => TypeOK'
    <2> SUFFICES ASSUME TypeOK, [Next]_vars
                 PROVE  TypeOK'
      OBVIOUS
    <2> USE DEF stream, redis, memory, history, Mishap, Fault, NoFault, Goto
    <2>1. ASSUME NEW m \in Msgs, Publish(m)
          PROVE  TypeOK'
      BY <2>1 DEF Publish, Add
    <2>2. ASSUME NEW w \in Workers, ReadGroup(w)
          PROVE  TypeOK'
      <3>1. Readable \in 0..(last - delivered)
        BY DEF Readable
      <3>2. /\ delivered' \in 0..last /\ delivered <= delivered'
            /\ pel' \subseteq 1..delivered'
            /\ batch' \in [Workers -> SUBSET (1..delivered')]
        BY <2>2, <3>1 DEF ReadGroup, Deliver
      <3>3. /\ processed \subseteq 1..delivered'
            /\ cur \in [Workers -> (1..delivered') \cup {None}]
        BY <3>2
      <3> QED
        BY <2>2, <3>2, <3>3 DEF ReadGroup
    <2>3. ASSUME NEW w \in Workers, ReadGroupFails(w)
          PROVE  TypeOK'
      <3>1. Readable \in 0..(last - delivered)
        BY DEF Readable
      <3>2. /\ delivered' \in 0..last /\ delivered <= delivered'
            /\ pel' \subseteq 1..delivered'
        BY <2>3, <3>1 DEF ReadGroupFails, Deliver
      <3>3. /\ processed \subseteq 1..delivered'
            /\ batch \in [Workers -> SUBSET (1..delivered')]
            /\ cur \in [Workers -> (1..delivered') \cup {None}]
        BY <3>2
      <3> QED
        BY <2>3, <3>2, <3>3 DEF ReadGroupFails
    <2>4. ASSUME NEW w \in Workers, Sweep(w)
          PROVE  TypeOK'
      <3>1. PICK S \in (SUBSET pel) \ {{}} :
              /\ Mishap("steal", Cardinality({e \in S : InHand(e)}))
              /\ batch' = [batch EXCEPT ![w] = S]
              /\ claims' = [m \in Msgs |->
                              claims[m] + Cardinality({e \in S : msgOf[e] = m})]
        BY <2>4 DEF Sweep
      <3> delivered \in Nat /\ S \in SUBSET (1..delivered)
        OBVIOUS
      <3>2. Cardinality({e \in S : InHand(e)}) \in Nat
        <4>1. {e \in S : InHand(e)} \in SUBSET (1..delivered)
          OBVIOUS
        <4> QED
          BY <4>1, PendingCount
      <3>3. ASSUME NEW m \in Msgs
            PROVE  Cardinality({e \in S : msgOf[e] = m}) \in Nat
        <4>1. {e \in S : msgOf[e] = m} \in SUBSET (1..delivered)
          OBVIOUS
        <4> QED
          BY <4>1, PendingCount
      <3>4. mishaps' \in 0..MaxMishaps
        BY <3>1, <3>2
      <3>5. claims' \in [Msgs -> Nat]
        <4>1. ASSUME NEW m \in Msgs
              PROVE  claims[m] + Cardinality({e \in S : msgOf[e] = m}) \in Nat
          <5>1. claims[m] \in Nat /\ Cardinality({e \in S : msgOf[e] = m}) \in Nat
            BY <3>3
          <5> QED
            BY <5>1
        <4> QED
          BY <3>1, <4>1
      <3>6. batch' \in [Workers -> SUBSET (1..delivered)]
        BY <3>1
      <3> QED
        BY <2>4, <3>4, <3>5, <3>6 DEF Sweep
    <2>5. ASSUME NEW w \in Workers, GiveUp(w)
          PROVE  TypeOK'
      BY <2>5 DEF GiveUp, Take
    <2>6. ASSUME NEW w \in Workers, TokenRaises(w)
          PROVE  TypeOK'
      BY <2>6 DEF TokenRaises, Abandon
    <2>7. ASSUME NEW w \in Workers, SkipProcessed(w)
          PROVE  TypeOK'
      BY <2>7 DEF SkipProcessed, Take
    <2>8. ASSUME NEW w \in Workers, NotProcessed(w)
          PROVE  TypeOK'
      <3>1. mishaps' \in 0..MaxMishaps
        BY <2>8, MishapBound DEF NotProcessed
      <3> QED
        BY <2>8, <3>1 DEF NotProcessed, Take
    <2>9. ASSUME NEW w \in Workers, WithinRate(w)
          PROVE  TypeOK'
      <3>1. mishaps' \in 0..MaxMishaps
        BY <2>9, MishapBound DEF WithinRate
      <3> QED
        BY <2>9, <3>1 DEF WithinRate, RateAfterIncr
    <2>10. ASSUME NEW w \in Workers, OverRate(w)
          PROVE  TypeOK'
      <3>1. MsgOf(w) \in Msgs /\ ChatAt(w) \in Chats
        BY <2>10, EntryType DEF OverRate
      <3> QED
        BY <2>10, <3>1 DEF OverRate, RateAfterIncr
    <2>11. ASSUME NEW w \in Workers, AcquireLock(w)
          PROVE  TypeOK'
      <3>1. MsgOf(w) \in Msgs /\ ChatAt(w) \in Chats
        BY <2>11, EntryType DEF AcquireLock
      <3> QED
        BY <2>11, <3>1 DEF AcquireLock
    <2>12. ASSUME NEW w \in Workers, LockBusy(w)
          PROVE  TypeOK'
      BY <2>12 DEF LockBusy
    <2>13. ASSUME NEW w \in Workers, AcquireRaises(w)
          PROVE  TypeOK'
      <3>1. MsgOf(w) \in Msgs /\ ChatAt(w) \in Chats
        BY <2>13, EntryType DEF AcquireRaises
      <3>2. mishaps' \in 0..MaxMishaps
        BY <2>13, MishapBound DEF AcquireRaises
      <3>3. lock' \in [Chats -> Workers \cup {None}]
        BY <2>13, <3>1 DEF AcquireRaises
      <3> QED
        BY <2>13, <3>2, <3>3 DEF AcquireRaises, Abandon
    <2>14. ASSUME NEW w \in Workers, Requeue(w)
          PROVE  TypeOK'
      <3>1. MsgOf(w) \in Msgs /\ ChatAt(w) \in Chats
        BY <2>14, EntryType DEF Requeue
      <3> QED
        BY <2>14, <3>1 DEF Requeue, Add
    <2>15. ASSUME NEW w \in Workers, RequeueFails(w)
          PROVE  TypeOK'
      <3>1. MsgOf(w) \in Msgs /\ ChatAt(w) \in Chats
        BY <2>15, EntryType DEF RequeueFails
      <3> QED
        BY <2>15, <3>1 DEF RequeueFails
    <2>16. ASSUME NEW w \in Workers, LoadSession(w)
          PROVE  TypeOK'
      <3>1. MsgOf(w) \in Msgs /\ ChatAt(w) \in Chats
        BY <2>16, EntryType DEF LoadSession
      <3> QED
        BY <2>16, <3>1 DEF LoadSession
    <2>17. ASSUME NEW w \in Workers, LoadFails(w)
          PROVE  TypeOK'
      BY <2>17 DEF LoadFails
    <2>18. ASSUME NEW w \in Workers, Execute(w)
          PROVE  TypeOK'
      <3>1. MsgOf(w) \in Msgs /\ ChatAt(w) \in Chats
        BY <2>18, EntryType DEF Execute
      <3> QED
        BY <2>18, <3>1 DEF Execute
    <2>19. ASSUME NEW w \in Workers, ExecuteRaises(w)
          PROVE  TypeOK'
      <3>1. MsgOf(w) \in Msgs /\ ChatAt(w) \in Chats
        BY <2>19, EntryType DEF ExecuteRaises
      <3> QED
        BY <2>19, <3>1 DEF ExecuteRaises
    <2>20. ASSUME NEW w \in Workers, SaveSession(w)
          PROVE  TypeOK'
      <3>1. MsgOf(w) \in Msgs /\ ChatAt(w) \in Chats
        BY <2>20, EntryType DEF SaveSession
      <3> QED
        BY <2>20, <3>1 DEF SaveSession
    <2>21. ASSUME NEW w \in Workers, SaveFails(w)
          PROVE  TypeOK'
      BY <2>21 DEF SaveFails
    <2>22. ASSUME NEW w \in Workers, ReleaseLock(w)
          PROVE  TypeOK'
      <3>1. mishaps' \in 0..MaxMishaps
        BY <2>22, MishapBound DEF ReleaseLock
      <3> QED
        BY <2>22, <3>1 DEF ReleaseLock, Leave
    <2>23. ASSUME NEW w \in Workers, MarkProcessed(w)
          PROVE  TypeOK'
      <3>1. mishaps' \in 0..MaxMishaps
        BY <2>23, MishapBound DEF MarkProcessed
      <3> QED
        BY <2>23, <3>1 DEF MarkProcessed
    <2>24. ASSUME NEW w \in Workers, Ack(w)
          PROVE  TypeOK'
      <3>1. mishaps' \in 0..MaxMishaps
        BY <2>24, MishapBound DEF Ack
      <3> QED
        BY <2>24, <3>1 DEF Ack
    <2>25. ASSUME NEW w \in Workers, Crash(w)
          PROVE  TypeOK'
      <3>1. mishaps' \in 0..MaxMishaps
        BY <2>25, MishapBound DEF Crash
      <3> QED
        BY <2>25, <3>1 DEF Crash, Abandon, Leave
    <2>26. ASSUME NEW c \in Chats, LockExpire(c)
          PROVE  TypeOK'
      BY <2>26 DEF LockExpire, LoseKey
    <2>27. ASSUME NEW c \in Chats, SessionExpire(c)
          PROVE  TypeOK'
      BY <2>27 DEF SessionExpire
    <2>28. ASSUME NEW c \in Chats, ResetSession(c)
          PROVE  TypeOK'
      BY <2>28 DEF ResetSession, LoseKey
    <2>29. ASSUME NEW e \in Ids, KeyExpire(e)
          PROVE  TypeOK'
      BY <2>29 DEF KeyExpire
    <2>30. CASE RollMinute
      BY <2>30 DEF RollMinute
    <2>31. CASE UNCHANGED vars
      BY <2>31 DEF vars
    <2> QED
      BY <2>1, <2>2, <2>3, <2>4, <2>5, <2>6, <2>7, <2>8, <2>9, <2>10, <2>11, <2>12,
         <2>13, <2>14, <2>15, <2>16, <2>17, <2>18, <2>19, <2>20, <2>21, <2>22, <2>23,
         <2>24, <2>25, <2>26, <2>27, <2>28, <2>29, <2>30, <2>31
         DEF Next, Environment, Step
  <1> QED
    BY <1>1, <1>2, PTL DEF Spec

-----------------------------------------------------------------------------
(* The conversation lock *)

\* A step lets nobody into a locked section and leaves keys and losses alone,
\* or it is one of the six that the lock is about.
LEMMA LockSteps ==
    ASSUME TypeOK, [Next]_vars
    PROVE  \/ /\ UNCHANGED <<lock, stolen>>
              /\ \A c \in Chats : Inside(c)' = Inside(c)
           \/ \E w \in Workers : \/ AcquireLock(w) \/ AcquireRaises(w)
                                 \/ ReleaseLock(w) \/ Crash(w)
           \/ \E c \in Chats : LockExpire(c) \/ ResetSession(c)
  <1> DEFINE Quiet == /\ UNCHANGED <<lock, stolen>>
                      /\ \A c \in Chats : Inside(c)' = Inside(c)
  <1> USE ConsumerAssumption
      DEF TypeOK, Ids, Steps, Locked, stream, redis, memory, history,
          Inside, ChatAt, MsgOf
  <1>1. ASSUME NEW m \in Msgs, Publish(m)
        PROVE  Quiet
    <2>1. ASSUME NEW v \in Workers, pc[v] \in Locked
          PROVE  cur[v] \in 1..last
      BY <2>1
    <2>2. \A e \in 1..last : msgOf'[e] = msgOf[e]
      BY <1>1 DEF Publish, Add
    <2>3. UNCHANGED <<lock, stolen, pc, cur>>
      BY <1>1 DEF Publish
    <2> QED
      BY <2>1, <2>2, <2>3
  <1>2. ASSUME NEW w \in Workers, ReadGroup(w)
        PROVE  Quiet
    BY <1>2 DEF ReadGroup
  <1>3. ASSUME NEW w \in Workers, ReadGroupFails(w)
        PROVE  Quiet
    BY <1>3 DEF ReadGroupFails
  <1>4. ASSUME NEW w \in Workers, Sweep(w)
        PROVE  Quiet
    BY <1>4 DEF Sweep
  <1>5. ASSUME NEW w \in Workers, GiveUp(w)
        PROVE  Quiet
    BY <1>5 DEF GiveUp, Take
  <1>6. ASSUME NEW w \in Workers, TokenRaises(w)
        PROVE  Quiet
    BY <1>6 DEF TokenRaises, Abandon
  <1>7. ASSUME NEW w \in Workers, SkipProcessed(w)
        PROVE  Quiet
    BY <1>7 DEF SkipProcessed, Take
  <1>8. ASSUME NEW w \in Workers, NotProcessed(w)
        PROVE  Quiet
    BY <1>8 DEF NotProcessed, Take
  <1>9. ASSUME NEW w \in Workers, WithinRate(w)
        PROVE  Quiet
    BY <1>9 DEF WithinRate, Goto
  <1>10. ASSUME NEW w \in Workers, OverRate(w)
        PROVE  Quiet
    BY <1>10 DEF OverRate, Goto
  <1>11. ASSUME NEW w \in Workers, LockBusy(w)
        PROVE  Quiet
    BY <1>11 DEF LockBusy, Goto
  <1>12. ASSUME NEW w \in Workers, Requeue(w)
        PROVE  Quiet
    <2>1. ASSUME NEW v \in Workers, pc[v] \in Locked
          PROVE  cur[v] \in 1..last
      BY <2>1
    <2>2. \A v \in Workers : pc'[v] \in Locked <=> pc[v] \in Locked
      BY <1>12 DEF Requeue, Goto
    <2>3. \A e \in 1..last : msgOf'[e] = msgOf[e]
      BY <1>12 DEF Requeue, Add
    <2>4. UNCHANGED <<lock, stolen, cur>>
      BY <1>12 DEF Requeue, Goto
    <2> QED
      BY <2>1, <2>2, <2>3, <2>4
  <1>13. ASSUME NEW w \in Workers, RequeueFails(w)
        PROVE  Quiet
    BY <1>13 DEF RequeueFails, Goto
  <1>14. ASSUME NEW w \in Workers, LoadSession(w)
        PROVE  Quiet
    BY <1>14 DEF LoadSession, Goto
  <1>15. ASSUME NEW w \in Workers, LoadFails(w)
        PROVE  Quiet
    BY <1>15 DEF LoadFails, Goto
  <1>16. ASSUME NEW w \in Workers, Execute(w)
        PROVE  Quiet
    BY <1>16 DEF Execute, Goto
  <1>17. ASSUME NEW w \in Workers, ExecuteRaises(w)
        PROVE  Quiet
    BY <1>17 DEF ExecuteRaises, Goto
  <1>18. ASSUME NEW w \in Workers, SaveSession(w)
        PROVE  Quiet
    BY <1>18 DEF SaveSession, Goto
  <1>19. ASSUME NEW w \in Workers, SaveFails(w)
        PROVE  Quiet
    BY <1>19 DEF SaveFails, Goto
  <1>20. ASSUME NEW w \in Workers, MarkProcessed(w)
        PROVE  Quiet
    BY <1>20 DEF MarkProcessed, Goto
  <1>21. ASSUME NEW w \in Workers, Ack(w)
        PROVE  Quiet
    BY <1>21 DEF Ack
  <1>22. ASSUME NEW c \in Chats, SessionExpire(c)
        PROVE  Quiet
    BY <1>22 DEF SessionExpire
  <1>23. ASSUME NEW e \in Ids, KeyExpire(e)
        PROVE  Quiet
    BY <1>23 DEF KeyExpire
  <1>24. CASE RollMinute
    BY <1>24 DEF RollMinute
  <1>25. CASE UNCHANGED vars
    BY <1>25 DEF vars
  <1> HIDE DEF Quiet
  <1> QED
    BY <1>1, <1>2, <1>3, <1>4, <1>5, <1>6, <1>7, <1>8, <1>9, <1>10, <1>11, <1>12,
       <1>13, <1>14, <1>15, <1>16, <1>17, <1>18, <1>19, <1>20, <1>21, <1>22, <1>23,
       <1>24, <1>25
       DEF Next, Environment, Step, Quiet

\* In every reachable state the lock excludes: a worker between acquire() and
\* release() of a conversation is alone there and the key is its own, unless
\* the key has vanished under somebody who is still inside.
THEOREM LockExcludes == Spec => []MutualExclusion
  <1>1. Init => MutualExclusion
    BY DEF Init, MutualExclusion, Inside, Locked
  <1>2. TypeOK /\ MutualExclusion /\ [Next]_vars => MutualExclusion'
    <2> SUFFICES ASSUME TypeOK, MutualExclusion, [Next]_vars
                 PROVE  MutualExclusion'
      OBVIOUS
    <2> USE ConsumerAssumption
    <2>1. CASE /\ UNCHANGED <<lock, stolen>>
               /\ \A c \in Chats : Inside(c)' = Inside(c)
      BY <2>1 DEF MutualExclusion
    <2>2. ASSUME NEW w \in Workers, AcquireLock(w)
          PROVE  MutualExclusion'
      <3> DEFINE k == ChatAt(w)
      <3>1. k \in Chats
        BY <2>2, EntryType DEF AcquireLock
      <3>2. lock[k] = None /\ lock' = [lock EXCEPT ![k] = w] /\ stolen' = stolen
        BY <2>2 DEF AcquireLock, Free, history
      <3>3. \A c \in Chats : Inside(c)' \subseteq Inside(c) \cup {w}
        BY <2>2 DEF AcquireLock, Goto, Inside, ChatAt, MsgOf, Locked, TypeOK, stream
      <3>4. \A c \in Chats \ {k} : w \notin Inside(c)'
        BY <2>2 DEF AcquireLock, Goto, Inside, ChatAt, MsgOf, TypeOK, stream
      <3>5. k \notin stolen => Inside(k) = {}
        BY <3>1, <3>2 DEF MutualExclusion, Inside
      <3> HIDE DEF k
      <3> QED
        BY <3>1, <3>2, <3>3, <3>4, <3>5 DEF MutualExclusion, TypeOK
    <2>3. ASSUME NEW w \in Workers, AcquireRaises(w)
          PROVE  MutualExclusion'
      <3> DEFINE k == ChatAt(w)
      <3>1. k \in Chats
        BY <2>3, EntryType DEF AcquireRaises
      <3>2. \/ lock' = lock
            \/ lock[k] = None /\ lock' = [lock EXCEPT ![k] = w]
        BY <2>3 DEF AcquireRaises, Free
      <3>3. stolen' = stolen
        BY <2>3 DEF AcquireRaises, history
      <3>4. \A c \in Chats : Inside(c)' \subseteq Inside(c)
        BY <2>3 DEF AcquireRaises, Abandon, Inside, ChatAt, MsgOf, Locked, TypeOK, stream
      <3>5. lock[k] = None /\ k \notin stolen => Inside(k) = {}
        BY <3>1 DEF MutualExclusion, Inside
      <3> HIDE DEF k
      <3> QED
        BY <3>1, <3>2, <3>3, <3>4, <3>5 DEF MutualExclusion, TypeOK
    <2>4. ASSUME NEW w \in Workers, ReleaseLock(w)
          PROVE  MutualExclusion'
      <3> DEFINE k == ChatAt(w)
      <3>1. k \in Chats /\ w \in Inside(k)
        BY <2>4, EntryType DEF ReleaseLock, Inside, Locked
      <3>2. lock' = lock \/ lock' = [lock EXCEPT ![k] = None]
        BY <2>4 DEF ReleaseLock
      <3>3. stolen' = IF Inside(k) \subseteq {w} THEN stolen \ {k} ELSE stolen
        BY <2>4 DEF ReleaseLock, Leave
      <3>4. \A c \in Chats : Inside(c)' \subseteq Inside(c) \ {w}
        BY <2>4 DEF ReleaseLock, Goto, Inside, ChatAt, MsgOf, Locked, TypeOK, stream
      <3> HIDE DEF k
      <3> QED
        BY <3>1, <3>2, <3>3, <3>4 DEF MutualExclusion, TypeOK
    <2>5. ASSUME NEW w \in Workers, Crash(w)
          PROVE  MutualExclusion'
      <3>1. lock' = lock
        BY <2>5 DEF Crash, redis
      <3>2. \A c \in Chats : Inside(c)' \subseteq Inside(c) \ {w}
        BY <2>5 DEF Crash, Abandon, Inside, ChatAt, MsgOf, Locked, TypeOK, stream
      <3>3. \A c \in stolen \ stolen' : Inside(c) \subseteq {w}
        BY <2>5 DEF Crash, Leave
      <3> QED
        BY <3>1, <3>2, <3>3 DEF MutualExclusion
    <2>6. ASSUME NEW c \in Chats, LockExpire(c) \/ ResetSession(c)
          PROVE  MutualExclusion'
      <3>1. /\ lock' = [lock EXCEPT ![c] = None]
            /\ stolen' = IF Inside(c) = {} THEN stolen ELSE stolen \cup {c}
        BY <2>6 DEF LockExpire, ResetSession, LoseKey
      <3>2. \A d \in Chats : Inside(d)' = Inside(d)
        BY <2>6 DEF LockExpire, ResetSession, Inside, ChatAt, MsgOf, stream, memory
      <3> QED
        BY <3>1, <3>2 DEF MutualExclusion, TypeOK
    <2> QED
      BY <2>1, <2>2, <2>3, <2>4, <2>5, <2>6, LockSteps
  <1> QED
    BY <1>1, <1>2, TypeCorrect, PTL DEF Spec

\* A lock key that has vanished is forgotten with the last one who has lost it:
\* as soon as nobody is inside a conversation, MutualExclusion holds for it again,
\* and its next turns are atomic (lock.release() in _process, or a crash).
THEOREM LossesHeal == Spec => [](\A c \in Torn : Inside(c) # {})
  <1> DEFINE Caught == \A c \in stolen : Inside(c) # {}
  <1>1. Init => Caught
    BY DEF Init
  <1>2. TypeOK /\ Caught /\ [Next]_vars => Caught'
    <2> SUFFICES ASSUME TypeOK, Caught, [Next]_vars
                 PROVE  Caught'
      OBVIOUS
    <2> USE ConsumerAssumption
    <2>0. stolen \subseteq Chats
      BY DEF TypeOK
    <2>1. CASE /\ UNCHANGED <<lock, stolen>>
               /\ \A c \in Chats : Inside(c)' = Inside(c)
      BY <2>0, <2>1
    <2>2. ASSUME NEW w \in Workers,
                 AcquireLock(w) \/ AcquireRaises(w) \/ ReleaseLock(w) \/ Crash(w)
          PROVE  \A c \in Chats : Inside(c) \ {w} \subseteq Inside(c)'
      <3>1. UNCHANGED msgOf /\ \A v \in Workers \ {w} : pc'[v] = pc[v] /\ cur'[v] = cur[v]
        BY <2>2 DEF AcquireLock, AcquireRaises, ReleaseLock, Crash, Goto, Abandon, stream, TypeOK
      <3> QED
        BY <3>1 DEF Inside, ChatAt, MsgOf
    <2>3. ASSUME NEW w \in Workers, AcquireLock(w) \/ AcquireRaises(w)
          PROVE  Caught'
      <3>1. stolen' = stolen /\ pc[w] = "lock"
        BY <2>3 DEF AcquireLock, AcquireRaises, history
      <3>2. \A c \in Chats : w \notin Inside(c)
        BY <3>1 DEF Inside, Locked
      <3> QED
        BY <2>0, <2>2, <2>3, <3>1, <3>2
    <2>4. ASSUME NEW w \in Workers, ReleaseLock(w) \/ Crash(w)
          PROVE  Caught'
      <3>1. stolen' \subseteq stolen
        BY <2>4 DEF ReleaseLock, Crash, Leave
      <3>2. \A c \in stolen' : ~(Inside(c) \subseteq {w})
        <4>1. SUFFICES ASSUME NEW c \in stolen', Inside(c) \subseteq {w}
                       PROVE  FALSE
          OBVIOUS
        <4>2. w \in Inside(c)
          BY <3>1, <4>1
        <4>3. pc[w] \in Locked /\ ChatAt(w) = c
          BY <4>2 DEF Inside
        <4>4. stolen' = stolen \ {c}
          BY <2>4, <4>1, <4>3 DEF ReleaseLock, Crash, Leave
        <4> QED
          BY <4>1, <4>4
      <3> QED
        BY <2>0, <2>2, <2>4, <3>1, <3>2
    <2>5. ASSUME NEW d \in Chats, LockExpire(d) \/ ResetSession(d)
          PROVE  Caught'
      <3>1. stolen' = IF Inside(d) = {} THEN stolen ELSE stolen \cup {d}
        BY <2>5 DEF LockExpire, ResetSession, LoseKey
      <3>2. \A c \in Chats : Inside(c)' = Inside(c)
        BY <2>5 DEF LockExpire, ResetSession, Inside, ChatAt, MsgOf, stream, memory
      <3> QED
        BY <2>0, <3>1, <3>2
    <2> HIDE DEF Caught
    <2> QED
      BY <2>1, <2>3, <2>4, <2>5, LockSteps
  <1>3. Caught => \A c \in Torn : Inside(c) # {}
    BY DEF Torn
  <1> HIDE DEF Caught
  <1> QED
    BY <1>1, <1>2, <1>3, TypeCorrect, PTL DEF Spec

-----------------------------------------------------------------------------
(* The stored session *)

\* The workers that hold an in-memory session of conversation c.
Holding(c) == {w \in Inside(c) : pc[w] \in {"execute", "save"}}

\* Worker w is where it was, with the entry it had.
SameStep(w) == pc'[w] = pc[w] /\ cur'[w] = cur[w] /\ msgOf'[cur[w]] = msgOf[cur[w]]

\* What a worker will save holds every turn that is stored now, unless the
\* lock was lost or the worker could not load what was stored.
CopyInv ==
    \A c \in Chats \ stolen : \A w \in Holding(c) \ blind : session[c] \subseteq copy[w]

\* A step leaves sessions, copies and losses alone, adds no holder and moves
\* none, or it is one of the nine that load, change, save or wipe a session.
LEMMA SessionSteps ==
    ASSUME TypeOK, [Next]_vars
    PROVE  \/ /\ UNCHANGED <<session, copy, stolen, blind>>
              /\ \A c \in Chats : Holding(c)' \subseteq Holding(c)
              /\ \A w \in Workers : pc'[w] \in {"execute", "save"} => SameStep(w)
           \/ \E w \in Workers : \/ LoadSession(w) \/ LoadFails(w) \/ Execute(w)
                                 \/ SaveSession(w) \/ ReleaseLock(w) \/ Crash(w)
           \/ \E c \in Chats : LockExpire(c) \/ ResetSession(c) \/ SessionExpire(c)
  <1> DEFINE Still == /\ UNCHANGED <<session, copy, stolen, blind>>
                      /\ \A c \in Chats : Holding(c)' \subseteq Holding(c)
                      /\ \A w \in Workers : pc'[w] \in {"execute", "save"} => SameStep(w)
  <1> USE ConsumerAssumption
      DEF TypeOK, Ids, Steps, Locked, stream, redis, memory, history,
          Holding, Inside, ChatAt, MsgOf, SameStep
  <1>1. ASSUME NEW m \in Msgs, Publish(m)
        PROVE  Still
    <2>1. ASSUME NEW v \in Workers, pc[v] \in Locked
          PROVE  cur[v] \in 1..last
      BY <2>1
    <2>2. \A e \in 1..last : msgOf'[e] = msgOf[e]
      BY <1>1 DEF Publish, Add
    <2>3. UNCHANGED <<session, pc, cur, copy, stolen, blind>>
      BY <1>1 DEF Publish
    <2> QED
      BY <2>1, <2>2, <2>3
  <1>2. ASSUME NEW w \in Workers, ReadGroup(w)
        PROVE  Still
    BY <1>2 DEF ReadGroup
  <1>3. ASSUME NEW w \in Workers, ReadGroupFails(w)
        PROVE  Still
    BY <1>3 DEF ReadGroupFails
  <1>4. ASSUME NEW w \in Workers, Sweep(w)
        PROVE  Still
    BY <1>4 DEF Sweep
  <1>5. ASSUME NEW w \in Workers, GiveUp(w)
        PROVE  Still
    BY <1>5 DEF GiveUp, Take
  <1>6. ASSUME NEW w \in Workers, TokenRaises(w)
        PROVE  Still
    BY <1>6 DEF TokenRaises, Abandon
  <1>7. ASSUME NEW w \in Workers, SkipProcessed(w)
        PROVE  Still
    BY <1>7 DEF SkipProcessed, Take
  <1>8. ASSUME NEW w \in Workers, NotProcessed(w)
        PROVE  Still
    BY <1>8 DEF NotProcessed, Take
  <1>9. ASSUME NEW w \in Workers, WithinRate(w)
        PROVE  Still
    BY <1>9 DEF WithinRate, Goto
  <1>10. ASSUME NEW w \in Workers, OverRate(w)
        PROVE  Still
    BY <1>10 DEF OverRate, Goto
  <1>11. ASSUME NEW w \in Workers, AcquireLock(w)
        PROVE  Still
    BY <1>11 DEF AcquireLock, Goto
  <1>12. ASSUME NEW w \in Workers, AcquireRaises(w)
        PROVE  Still
    BY <1>12 DEF AcquireRaises, Abandon
  <1>13. ASSUME NEW w \in Workers, LockBusy(w)
        PROVE  Still
    BY <1>13 DEF LockBusy, Goto
  <1>14. ASSUME NEW w \in Workers, Requeue(w)
        PROVE  Still
    <2>1. ASSUME NEW v \in Workers, pc'[v] \in Locked
          PROVE  pc[v] = pc'[v] /\ cur'[v] = cur[v] /\ cur[v] \in 1..last
      BY <1>14, <2>1 DEF Requeue, Goto
    <2>2. \A e \in 1..last : msgOf'[e] = msgOf[e]
      BY <1>14 DEF Requeue, Add
    <2>3. UNCHANGED <<session, copy, stolen, blind>>
      BY <1>14 DEF Requeue
    <2> QED
      BY <2>1, <2>2, <2>3
  <1>15. ASSUME NEW w \in Workers, RequeueFails(w)
        PROVE  Still
    BY <1>15 DEF RequeueFails, Goto
  <1>16. ASSUME NEW w \in Workers, ExecuteRaises(w)
        PROVE  Still
    BY <1>16 DEF ExecuteRaises, Goto
  <1>17. ASSUME NEW w \in Workers, SaveFails(w)
        PROVE  Still
    BY <1>17 DEF SaveFails, Goto
  <1>18. ASSUME NEW w \in Workers, MarkProcessed(w)
        PROVE  Still
    BY <1>18 DEF MarkProcessed, Goto
  <1>19. ASSUME NEW w \in Workers, Ack(w)
        PROVE  Still
    BY <1>19 DEF Ack
  <1>20. ASSUME NEW e \in Ids, KeyExpire(e)
        PROVE  Still
    BY <1>20 DEF KeyExpire
  <1>21. CASE RollMinute
    BY <1>21 DEF RollMinute
  <1>22. CASE UNCHANGED vars
    BY <1>22 DEF vars
  <1> HIDE DEF Still
  <1> QED
    BY <1>1, <1>2, <1>3, <1>4, <1>5, <1>6, <1>7, <1>8, <1>9, <1>10, <1>11, <1>12,
       <1>13, <1>14, <1>15, <1>16, <1>17, <1>18, <1>19, <1>20, <1>21, <1>22
       DEF Next, Environment, Step, Still

\* Every worker's copy is as new as the stored session (CopyInv).
LEMMA CopyIsFresh == Spec => []CopyInv
  <1>1. Init => CopyInv
    BY DEF Init, CopyInv, Holding, Inside, Locked
  <1>2. TypeOK /\ MutualExclusion /\ CopyInv /\ [Next]_vars => CopyInv'
    <2> SUFFICES ASSUME TypeOK, MutualExclusion, CopyInv, [Next]_vars
                 PROVE  CopyInv'
      OBVIOUS
    <2> USE ConsumerAssumption
    <2>1. CASE /\ UNCHANGED <<session, copy, stolen, blind>>
               /\ \A c \in Chats : Holding(c)' \subseteq Holding(c)
      BY <2>1 DEF CopyInv
    <2>2. ASSUME NEW w \in Workers, LoadSession(w)
          PROVE  CopyInv'
      <3>1. \A c \in Chats : Holding(c)' \subseteq Holding(c) \cup {w}
        BY <2>2 DEF LoadSession, Goto, Holding, Inside, ChatAt, MsgOf, Locked, TypeOK, stream
      <3>2. \A c \in Chats \ {ChatAt(w)} : w \notin Holding(c)'
        BY <2>2 DEF LoadSession, Goto, Holding, Inside, ChatAt, MsgOf, TypeOK, stream
      <3>3. /\ copy' = [copy EXCEPT ![w] = session[ChatAt(w)]]
            /\ UNCHANGED <<session, stolen, blind>>
        BY <2>2 DEF LoadSession, redis, history
      <3> QED
        BY <3>1, <3>2, <3>3 DEF CopyInv, TypeOK
    <2>3. ASSUME NEW w \in Workers, LoadFails(w)
          PROVE  CopyInv'
      <3>1. \A c \in Chats : Holding(c)' \subseteq Holding(c) \cup {w}
        BY <2>3 DEF LoadFails, Goto, Holding, Inside, ChatAt, MsgOf, Locked, TypeOK, stream
      <3>2. /\ copy' = [copy EXCEPT ![w] = {}]
            /\ blind' = blind \cup {w}
            /\ UNCHANGED <<session, stolen>>
        BY <2>3 DEF LoadFails, redis, history
      <3> QED
        BY <3>1, <3>2 DEF CopyInv, TypeOK
    <2>4. ASSUME NEW w \in Workers, Execute(w)
          PROVE  CopyInv'
      <3>1. \A c \in Chats : Holding(c)' \subseteq Holding(c)
        BY <2>4 DEF Execute, Goto, Holding, Inside, ChatAt, MsgOf, Locked, TypeOK, stream
      <3>2. /\ copy' = [copy EXCEPT ![w] = @ \cup {MsgOf(w)}]
            /\ UNCHANGED <<session, stolen, blind>>
        BY <2>4 DEF Execute, redis, history
      <3>3. \A v \in Workers : copy[v] \subseteq copy'[v]
        BY <3>2 DEF TypeOK
      <3> QED
        BY <3>1, <3>2, <3>3 DEF CopyInv, Holding, Inside
    <2>5. ASSUME NEW w \in Workers, SaveSession(w)
          PROVE  CopyInv'
      <3> DEFINE k == ChatAt(w)
      <3>1. k \in Chats /\ w \in Inside(k)
        BY <2>5, EntryType DEF SaveSession, Inside, Locked
      <3>2. \A c \in Chats : Holding(c)' \subseteq Holding(c) \ {w}
        BY <2>5 DEF SaveSession, Goto, Holding, Inside, ChatAt, MsgOf, Locked, TypeOK, stream
      <3>3. /\ session' = [session EXCEPT ![k] = copy[w]]
            /\ UNCHANGED <<copy, stolen, blind>>
        BY <2>5 DEF SaveSession, history
      <3>4. k \notin stolen => Inside(k) \subseteq {w}
        BY <3>1 DEF MutualExclusion
      <3>5. Holding(k) \subseteq Inside(k)
        BY DEF Holding
      <3> HIDE DEF k
      <3>6. ASSUME NEW c \in Chats \ stolen, NEW v \in Holding(c)', v \notin blind
            PROVE  c # k /\ v \in Holding(c)
        BY <3>1, <3>2, <3>4, <3>5, <3>6
      <3> QED
        BY <3>1, <3>3, <3>6 DEF CopyInv, TypeOK
    <2>6. ASSUME NEW w \in Workers, ReleaseLock(w) \/ Crash(w)
          PROVE  CopyInv'
      <3>1. \A c \in Chats : Holding(c)' \subseteq Holding(c) \ {w}
        BY <2>6 DEF ReleaseLock, Crash, Goto, Abandon, Holding, Inside, ChatAt,
                    MsgOf, Locked, TypeOK, stream
      <3>2. session' = session
        BY <2>6 DEF ReleaseLock, Crash, redis
      <3>3. \A v \in Workers \ {w} : copy'[v] = copy[v]
        BY <2>6 DEF ReleaseLock, Crash, Leave, TypeOK
      <3>4. blind \ {w} \subseteq blind'
        BY <2>6 DEF ReleaseLock, Crash, Leave
      <3>5. \A c \in stolen \ stolen' : Inside(c) \subseteq {w}
        BY <2>6 DEF ReleaseLock, Crash, Leave
      <3> QED
        BY <3>1, <3>2, <3>3, <3>4, <3>5 DEF CopyInv, Holding, Inside
    <2>7. ASSUME NEW c \in Chats, LockExpire(c) \/ ResetSession(c) \/ SessionExpire(c)
          PROVE  CopyInv'
      <3>1. \A d \in Chats : Holding(d)' = Holding(d)
        BY <2>7 DEF LockExpire, ResetSession, SessionExpire, Holding, Inside,
                    ChatAt, MsgOf, stream, memory
      <3>2. UNCHANGED <<copy, blind>>
        BY <2>7 DEF LockExpire, ResetSession, SessionExpire, memory, history
      <3>3. stolen \subseteq stolen'
        BY <2>7 DEF LockExpire, ResetSession, SessionExpire, LoseKey, history
      <3>4. session' = session \/ session' = [session EXCEPT ![c] = {}]
        BY <2>7 DEF LockExpire, ResetSession, SessionExpire
      <3> QED
        BY <3>1, <3>2, <3>3, <3>4 DEF CopyInv, TypeOK
    <2> QED
      BY <2>1, <2>2, <2>3, <2>4, <2>5, <2>6, <2>7, SessionSteps
  <1> QED
    BY <1>1, <1>2, TypeCorrect, LockExcludes, PTL DEF Spec

\* No step overwrites a saved turn, unless the lock of the conversation was
\* lost or a worker inside could not load the session.
THEOREM NoTurnOverwritten == Spec => TurnsSurvive
  <1> DEFINE Survives == \A c \in Chats : \/ session[c] \subseteq session'[c]
                                          \/ session'[c] = {}
                                          \/ c \in stolen
                                          \/ blind \cap Inside(c) # {}
  <1>1. TypeOK /\ CopyInv /\ [Next]_vars => [Survives]_vars
    <2> SUFFICES ASSUME TypeOK, CopyInv, [Next]_vars
                 PROVE  Survives
      OBVIOUS
    <2> USE ConsumerAssumption
    <2>1. CASE UNCHANGED session
      BY <2>1
    <2>2. ASSUME NEW w \in Workers, SaveSession(w)
          PROVE  Survives
      <3> DEFINE k == ChatAt(w)
      <3>1. k \in Chats /\ w \in Inside(k) /\ w \in Holding(k)
        BY <2>2, EntryType DEF SaveSession, Inside, Holding, Locked
      <3>2. session' = [session EXCEPT ![k] = copy[w]]
        BY <2>2 DEF SaveSession
      <3>3. k \notin stolen /\ w \notin blind => session[k] \subseteq copy[w]
        BY <3>1 DEF CopyInv
      <3> HIDE DEF k
      <3> QED
        BY <3>1, <3>2, <3>3 DEF TypeOK
    <2>3. ASSUME NEW c \in Chats, ResetSession(c) \/ SessionExpire(c)
          PROVE  Survives
      <3>1. session' = [session EXCEPT ![c] = {}]
        BY <2>3 DEF ResetSession, SessionExpire
      <3> QED
        BY <3>1 DEF TypeOK
    <2>4. \/ UNCHANGED session
          \/ \E w \in Workers : SaveSession(w)
          \/ \E c \in Chats : ResetSession(c) \/ SessionExpire(c)
      <3>1. CASE \E w \in Workers : LoadSession(w) \/ LoadFails(w) \/ Execute(w)
        BY <3>1 DEF LoadSession, LoadFails, Execute, redis
      <3>2. CASE \E w \in Workers : ReleaseLock(w) \/ Crash(w)
        BY <3>2 DEF ReleaseLock, Crash, redis
      <3>3. CASE \E c \in Chats : LockExpire(c)
        BY <3>3 DEF LockExpire
      <3> QED
        BY <3>1, <3>2, <3>3, SessionSteps
    <2> QED
      BY <2>1, <2>2, <2>3, <2>4
  <1> QED
    BY <1>1, TypeCorrect, CopyIsFresh, PTL DEF Spec, TurnsSurvive

-----------------------------------------------------------------------------
(* No message is lost *)

\* An entry newer than n still carries message m.
Pending(m, n) == \E e \in 1..last : n < e /\ msgOf[e] = m /\ Live(e)

\* Idempotency keys and the steps after the executor vouch for a run.
RanInv ==
    /\ \A e \in processed : Handled(msgOf[e])
    /\ \A w \in Workers : pc[w] \in {"save", "release", "mark"} => Handled(MsgOf(w))

\* What a worker is about to acknowledge was handled or given up, or has been
\* added to the stream again.
AckInv ==
    \A w \in Workers :
        pc[w] = "ack" => \/ Handled(MsgOf(w)) \/ MsgOf(w) \in dropped
                         \/ Pending(MsgOf(w), cur[w])

\* The stream and the histories only grow, new entries are yet to be
\* delivered, and only XACK takes an entry out of delivery.
LEMMA StreamSteps ==
    ASSUME TypeOK, [Next]_vars
    PROVE  /\ last <= last' /\ \A e \in 1..last : msgOf'[e] = msgOf[e]
           /\ \A m \in Msgs : Handled(m) => Handled(m)'
           /\ dropped \subseteq dropped'
           /\ \A e \in (last + 1)..last' : Live(e)'
           /\ \/ \A e \in 1..last : Live(e) => Live(e)'
              \/ \E w \in Workers :
                    Ack(w) /\ \A e \in 1..last : Live(e) => Live(e)' \/ e = cur[w]
  <1> DEFINE Grows == /\ last <= last' /\ \A e \in 1..last : msgOf'[e] = msgOf[e]
                      /\ \A m \in Msgs : Handled(m) => Handled(m)'
                      /\ dropped \subseteq dropped'
                      /\ \A e \in (last + 1)..last' : Live(e)'
             Keeps == \A e \in 1..last : Live(e) => Live(e)'
  <1> USE ConsumerAssumption DEF TypeOK, Ids, Handled, Live, stream, history
  <1>1. ASSUME NEW m \in Msgs, Publish(m)
        PROVE  Grows /\ Keeps
    BY <1>1 DEF Publish, Add
  <1>2. ASSUME NEW w \in Workers, ReadGroup(w) \/ ReadGroupFails(w)
        PROVE  Grows /\ Keeps
    <2>1. /\ delivered' = delivered + Readable
          /\ pel' = pel \cup (delivered + 1)..(delivered + Readable)
          /\ UNCHANGED <<msgOf, last, runs, dropped>>
      BY <1>2 DEF ReadGroup, ReadGroupFails, Deliver
    <2>2. Readable \in 0..(last - delivered)
      BY DEF Readable
    <2> QED
      BY <2>1, <2>2
  <1>3. ASSUME NEW w \in Workers, Requeue(w)
        PROVE  Grows /\ Keeps
    BY <1>3 DEF Requeue, Add
  <1>4. ASSUME NEW w \in Workers, Execute(w) \/ ExecuteRaises(w)
        PROVE  Grows /\ Keeps
    <2>1. runs' = [runs EXCEPT ![MsgOf(w)] = @ + 1]
      BY <1>4 DEF Execute, ExecuteRaises
    <2>2. \A m \in Msgs : runs'[m] \in Nat /\ runs'[m] >= runs[m]
      BY <2>1
    <2>3. UNCHANGED <<stream, dropped>>
      BY <1>4 DEF Execute, ExecuteRaises
    <2> QED
      BY <2>2, <2>3
  <1>5. ASSUME NEW w \in Workers, GiveUp(w) \/ OverRate(w) \/ RequeueFails(w)
        PROVE  Grows /\ Keeps
    BY <1>5 DEF GiveUp, OverRate, RequeueFails
  <1>6. ASSUME NEW w \in Workers, Ack(w)
        PROVE  Grows /\ \A e \in 1..last : Live(e) => Live(e)' \/ e = cur[w]
    BY <1>6 DEF Ack
  <1>7. ASSUME NEW w \in Workers,
               \/ Sweep(w) \/ TokenRaises(w) \/ SkipProcessed(w) \/ NotProcessed(w)
               \/ WithinRate(w) \/ AcquireLock(w) \/ LockBusy(w) \/ AcquireRaises(w)
        PROVE  Grows /\ Keeps
    BY <1>7 DEF Sweep, TokenRaises, SkipProcessed, NotProcessed,
                WithinRate, AcquireLock, LockBusy, AcquireRaises
  <1>8. ASSUME NEW w \in Workers,
               \/ LoadSession(w) \/ LoadFails(w) \/ SaveSession(w) \/ SaveFails(w)
               \/ ReleaseLock(w) \/ MarkProcessed(w) \/ Crash(w)
        PROVE  Grows /\ Keeps
    BY <1>8 DEF LoadSession, LoadFails, SaveSession, SaveFails,
                ReleaseLock, MarkProcessed, Crash
  <1>9. ASSUME NEW c \in Chats, LockExpire(c) \/ SessionExpire(c) \/ ResetSession(c)
        PROVE  Grows /\ Keeps
    BY <1>9 DEF LockExpire, SessionExpire, ResetSession
  <1>10. CASE RollMinute \/ (\E e \in Ids : KeyExpire(e)) \/ UNCHANGED vars
    BY <1>10 DEF RollMinute, KeyExpire, vars
  <1> HIDE DEF Grows, Keeps
  <1>11. CASE \E w \in Workers : Step(w)
    <2>1. PICK w \in Workers : Step(w)
      BY <1>11
    <2>2. CASE Ack(w)
      BY <2>2, <1>6 DEF Grows
    <2>3. CASE ~Ack(w)
      BY <2>1, <2>3, <1>2, <1>3, <1>4, <1>5, <1>7, <1>8 DEF Step, Grows, Keeps
    <2> QED
      BY <2>2, <2>3
  <1>12. CASE Environment
    BY <1>12, <1>1, <1>8, <1>9, <1>10 DEF Environment, Grows, Keeps
  <1> QED
    BY <1>10, <1>11, <1>12 DEF Next, Grows, Keeps

\* A step brings no worker to a later step of _process and marks no entry, or
\* it is one of those that do.
LEMMA ProcessSteps ==
    ASSUME TypeOK, [Next]_vars
    PROVE  \/ /\ processed' \subseteq processed
              /\ \A w \in Workers :
                    pc'[w] \in {"save", "release", "mark", "ack"} =>
                        pc'[w] = pc[w] /\ cur'[w] = cur[w]
           \/ \E w \in Workers :
                 \/ GiveUp(w) \/ SkipProcessed(w) \/ OverRate(w)
                 \/ Requeue(w) \/ RequeueFails(w)
                 \/ Execute(w) \/ ExecuteRaises(w) \/ SaveSession(w) \/ SaveFails(w)
                 \/ ReleaseLock(w) \/ MarkProcessed(w)
  <1> DEFINE Still == /\ processed' \subseteq processed
                      /\ \A w \in Workers :
                            pc'[w] \in {"save", "release", "mark", "ack"} =>
                                pc'[w] = pc[w] /\ cur'[w] = cur[w]
  <1> USE DEF TypeOK, redis, memory
  <1>1. ASSUME NEW m \in Msgs, Publish(m)
        PROVE  Still
    BY <1>1 DEF Publish
  <1>2. ASSUME NEW w \in Workers, ReadGroup(w) \/ ReadGroupFails(w) \/ Sweep(w)
        PROVE  Still
    BY <1>2 DEF ReadGroup, ReadGroupFails, Sweep
  <1>3. ASSUME NEW w \in Workers, TokenRaises(w) \/ AcquireRaises(w) \/ Crash(w)
        PROVE  Still
    BY <1>3 DEF TokenRaises, AcquireRaises, Crash, Abandon
  <1>4. ASSUME NEW w \in Workers, NotProcessed(w) \/ WithinRate(w)
        PROVE  Still
    BY <1>4 DEF NotProcessed, WithinRate, Take, Goto
  <1>5. ASSUME NEW w \in Workers, AcquireLock(w) \/ LockBusy(w)
        PROVE  Still
    BY <1>5 DEF AcquireLock, LockBusy, Goto
  <1>6. ASSUME NEW w \in Workers, LoadSession(w) \/ LoadFails(w)
        PROVE  Still
    BY <1>6 DEF LoadSession, LoadFails, Goto
  <1>7. ASSUME NEW w \in Workers, Ack(w)
        PROVE  Still
    BY <1>7 DEF Ack
  <1>8. ASSUME NEW c \in Chats, LockExpire(c) \/ SessionExpire(c) \/ ResetSession(c)
        PROVE  Still
    BY <1>8 DEF LockExpire, SessionExpire, ResetSession
  <1>9. CASE RollMinute \/ (\E e \in Ids : KeyExpire(e)) \/ UNCHANGED vars
    BY <1>9 DEF RollMinute, KeyExpire, vars
  <1> HIDE DEF Still
  <1>10. CASE Environment
    BY <1>10, <1>1, <1>3, <1>8, <1>9 DEF Environment, Still
  <1>11. CASE \E w \in Workers : Step(w)
    BY <1>11, <1>2, <1>3, <1>4, <1>5, <1>6, <1>7 DEF Step, Still
  <1> QED
    BY <1>9, <1>10, <1>11 DEF Next, Still

\* Keys, finished runs and acknowledgements are backed by what became of the
\* message, and a published message is backed by a live entry until then.
NoLossInv == RanInv /\ AckInv /\ NoSilentLoss

\* Where a worker has come from backs what it is about to acknowledge.
LEMMA NothingUnbacked == Spec => []NoLossInv
  <1>1. Init => NoLossInv
    BY ConsumerAssumption DEF Init, NoLossInv, RanInv, AckInv, NoSilentLoss, Published
  <1>2. TypeOK /\ TypeOK' /\ NoLossInv /\ [Next]_vars => NoLossInv'
    <2> SUFFICES ASSUME TypeOK, TypeOK', NoLossInv, [Next]_vars
                 PROVE  NoLossInv'
      OBVIOUS
    <2> USE ConsumerAssumption
    <2>1. /\ last \in Nat /\ last' \in Nat /\ last <= last'
          /\ \A e \in 1..last : msgOf[e] \in Msgs /\ msgOf'[e] = msgOf[e]
          /\ \A m \in Msgs : Handled(m) => Handled(m)'
          /\ dropped \subseteq dropped'
          /\ \A e \in (last + 1)..last' : Live(e)'
      BY StreamSteps DEF TypeOK
    <2>2. ASSUME NEW m \in Msgs, NEW n \in Nat, Pending(m, n)
          PROVE  Pending(m, n)' \/ Handled(m) \/ m \in dropped
      <3>1. CASE \A e \in 1..last : Live(e) => Live(e)'
        BY <2>1, <2>2, <3>1 DEF Pending
      <3>2. ASSUME NEW w \in Workers, Ack(w),
                   \A e \in 1..last : Live(e) => Live(e)' \/ e = cur[w]
            PROVE  Pending(m, n)' \/ Handled(m) \/ m \in dropped
        <4>1. cur[w] \in 1..last
          BY <3>2, EntryType DEF Ack
        <4>2. MsgOf(w) = m => \/ Handled(m) \/ m \in dropped \/ Pending(m, cur[w])
          BY <3>2 DEF Ack, NoLossInv, AckInv
        <4>3. PICK e \in 1..last : n < e /\ msgOf[e] = m /\ Live(e)
          BY <2>2 DEF Pending
        <4>4. CASE e # cur[w]
          BY <2>1, <3>2, <4>3, <4>4 DEF Pending
        <4>5. CASE e = cur[w] /\ Pending(m, cur[w])
          <5>1. PICK f \in 1..last : cur[w] < f /\ msgOf[f] = m /\ Live(f)
            BY <4>5 DEF Pending
          <5>2. f # cur[w] /\ n < f
            BY <2>1, <4>1, <4>3, <4>5, <5>1
          <5> QED
            BY <2>1, <3>2, <5>1, <5>2 DEF Pending
        <4> QED
          BY <4>2, <4>3, <4>4, <4>5 DEF MsgOf
      <3> QED
        BY <3>1, <3>2, StreamSteps
    <2>3. NoSilentLoss'
      <3> SUFFICES ASSUME NEW m \in Msgs, Published(m)'
                   PROVE  Handled(m)' \/ m \in dropped' \/ Pending(m, 0)'
        BY DEF NoSilentLoss, Pending
      <3>1. CASE Published(m)
        <4>1. Handled(m) \/ m \in dropped \/ Pending(m, 0)
          BY <2>1, <3>1 DEF NoLossInv, NoSilentLoss, Pending
        <4> QED
          BY <2>1, <2>2, <4>1
      <3>2. CASE ~Published(m)
        <4>1. PICK e \in 1..last' : msgOf'[e] = m
          BY DEF Published
        <4>2. e \in (last + 1)..last'
          BY <2>1, <3>2, <4>1 DEF Published
        <4> QED
          BY <2>1, <4>1, <4>2 DEF Pending
      <3> QED
        BY <3>1, <3>2
    <2> DEFINE Backed(v) ==
                  /\ pc[v] \in {"save", "release", "mark"} => Handled(MsgOf(v))
                  /\ pc[v] = "ack" => \/ Handled(MsgOf(v)) \/ MsgOf(v) \in dropped
                                      \/ Pending(MsgOf(v), cur[v])
    <2>4. ASSUME NEW v \in Workers, pc'[v] = pc[v], cur'[v] = cur[v]
          PROVE  Backed(v)'
      <3>1. CASE pc[v] \in {"save", "release", "mark", "ack"}
        <4>1. cur[v] \in 1..last /\ cur[v] \in Nat /\ MsgOf(v) \in Msgs
          BY <2>1, <3>1, EntryType
        <4>2. MsgOf(v)' = MsgOf(v)
          BY <2>1, <2>4, <4>1 DEF MsgOf
        <4>3. Backed(v)
          BY DEF NoLossInv, RanInv, AckInv
        <4> QED
          BY <2>1, <2>2, <2>4, <4>1, <4>2, <4>3
      <3> QED
        BY <2>4, <3>1
    <2>5. ASSUME NEW e \in processed
          PROVE  Handled(msgOf[e])'
      <3>1. e \in 1..last
        BY DEF TypeOK
      <3> QED
        BY <2>1, <3>1 DEF NoLossInv, RanInv, Handled
    <2>6. ASSUME processed' \subseteq processed, \A v \in Workers : Backed(v)'
          PROVE  NoLossInv'
      BY <2>3, <2>5, <2>6 DEF NoLossInv, RanInv, AckInv, Handled
    <2>7. CASE /\ processed' \subseteq processed
               /\ \A w \in Workers :
                     pc'[w] \in {"save", "release", "mark", "ack"} =>
                         pc'[w] = pc[w] /\ cur'[w] = cur[w]
      <3>1. ASSUME NEW v \in Workers
            PROVE  Backed(v)'
        BY <2>4, <2>7
      <3> HIDE DEF Backed
      <3> QED
        BY <2>6, <2>7, <3>1
    <2>8. ASSUME NEW w \in Workers,
                 \A v \in Workers \ {w} : pc'[v] = pc[v] /\ cur'[v] = cur[v],
                 processed' = processed, Backed(w)'
          PROVE  NoLossInv'
      <3>1. ASSUME NEW v \in Workers
            PROVE  Backed(v)'
        BY <2>4, <2>8
      <3> HIDE DEF Backed
      <3> QED
        BY <2>6, <2>8, <3>1
    <2>9. ASSUME NEW w \in Workers, GiveUp(w) \/ SkipProcessed(w)
          PROVE  NoLossInv'
      <3>1. PICK e \in batch[w] :
               /\ pc' = [pc EXCEPT ![w] = "ack"] /\ cur' = [cur EXCEPT ![w] = e]
               /\ msgOf[e] \in dropped' \/ e \in processed
        BY <2>9 DEF GiveUp, SkipProcessed, Take
      <3>2. processed' = processed
        BY <2>9 DEF GiveUp, SkipProcessed, redis
      <3>3. e \in 1..last
        BY <2>1 DEF TypeOK
      <3>4. pc'[w] = "ack" /\ MsgOf(w)' = msgOf[e]
        BY <2>1, <3>1, <3>3 DEF MsgOf, TypeOK
      <3>5. Backed(w)'
        BY <2>1, <2>5, <3>1, <3>3, <3>4 DEF Handled, MsgOf, TypeOK
      <3> QED
        BY <2>8, <3>1, <3>2, <3>5 DEF TypeOK
    <2>10. ASSUME NEW w \in Workers, OverRate(w) \/ RequeueFails(w)
           PROVE  NoLossInv'
      <3>1. /\ pc' = [pc EXCEPT ![w] = "ack"] /\ cur' = cur /\ processed' = processed
            /\ pc[w] # "next" /\ MsgOf(w) \in dropped' /\ msgOf' = msgOf
        BY <2>10 DEF OverRate, RequeueFails, Goto, redis, stream
      <3>2. pc'[w] = "ack" /\ MsgOf(w)' = MsgOf(w)
        BY <3>1 DEF MsgOf, TypeOK
      <3>3. Backed(w)'
        BY <3>1, <3>2
      <3> QED
        BY <2>8, <3>1, <3>3 DEF TypeOK
    <2>11. ASSUME NEW w \in Workers, Requeue(w)
           PROVE  NoLossInv'
      <3>1. /\ pc' = [pc EXCEPT ![w] = "ack"] /\ cur' = cur /\ processed' = processed
            /\ pc[w] # "next" /\ last' = last + 1 /\ last + 1 \in Ids
            /\ msgOf' = [msgOf EXCEPT ![last + 1] = MsgOf(w)]
        BY <2>1, <2>11 DEF Requeue, Goto, Add, redis, Ids, TypeOK
      <3>2. cur[w] \in 1..last
        BY <3>1, EntryType
      <3>3. pc'[w] = "ack" /\ MsgOf(w)' = MsgOf(w) /\ msgOf'[last + 1] = MsgOf(w)
        BY <2>1, <3>1, <3>2 DEF MsgOf, TypeOK
      <3>4. \E f \in 1..last' : f = last + 1 /\ Live(f)'
        BY <2>1, <3>1
      <3>5. Pending(MsgOf(w), cur[w])'
        BY <2>1, <3>1, <3>2, <3>3, <3>4 DEF Pending
      <3>6. Backed(w)'
        BY <3>3, <3>5
      <3> QED
        BY <2>8, <3>1, <3>6 DEF TypeOK
    <2>12. ASSUME NEW w \in Workers, Execute(w) \/ ExecuteRaises(w)
           PROVE  NoLossInv'
      <3>1. /\ pc' = [pc EXCEPT ![w] = pc'[w]] /\ pc'[w] \in {"save", "release"}
            /\ cur' = cur /\ processed' = processed /\ pc[w] # "next" /\ msgOf' = msgOf
            /\ runs' = [runs EXCEPT ![MsgOf(w)] = @ + 1]
        BY <2>12 DEF Execute, ExecuteRaises, Goto, redis, stream, TypeOK
      <3>2. MsgOf(w) \in Msgs /\ MsgOf(w)' = MsgOf(w)
        BY <3>1, EntryType DEF MsgOf
      <3>3. Handled(MsgOf(w))'
        BY <3>1, <3>2 DEF Handled, TypeOK
      <3>4. Backed(w)'
        BY <3>1, <3>3
      <3> QED
        BY <2>8, <3>1, <3>4 DEF TypeOK
    <2>13. ASSUME NEW w \in Workers, SaveSession(w) \/ SaveFails(w) \/ ReleaseLock(w)
           PROVE  NoLossInv'
      <3>1. /\ pc' = [pc EXCEPT ![w] = pc'[w]] /\ pc'[w] \in {"release", "mark"}
            /\ cur' = cur /\ processed' = processed /\ msgOf' = msgOf
            /\ pc[w] \in {"save", "release"}
        BY <2>13 DEF SaveSession, SaveFails, ReleaseLock, Goto, redis, stream, TypeOK
      <3>2. Handled(MsgOf(w)) /\ MsgOf(w) \in Msgs /\ MsgOf(w)' = MsgOf(w)
        BY <3>1, EntryType DEF MsgOf, NoLossInv, RanInv
      <3>3. Handled(MsgOf(w))'
        BY <2>1, <3>2 DEF Handled
      <3>4. Backed(w)'
        BY <3>1, <3>3
      <3> QED
        BY <2>8, <3>1, <3>4 DEF TypeOK
    <2>14. ASSUME NEW w \in Workers, MarkProcessed(w)
           PROVE  NoLossInv'
      <3>1. /\ pc' = [pc EXCEPT ![w] = "ack"] /\ cur' = cur /\ msgOf' = msgOf
            /\ processed' \subseteq processed \cup {cur[w]} /\ pc[w] = "mark"
        BY <2>14 DEF MarkProcessed, Goto, stream
      <3>2. Handled(MsgOf(w)) /\ MsgOf(w) \in Msgs /\ MsgOf(w)' = MsgOf(w)
        BY <3>1, EntryType DEF MsgOf, NoLossInv, RanInv
      <3>3. Handled(MsgOf(w))'
        BY <2>1, <3>2 DEF Handled
      <3>4. \A e \in processed' : Handled(msgOf[e])'
        BY <2>5, <3>1, <3>2, <3>3 DEF MsgOf, Handled
      <3>5. ASSUME NEW v \in Workers
            PROVE  Backed(v)'
        <4>1. CASE v = w
          BY <3>1, <3>3, <4>1 DEF TypeOK
        <4>2. CASE v # w
          BY <2>4, <3>1, <4>2 DEF TypeOK
        <4> QED
          BY <4>1, <4>2
      <3> QED
        BY <2>3, <3>1, <3>4, <3>5 DEF NoLossInv, RanInv, AckInv, Handled
    <2> HIDE DEF Backed
    <2> QED
      BY <2>7, <2>9, <2>10, <2>11, <2>12, <2>13, <2>14, ProcessSteps
  <1> QED
    BY <1>1, <1>2, TypeCorrect, PTL DEF Spec

\* A published message is in delivery until the executor ran for it or
\* _process gave it up.
THEOREM NothingLostSilently == Spec => []NoSilentLoss
  <1>1. NoLossInv => NoSilentLoss
    BY DEF NoLossInv
  <1> QED
    BY <1>1, NothingUnbacked, PTL

-----------------------------------------------------------------------------
(* One run per delivery *)

\* The steps from which the entry may yet come to the executor or be added again.
Owing == {"rate", "lock", "requeue", "load", "execute"}

\* Entry e may yet make worker v run its message; v = None: once it is delivered.
Holds(v, e) ==
    IF v = None THEN e > delivered
                ELSE e \in batch[v] \/ (e = cur[v] /\ pc[v] \in Owing)

\* The runs of m that may yet come of what is in the stream and in memory.
Owed(m) ==
    {h \in (Workers \cup {None}) \X (1..last) : msgOf[h[2]] = m /\ Holds(h[1], h[2])}

\* Who processes an entry has taken it out of the batch.
HandInv == \A w \in Workers : cur[w] \notin batch[w]

\* Runs that were and runs that may come are paid for by publishing and claims.
PaidInv ==
    /\ HandInv
    /\ \A m \in Msgs : ~Published(m) => runs[m] = 0
    /\ \A m \in Msgs : IsFiniteSet(Owed(m)) /\ runs[m] + Cardinality(Owed(m)) <= 1 + claims[m]

\* Nothing new is owed, and nothing is run or claimed.
Quiet ==
    /\ UNCHANGED <<msgOf, last, runs, claims>>
    /\ \A v \in Workers \cup {None}, e \in 1..last : Holds(v, e)' => Holds(v, e)

\* A step owes no more than before unless it publishes, reads, claims or
\* re-enqueues, and only the executor runs a message.
LEMMA QuietSteps ==
    ASSUME TypeOK, TypeOK', HandInv, [Next]_vars
    PROVE  /\ HandInv'
           /\ \/ Quiet
              \/ \E m \in Msgs : Publish(m)
              \/ \E w \in Workers : \/ ReadGroup(w) \/ Sweep(w) \/ Requeue(w)
                                    \/ Execute(w) \/ ExecuteRaises(w)
  <1> DEFINE Good == HandInv' /\ Quiet
  <1> USE ConsumerAssumption
      DEF TypeOK, HandInv, Quiet, Holds, Owing, stream, redis, memory, history, Ids
  <1>1. ASSUME NEW m \in Msgs, Publish(m)
        PROVE  HandInv'
    BY <1>1 DEF Publish
  <1>2. ASSUME NEW w \in Workers, ReadGroup(w) \/ Sweep(w)
        PROVE  HandInv'
    <2>1. cur' = cur /\ cur[w] = None
      BY <1>2 DEF ReadGroup, Sweep
    <2>2. batch' = [batch EXCEPT ![w] = batch'[w]]
      BY <1>2 DEF ReadGroup, Sweep
    <2>3. None \notin batch'[w]
      OBVIOUS
    <2> QED
      BY <2>1, <2>2, <2>3
  <1>3. ASSUME NEW w \in Workers, Requeue(w) \/ Execute(w) \/ ExecuteRaises(w)
        PROVE  HandInv'
    BY <1>3 DEF Requeue, Execute, ExecuteRaises, Goto
  <1>4. ASSUME NEW w \in Workers, ReadGroupFails(w)
        PROVE  Good
    BY <1>4 DEF ReadGroupFails, Deliver, Readable
  <1>5. ASSUME NEW w \in Workers, GiveUp(w) \/ SkipProcessed(w) \/ NotProcessed(w)
        PROVE  Good
    <2>1. PICK e \in batch[w], s \in {"ack", "rate"} : Take(w, e, s)
      BY <1>5 DEF GiveUp, SkipProcessed, NotProcessed
    <2>2. UNCHANGED <<msgOf, last, delivered, runs, claims>>
      BY <1>5 DEF GiveUp, SkipProcessed, NotProcessed
    <2> QED
      BY <2>1, <2>2 DEF Take
  <1>6. ASSUME NEW w \in Workers, TokenRaises(w) \/ AcquireRaises(w) \/ Crash(w)
        PROVE  Good
    <2>1. Abandon(w) /\ UNCHANGED <<msgOf, last, delivered, runs, claims>>
      BY <1>6 DEF TokenRaises, AcquireRaises, Crash
    <2> QED
      BY <2>1 DEF Abandon
  <1>7. ASSUME NEW w \in Workers, WithinRate(w) \/ AcquireLock(w) \/ LockBusy(w)
        PROVE  Good
    BY <1>7 DEF WithinRate, AcquireLock, LockBusy, Goto
  <1>8. ASSUME NEW w \in Workers,
               OverRate(w) \/ RequeueFails(w) \/ LoadSession(w) \/ LoadFails(w)
        PROVE  Good
    BY <1>8 DEF OverRate, RequeueFails, LoadSession, LoadFails, Goto
  <1>9. ASSUME NEW w \in Workers,
               SaveSession(w) \/ SaveFails(w) \/ ReleaseLock(w) \/ MarkProcessed(w)
        PROVE  Good
    BY <1>9 DEF SaveSession, SaveFails, ReleaseLock, MarkProcessed, Goto
  <1>10. ASSUME NEW w \in Workers, Ack(w)
         PROVE  Good
    BY <1>10 DEF Ack
  <1>11. ASSUME NEW c \in Chats, LockExpire(c) \/ SessionExpire(c) \/ ResetSession(c)
         PROVE  Good
    BY <1>11 DEF LockExpire, SessionExpire, ResetSession
  <1>12. CASE RollMinute \/ (\E e \in Ids : KeyExpire(e)) \/ UNCHANGED vars
    BY <1>12 DEF RollMinute, KeyExpire, vars
  <1> HIDE DEF HandInv, Quiet
  <1>13. CASE Environment
    BY <1>13, <1>1, <1>6, <1>11, <1>12 DEF Environment
  <1>14. CASE \E w \in Workers : Step(w)
    BY <1>14, <1>2, <1>3, <1>4, <1>5, <1>6, <1>7, <1>8, <1>9, <1>10 DEF Step
  <1> QED
    BY <1>12, <1>13, <1>14 DEF Next

\* Owing at most one thing more, or one thing in place of another.
LEMMA OneMore ==
    ASSUME NEW S, IsFiniteSet(S), NEW T, NEW x, T \subseteq S \cup {x}
    PROVE  IsFiniteSet(T) /\ Cardinality(T) <= Cardinality(S) + 1
  <1>1. IsFiniteSet(S \cup {x}) /\ Cardinality(S \cup {x}) <= Cardinality(S) + 1
    <2>1. Cardinality(S) \in Nat
      BY FS_CardinalityType
    <2>2. /\ IsFiniteSet(S \cup {x})
          /\ \/ Cardinality(S \cup {x}) = Cardinality(S)
             \/ Cardinality(S \cup {x}) = Cardinality(S) + 1
      BY FS_AddElement
    <2> QED
      BY <2>1, <2>2
  <1>2. IsFiniteSet(T) /\ Cardinality(T) <= Cardinality(S \cup {x})
    BY <1>1, FS_Subset
  <1> QED
    BY <1>1, <1>2, FS_CardinalityType

LEMMA OneLess ==
    ASSUME NEW S, IsFiniteSet(S), NEW x \in S, NEW T, T \subseteq S \ {x}
    PROVE  IsFiniteSet(T) /\ Cardinality(T) <= Cardinality(S) - 1
  <1>1. IsFiniteSet(S \ {x}) /\ Cardinality(S \ {x}) = Cardinality(S) - 1
    BY FS_RemoveElement
  <1> QED
    BY <1>1, FS_Subset

\* What a claim of the entries P adds for worker w is as many things as entries.
LEMMA Claimed ==
    ASSUME NEW S, IsFiniteSet(S), NEW P, IsFiniteSet(P), NEW w,
           NEW T, T \subseteq S \cup ({w} \X P)
    PROVE  IsFiniteSet(T) /\ Cardinality(T) <= Cardinality(S) + Cardinality(P)
  <1>1. IsFiniteSet({w}) /\ Cardinality({w}) = 1
    BY FS_Singleton
  <1>2. IsFiniteSet({w} \X P) /\ Cardinality({w} \X P) = 1 * Cardinality(P)
    BY <1>1, FS_Product
  <1>3. /\ IsFiniteSet(S \cup ({w} \X P))
        /\ Cardinality(S \cup ({w} \X P))
             = Cardinality(S) + Cardinality({w} \X P) - Cardinality(S \cap ({w} \X P))
    BY <1>2, FS_Union
  <1>4. Cardinality(S \cap ({w} \X P)) \in Nat
    BY FS_Intersection, FS_CardinalityType
  <1>5. Cardinality(S) \in Nat /\ Cardinality(P) \in Nat
    BY FS_CardinalityType
  <1>6. IsFiniteSet(T) /\ Cardinality(T) <= Cardinality(S \cup ({w} \X P))
    BY <1>3, FS_Subset
  <1>7. Cardinality({w} \X P) = Cardinality(P)
    BY <1>2, <1>5
  <1>8. Cardinality(T) \in Nat
    BY <1>6, FS_CardinalityType
  <1> QED
    BY <1>3, <1>4, <1>5, <1>6, <1>7, <1>8

\* Every run, and every run that may come, is paid for.
LEMMA RunsArePaid == Spec => []PaidInv
  <1>1. Init => PaidInv
    <2> SUFFICES ASSUME Init
                 PROVE  PaidInv
      OBVIOUS
    <2>1. HandInv
      BY DEF Init, HandInv
    <2>2. ASSUME NEW m \in Msgs
          PROVE  Owed(m) = {}
      BY DEF Init, Owed
    <2>3. IsFiniteSet({}) /\ Cardinality({}) = 0
      BY FS_EmptySet
    <2>4. ASSUME NEW m \in Msgs
          PROVE  /\ runs[m] = 0
                 /\ IsFiniteSet(Owed(m)) /\ runs[m] + Cardinality(Owed(m)) <= 1 + claims[m]
      <3>1. runs[m] = 0 /\ claims[m] = 0
        BY DEF Init
      <3>2. IsFiniteSet(Owed(m)) /\ Cardinality(Owed(m)) = 0
        BY <2>2, <2>3
      <3> QED
        BY <3>1, <3>2
    <2> QED
      BY <2>1, <2>4 DEF PaidInv
  <1>2. TypeOK /\ TypeOK' /\ PaidInv /\ [Next]_vars => PaidInv'
    <2> SUFFICES ASSUME TypeOK, TypeOK', PaidInv, [Next]_vars
                 PROVE  PaidInv'
      OBVIOUS
    <2> DEFINE Paid(m) ==
                 IsFiniteSet(Owed(m)) /\ runs[m] + Cardinality(Owed(m)) <= 1 + claims[m]
               Fresh(m) == ~Published(m) => runs[m] = 0
    <2> USE ConsumerAssumption
    <2>1. HandInv /\ HandInv'
      BY QuietSteps DEF PaidInv
    <2>2. SUFFICES ASSUME NEW m \in Msgs
                   PROVE  Fresh(m)' /\ Paid(m)'
      BY <2>1 DEF PaidInv
    <2>3. Fresh(m) /\ IsFiniteSet(Owed(m)) /\ runs[m] + Cardinality(Owed(m)) <= 1 + claims[m]
      BY DEF PaidInv
    <2>4. /\ runs[m] \in Nat /\ claims[m] \in Nat /\ Cardinality(Owed(m)) \in Nat
          /\ runs'[m] \in Nat /\ claims'[m] \in Nat /\ last \in Nat
      BY <2>3, FS_CardinalityType DEF TypeOK
    <2>5. CASE Quiet
      <3>1. Owed(m)' \subseteq Owed(m)
        BY <2>5 DEF Quiet, Owed
      <3>2. IsFiniteSet(Owed(m)') /\ Cardinality(Owed(m)') <= Cardinality(Owed(m))
        BY <2>3, <3>1, FS_Subset
      <3>3. runs'[m] = runs[m] /\ claims'[m] = claims[m] /\ (Published(m)' <=> Published(m))
        BY <2>5 DEF Quiet, Published
      <3>4. Cardinality(Owed(m)') \in Nat
        BY <3>2, FS_CardinalityType
      <3> QED
        BY <2>3, <2>4, <3>2, <3>3, <3>4
    <2>6. ASSUME NEW n \in Msgs, Publish(n)
          PROVE  Fresh(m)' /\ Paid(m)'
      <3>1. /\ last' = last + 1 /\ msgOf' = [msgOf EXCEPT ![last + 1] = n]
            /\ UNCHANGED <<delivered, batch, cur, pc, runs, claims>>
            /\ last + 1 \in Ids /\ ~Published(n)
        BY <2>6 DEF Publish, Add, redis, memory, history, TypeOK, Ids
      <3>2. \A e \in 1..last : msgOf'[e] = msgOf[e]
        BY <3>1 DEF TypeOK
      <3>3. msgOf'[last + 1] = n
        BY <3>1 DEF TypeOK
      <3>4. \A v \in Workers \cup {None}, e \in 1..last : Holds(v, e)' = Holds(v, e)
        BY <3>1 DEF Holds
      <3>5. CASE n = m
        <4>1. Owed(m) = {} /\ runs[m] = 0
          BY <2>3, <3>1, <3>5 DEF Owed, Published
        <4>2. \A e \in 1..last : msgOf[e] # m
          BY <3>1, <3>5 DEF Published
        <4>3. \A v \in Workers, e \in Ids : e = last + 1 => ~Holds(v, e)'
          BY <3>1, <2>4 DEF Holds, TypeOK
        <4>4. Owed(m)' \subseteq {} \cup {<<None, last + 1>>}
          <5>1. SUFFICES ASSUME NEW v \in Workers \cup {None}, NEW e \in 1..(last + 1),
                                msgOf'[e] = m, Holds(v, e)'
                         PROVE  <<v, e>> = <<None, last + 1>>
            BY <3>1 DEF Owed
          <5>2. e = last + 1
            BY <2>4, <3>2, <4>2, <5>1
          <5> QED
            BY <3>1, <4>3, <5>1, <5>2
        <4>5. IsFiniteSet(Owed(m)') /\ Cardinality(Owed(m)') <= 1
          <5>1. IsFiniteSet({}) /\ Cardinality({}) = 0
            BY FS_EmptySet
          <5>2. IsFiniteSet(Owed(m)') /\ Cardinality(Owed(m)') <= Cardinality({}) + 1
            BY <4>4, <5>1, OneMore
          <5> QED
            BY <5>1, <5>2
        <4>6. Published(m)'
          BY <3>1, <3>3, <3>5, <2>4 DEF Published
        <4>7. Cardinality(Owed(m)') \in Nat
          BY <4>5, FS_CardinalityType
        <4> QED
          BY <2>4, <3>1, <4>1, <4>5, <4>6, <4>7
      <3>6. CASE n # m
        <4>1. Owed(m)' \subseteq Owed(m)
          <5>1. SUFFICES ASSUME NEW v \in Workers \cup {None}, NEW e \in 1..(last + 1),
                                msgOf'[e] = m, Holds(v, e)'
                         PROVE  <<v, e>> \in Owed(m)
            BY <3>1 DEF Owed
          <5>2. e \in 1..last
            BY <2>4, <3>3, <3>6, <5>1
          <5> QED
            BY <3>2, <3>4, <5>1, <5>2 DEF Owed
        <4>2. IsFiniteSet(Owed(m)') /\ Cardinality(Owed(m)') <= Cardinality(Owed(m))
          BY <2>3, <4>1, FS_Subset
        <4>3. Published(m) => Published(m)'
          BY <2>4, <3>1, <3>2 DEF Published
        <4>4. Cardinality(Owed(m)') \in Nat
          BY <4>2, FS_CardinalityType
        <4> QED
          BY <2>3, <2>4, <3>1, <4>2, <4>3, <4>4
      <3> QED
        BY <3>5, <3>6
    <2>7. ASSUME NEW w \in Workers, ReadGroup(w)
          PROVE  Fresh(m)' /\ Paid(m)'
      <3>1. /\ UNCHANGED <<msgOf, last, pc, cur, runs, claims>>
            /\ batch' = [batch EXCEPT ![w] = (delivered + 1)..(delivered + Readable)]
            /\ delivered' = delivered + Readable /\ Readable \in Nat
            /\ batch[w] = {} /\ cur[w] = None
        BY <2>7 DEF ReadGroup, Deliver, Readable, redis, history, TypeOK
      <3>2. \A e \in 1..last : e # None /\ ~Holds(w, e)
        BY <3>1 DEF Holds, TypeOK
      <3>3. \A v \in Workers \ {w}, e \in 1..last : Holds(v, e)' => Holds(v, e)
        BY <3>1 DEF Holds, TypeOK
      <3>4. \A e \in 1..last : Holds(w, e)' => Holds(None, e) /\ ~Holds(None, e)'
        BY <3>1, <3>2 DEF Holds, TypeOK
      <3>5. \A e \in 1..last : Holds(None, e)' => Holds(None, e)
        BY <3>1 DEF Holds, TypeOK
      <3> DEFINE back == [h \in Owed(m)' |-> IF h[1] = w THEN <<None, h[2]>> ELSE h]
      <3>6. ASSUME NEW h \in Owed(m)'
            PROVE  /\ h = <<h[1], h[2]>> /\ h[1] \in Workers \cup {None}
                   /\ h[2] \in 1..last /\ msgOf[h[2]] = m /\ Holds(h[1], h[2])'
        BY <3>1 DEF Owed
      <3>7. ASSUME NEW h \in Owed(m)'
            PROVE  back[h] \in Owed(m)
        <4>1. CASE h[1] = w
          BY <3>4, <3>6, <4>1 DEF Owed
        <4>2. CASE h[1] # w
          BY <3>3, <3>5, <3>6, <4>2 DEF Owed
        <4> QED
          BY <4>1, <4>2
      <3>8. ASSUME NEW g \in Owed(m)', NEW h \in Owed(m)', back[g] = back[h]
            PROVE  g = h
        <4>1. ASSUME NEW i \in Owed(m)', NEW j \in Owed(m)', back[i] = back[j], i[1] = w
              PROVE  j[1] = w
          <5>1. SUFFICES ASSUME j[1] # w
                         PROVE  FALSE
            OBVIOUS
          <5>2. j = <<None, i[2]>>
            BY <4>1, <5>1
          <5>3. Holds(None, i[2])' /\ Holds(w, i[2])' /\ i[2] \in 1..last
            BY <3>6, <4>1, <5>2
          <5> QED
            BY <3>4, <5>3
        <4>2. CASE g[1] = w
          <5>1. h[1] = w
            BY <3>8, <4>1, <4>2
          <5>2. g[2] = h[2]
            BY <3>8, <4>2, <5>1
          <5> QED
            BY <3>6, <4>2, <5>1, <5>2
        <4>3. CASE g[1] # w
          <5>1. h[1] # w
            BY <3>8, <4>1, <4>3
          <5> QED
            BY <3>8, <4>3, <5>1
        <4> QED
          BY <4>2, <4>3
      <3>9. back \in Injection(Owed(m)', Owed(m))
        BY <3>7, <3>8 DEF Injection, IsInjective
      <3>10. IsFiniteSet(Owed(m)') /\ Cardinality(Owed(m)') <= Cardinality(Owed(m))
        BY <2>3, <3>9, FS_Injection
      <3>11. Published(m)' <=> Published(m)
        BY <3>1 DEF Published
      <3>12. Cardinality(Owed(m)') \in Nat
        BY <3>10, FS_CardinalityType
      <3> QED
        BY <2>3, <2>4, <3>1, <3>10, <3>11, <3>12
    <2>8. ASSUME NEW w \in Workers, Sweep(w)
          PROVE  Fresh(m)' /\ Paid(m)'
      <3>1. PICK S \in SUBSET pel :
              /\ batch' = [batch EXCEPT ![w] = S]
              /\ claims' = [k \in Msgs |->
                              claims[k] + Cardinality({e \in S : msgOf[e] = k})]
        BY <2>8 DEF Sweep
      <3>2. UNCHANGED <<msgOf, last, delivered, pc, cur, runs>> /\ cur[w] = None
        BY <2>8 DEF Sweep, stream, TypeOK
      <3> DEFINE P == {e \in S : msgOf[e] = m}
      <3>3. P \in SUBSET (1..last) /\ S \subseteq 1..last
        <4>1. 1..delivered \subseteq 1..last
          BY DEF TypeOK
        <4>2. S \subseteq 1..delivered
          BY DEF TypeOK
        <4> QED
          BY <4>1, <4>2
      <3>4. IsFiniteSet(P) /\ Cardinality(P) \in Nat
        <4>1. IsFiniteSet(1..last)
          BY <2>4, FS_Interval
        <4>2. IsFiniteSet(P)
          BY <3>3, <4>1, FS_Subset
        <4> QED
          BY <4>2, FS_CardinalityType
      <3>5. claims'[m] = claims[m] + Cardinality(P)
        BY <3>1
      <3>6. \A v \in (Workers \cup {None}) \ {w}, e \in 1..last : Holds(v, e)' => Holds(v, e)
        BY <3>1, <3>2 DEF Holds, TypeOK
      <3>7. \A e \in 1..last : Holds(w, e)' => e \in S
        BY <3>1, <3>2 DEF Holds, TypeOK
      <3>8. Owed(m)' \subseteq Owed(m) \cup ({w} \X P)
        <4>1. SUFFICES ASSUME NEW v \in Workers \cup {None}, NEW e \in 1..last,
                              msgOf[e] = m, Holds(v, e)'
                       PROVE  <<v, e>> \in Owed(m) \cup ({w} \X P)
          BY <3>2 DEF Owed
        <4>2. CASE v = w
          BY <3>7, <4>1, <4>2
        <4>3. CASE v # w
          BY <3>6, <4>1, <4>3 DEF Owed
        <4> QED
          BY <4>2, <4>3
      <3> HIDE DEF P
      <3>9. IsFiniteSet(Owed(m)') /\ Cardinality(Owed(m)') <= Cardinality(Owed(m)) + Cardinality(P)
        BY <2>3, <3>4, <3>8, Claimed
      <3>10. Published(m)' <=> Published(m)
        BY <3>2 DEF Published
      <3>11. Cardinality(Owed(m)') \in Nat
        BY <3>9, FS_CardinalityType
      <3> QED
        BY <2>3, <2>4, <3>2, <3>4, <3>5, <3>9, <3>10, <3>11
    <2>9. ASSUME NEW w \in Workers, Requeue(w)
          PROVE  Fresh(m)' /\ Paid(m)'
      <3>1. /\ last' = last + 1 /\ msgOf' = [msgOf EXCEPT ![last + 1] = MsgOf(w)]
            /\ UNCHANGED <<delivered, batch, cur, runs, claims>>
            /\ pc' = [pc EXCEPT ![w] = "ack"] /\ pc[w] = "requeue" /\ last + 1 \in Ids
        BY <2>9 DEF Requeue, Add, Goto, redis, history, TypeOK, Ids
      <3>2. /\ cur[w] \in 1..last /\ cur[w] \notin batch[w] /\ cur[w] # None
            /\ MsgOf(w) \in Msgs
        BY <2>1, <3>1, EntryType DEF HandInv, TypeOK
      <3>3. \A e \in 1..last : msgOf'[e] = msgOf[e]
        BY <3>1 DEF TypeOK
      <3>4. msgOf'[last + 1] = MsgOf(w)
        BY <3>1 DEF TypeOK
      <3>5. \A v \in Workers \cup {None}, e \in 1..last : Holds(v, e)' => Holds(v, e)
        BY <3>1 DEF Holds, Owing, TypeOK
      <3>6. \A e \in 1..last : e = cur[w] => ~Holds(w, e)'
        BY <3>1, <3>2, ConsumerAssumption DEF Holds, Owing, TypeOK
      <3>7. Holds(w, cur[w])
        BY <3>1 DEF Holds, Owing
      <3>8. \A v \in Workers, e \in Ids : e = last + 1 => ~Holds(v, e)'
        BY <2>4, <3>1 DEF Holds, TypeOK
      <3>9. \A h \in Owed(m)' : h[2] = last + 1 => h = <<None, last + 1>> /\ m = MsgOf(w)
        <4>1. SUFFICES ASSUME NEW v \in Workers \cup {None}, NEW e \in 1..(last + 1),
                              msgOf'[e] = m, Holds(v, e)', e = last + 1
                       PROVE  <<v, e>> = <<None, last + 1>> /\ m = MsgOf(w)
          BY <3>1 DEF Owed
        <4> QED
          BY <3>1, <3>4, <3>8, <4>1
      <3>10. \A h \in Owed(m)' : h[2] # last + 1 => h \in Owed(m) /\ h # <<w, cur[w]>>
        <4>1. SUFFICES ASSUME NEW v \in Workers \cup {None}, NEW e \in 1..(last + 1),
                              msgOf'[e] = m, Holds(v, e)', e # last + 1
                       PROVE  <<v, e>> \in Owed(m) /\ <<v, e>> # <<w, cur[w]>>
          BY <3>1 DEF Owed
        <4>2. e \in 1..last
          BY <2>4, <4>1
        <4> QED
          BY <3>3, <3>5, <3>6, <4>1, <4>2 DEF Owed
      <3>11. IsFiniteSet(Owed(m)') /\ Cardinality(Owed(m)') <= Cardinality(Owed(m))
        <4>1. CASE m = MsgOf(w)
          <5>1. <<w, cur[w]>> \in Owed(m)
            BY <3>2, <3>7, <4>1 DEF Owed, MsgOf
          <5>2. /\ IsFiniteSet(Owed(m) \ {<<w, cur[w]>>})
                /\ Cardinality(Owed(m) \ {<<w, cur[w]>>}) = Cardinality(Owed(m)) - 1
            BY <2>3, <5>1, FS_RemoveElement
          <5>3. Owed(m)' \subseteq (Owed(m) \ {<<w, cur[w]>>}) \cup {<<None, last + 1>>}
            BY <3>9, <3>10
          <5>4. /\ IsFiniteSet(Owed(m)')
                /\ Cardinality(Owed(m)') <= Cardinality(Owed(m) \ {<<w, cur[w]>>}) + 1
            BY <5>2, <5>3, OneMore
          <5> QED
            BY <2>4, <5>2, <5>4
        <4>2. CASE m # MsgOf(w)
          <5>1. Owed(m)' \subseteq Owed(m)
            BY <3>9, <3>10, <4>2
          <5> QED
            BY <2>3, <5>1, FS_Subset
        <4> QED
          BY <4>1, <4>2
      <3>12. Published(m) => Published(m)'
        BY <2>4, <3>1, <3>3 DEF Published
      <3>13. Cardinality(Owed(m)') \in Nat
        BY <3>11, FS_CardinalityType
      <3> QED
        BY <2>3, <2>4, <3>1, <3>11, <3>12, <3>13
    <2>10. ASSUME NEW w \in Workers, Execute(w) \/ ExecuteRaises(w)
           PROVE  Fresh(m)' /\ Paid(m)'
      <3>1. /\ UNCHANGED <<msgOf, last, delivered, batch, cur, claims>>
            /\ pc' = [pc EXCEPT ![w] = pc'[w]] /\ pc'[w] \notin Owing /\ pc[w] = "execute"
            /\ runs' = [runs EXCEPT ![MsgOf(w)] = @ + 1]
        BY <2>10 DEF Execute, ExecuteRaises, Goto, stream, Owing, TypeOK
      <3>2. /\ cur[w] \in 1..last /\ cur[w] \notin batch[w] /\ cur[w] # None
            /\ MsgOf(w) \in Msgs
        BY <2>1, <3>1, EntryType DEF HandInv, TypeOK
      <3>3. \A v \in Workers \cup {None}, e \in 1..last : Holds(v, e)' => Holds(v, e)
        BY <3>1 DEF Holds, TypeOK
      <3>4. \A e \in 1..last : e = cur[w] => ~Holds(w, e)'
        BY <3>1, <3>2 DEF Holds, TypeOK
      <3>5. Holds(w, cur[w])
        BY <3>1 DEF Holds, Owing
      <3>6. Published(m)' <=> Published(m)
        BY <3>1 DEF Published
      <3>7. CASE m = MsgOf(w)
        <4>1. <<w, cur[w]>> \in Owed(m)
          BY <3>2, <3>5, <3>7 DEF Owed, MsgOf
        <4>2. Owed(m)' \subseteq Owed(m) \ {<<w, cur[w]>>}
          BY <3>1, <3>3, <3>4 DEF Owed
        <4>3. IsFiniteSet(Owed(m)') /\ Cardinality(Owed(m)') <= Cardinality(Owed(m)) - 1
          BY <2>3, <4>1, <4>2, OneLess
        <4>4. runs'[m] = runs[m] + 1
          BY <3>1, <3>7 DEF TypeOK
        <4>5. Published(m)
          BY <3>2, <3>7 DEF Published, MsgOf
        <4>6. Cardinality(Owed(m)') \in Nat
          BY <4>3, FS_CardinalityType
        <4> QED
          BY <2>3, <2>4, <3>1, <3>6, <4>3, <4>4, <4>5, <4>6
      <3>8. CASE m # MsgOf(w)
        <4>1. Owed(m)' \subseteq Owed(m)
          BY <3>1, <3>3 DEF Owed
        <4>2. IsFiniteSet(Owed(m)') /\ Cardinality(Owed(m)') <= Cardinality(Owed(m))
          BY <2>3, <4>1, FS_Subset
        <4>3. runs'[m] = runs[m]
          BY <3>1, <3>2, <3>8 DEF TypeOK
        <4>4. Cardinality(Owed(m)') \in Nat
          BY <4>2, FS_CardinalityType
        <4> QED
          BY <2>3, <2>4, <3>1, <3>6, <4>2, <4>3, <4>4
      <3> QED
        BY <3>7, <3>8
    <2> HIDE DEF Paid, Fresh
    <2> QED
      BY <2>1, <2>5, <2>6, <2>7, <2>8, <2>9, <2>10, QuietSteps
  <1> QED
    BY <1>1, <1>2, TypeCorrect, PTL DEF Spec

\* The executor runs a message at most once per delivery: however often a busy
\* lock sends it back to the stream, a second run needs an XAUTOCLAIM.
THEOREM OncePerDelivery == Spec => []OneRunPerDelivery
  <1>1. TypeOK /\ PaidInv => OneRunPerDelivery
    <2> SUFFICES ASSUME TypeOK, PaidInv, NEW m \in Msgs
                 PROVE  runs[m] <= 1 + claims[m]
      BY DEF OneRunPerDelivery
    <2>1. IsFiniteSet(Owed(m)) /\ runs[m] + Cardinality(Owed(m)) <= 1 + claims[m]
      BY DEF PaidInv
    <2>2. Cardinality(Owed(m)) \in Nat /\ runs[m] \in Nat /\ claims[m] \in Nat
      BY <2>1, FS_CardinalityType DEF TypeOK
    <2> QED
      BY <2>1, <2>2
  <1> QED
    BY <1>1, RunsArePaid, TypeCorrect, PTL

-----------------------------------------------------------------------------
(* Turns are atomic *)

\* The messages of conversation c that were run.
Ran(c) == {m \in Msgs : ChatOf[m] = c /\ runs[m] > 0}

\* A worker's copy holds nothing but turns that were taken, its own included as
\* soon as it has run.
CopyOfTurns(w) ==
    /\ copy[w] \subseteq Ran(ChatAt(w))
    /\ pc[w] = "save" => MsgOf(w) \in copy[w]

\* The copy is what is stored, with the worker's own turn once it has run, unless
\* what was stored has been wiped since.
CopyIsExact(w, c) ==
    \/ session[c] = {}
    \/ pc[w] = "execute" /\ copy[w] = session[c]
    \/ pc[w] = "save" /\ copy[w] = session[c] \cup {MsgOf(w)}

TurnInv ==
    /\ \A m \in Msgs : ~Published(m) => claims[m] = 0
    /\ \A c \in Chats : session[c] \subseteq Ran(c)
    /\ \A w \in Workers : pc[w] \in {"execute", "save"} => CopyOfTurns(w)
    /\ \A c \in Chats \ stolen : \A w \in Holding(c) \ blind : CopyIsExact(w, c)

\* XAUTOCLAIM finds published messages only.
LEMMA ClaimSteps ==
    ASSUME TypeOK, TypeOK', [Next]_vars, NEW m \in Msgs, ~Published(m) => claims[m] = 0
    PROVE  (~Published(m) => claims[m] = 0)'
  <1>1. Published(m) => Published(m)'
    <2>1. /\ last \in Nat /\ last' \in Nat /\ last <= last'
          /\ \A e \in 1..last : msgOf'[e] = msgOf[e]
      BY StreamSteps, ConsumerAssumption DEF TypeOK
    <2> QED
      BY <2>1 DEF Published
  <1>2. \/ claims' = claims
        \/ \E w \in Workers : Sweep(w)
    BY DEF Next, Environment, Step, Publish, Crash, LockExpire, SessionExpire,
           ResetSession, KeyExpire, RollMinute, ReadGroup, ReadGroupFails, GiveUp,
           TokenRaises, SkipProcessed, NotProcessed, WithinRate, OverRate,
           AcquireLock, LockBusy, AcquireRaises, Requeue, RequeueFails,
           LoadSession, LoadFails, Execute, ExecuteRaises, SaveSession, SaveFails,
           ReleaseLock, MarkProcessed, Ack, history, vars
  <1>3. ASSUME NEW w \in Workers, Sweep(w), ~Published(m)
        PROVE  claims'[m] = claims[m]
    <2>1. PICK S \in SUBSET pel :
            claims' = [k \in Msgs |-> claims[k] + Cardinality({e \in S : msgOf[e] = k})]
      BY <1>3 DEF Sweep
    <2>2. S \subseteq 1..last
      <3>1. 1..delivered \subseteq 1..last
        BY DEF TypeOK
      <3>2. S \subseteq 1..delivered
        BY DEF TypeOK
      <3> QED
        BY <3>1, <3>2
    <2>3. {e \in S : msgOf[e] = m} = {}
      BY <1>3, <2>2 DEF Published
    <2>4. Cardinality({e \in S : msgOf[e] = m}) = 0
      BY <2>3, FS_EmptySet
    <2> QED
      BY <2>1, <2>4 DEF TypeOK
  <1> QED
    BY <1>1, <1>2, <1>3

LEMMA TurnsAreExact == Spec => []TurnInv
  <1>1. Init => TurnInv
    BY DEF Init, TurnInv, Holding, Inside, Locked
  <1>2. TypeOK /\ TypeOK' /\ MutualExclusion /\ TurnInv /\ [Next]_vars => TurnInv'
    <2> SUFFICES ASSUME TypeOK, TypeOK', MutualExclusion, TurnInv, [Next]_vars
                 PROVE  TurnInv'
      OBVIOUS
    <2> USE ConsumerAssumption
    <2> DEFINE Stored == \A c \in Chats : session[c] \subseteq Ran(c)
               Copies == \A w \in Workers : pc[w] \in {"execute", "save"} => CopyOfTurns(w)
               Exact == \A c \in Chats \ stolen : \A w \in Holding(c) \ blind : CopyIsExact(w, c)
    <2>0. (\A m \in Msgs : ~Published(m) => claims[m] = 0)'
      BY ClaimSteps DEF TurnInv
    <2>1. \A c \in Chats : Ran(c) \subseteq Ran(c)'
      BY StreamSteps DEF Ran, Handled, TypeOK
    <2>2. Stored /\ Copies /\ Exact
      BY DEF TurnInv
    <2>3. SUFFICES Stored' /\ Copies' /\ Exact'
      BY <2>0 DEF TurnInv
    <2>4. ASSUME NEW w \in Workers, SameStep(w), copy'[w] = copy[w], CopyOfTurns(w),
                 pc[w] # "next"
          PROVE  CopyOfTurns(w)'
      <3>1. MsgOf(w)' = MsgOf(w) /\ ChatAt(w)' = ChatAt(w) /\ ChatAt(w) \in Chats
        BY <2>4, EntryType DEF SameStep, MsgOf, ChatAt
      <3> QED
        BY <2>1, <2>4, <3>1 DEF CopyOfTurns, SameStep
    <2>5. CASE /\ UNCHANGED <<session, copy, stolen, blind>>
               /\ \A c \in Chats : Holding(c)' \subseteq Holding(c)
               /\ \A w \in Workers : pc'[w] \in {"execute", "save"} => SameStep(w)
      <3>1. Stored'
        BY <2>1, <2>2, <2>5
      <3>2. Copies'
        BY <2>2, <2>4, <2>5 DEF SameStep
      <3>3. ASSUME NEW c \in Chats \ stolen, NEW w \in Holding(c)' \ blind
            PROVE  CopyIsExact(w, c)'
        <4>1. SameStep(w) /\ MsgOf(w)' = MsgOf(w)
          BY <2>5, <3>3 DEF Holding, Inside, SameStep, MsgOf
        <4>2. CopyIsExact(w, c)
          BY <2>2, <2>5, <3>3
        <4> QED
          BY <2>5, <4>1, <4>2 DEF CopyIsExact, SameStep
      <3> QED
        BY <2>5, <3>1, <3>2, <3>3
    <2>6. ASSUME NEW w \in Workers,
                 \A v \in Workers \ {w} : pc'[v] = pc[v] /\ cur'[v] = cur[v] /\ copy'[v] = copy[v],
                 msgOf' = msgOf, stolen' = stolen, blind \subseteq blind'
          PROVE  /\ \A v \in Workers \ {w} : pc'[v] \in {"execute", "save"} => CopyOfTurns(v)'
                 /\ session' = session =>
                       \A c \in Chats \ stolen' : \A v \in Holding(c)' \ blind' :
                           v # w => CopyIsExact(v, c)'
      <3>1. \A v \in Workers \ {w} : SameStep(v) /\ MsgOf(v)' = MsgOf(v)
        BY <2>6 DEF SameStep, MsgOf
      <3>2. \A c \in Chats : \A v \in Workers \ {w} : v \in Holding(c)' => v \in Holding(c)
        BY <2>6 DEF Holding, Inside, ChatAt, MsgOf
      <3>3. Holding(0)' \subseteq Workers
        BY DEF Holding, Inside
      <3>4. \A v \in Workers \ {w} : pc'[v] \in {"execute", "save"} => CopyOfTurns(v)'
        BY <2>2, <2>4, <2>6, <3>1 DEF SameStep
      <3>5. ASSUME session' = session, NEW c \in Chats \ stolen',
                   NEW v \in Holding(c)' \ blind', v # w
            PROVE  CopyIsExact(v, c)'
        <4>1. v \in Workers \ {w}
          BY <3>5 DEF Holding, Inside
        <4>2. v \in Holding(c) \ blind /\ c \in Chats \ stolen
          BY <2>6, <3>2, <3>5, <4>1
        <4>3. CopyIsExact(v, c)
          BY <2>2, <4>2
        <4> QED
          BY <2>6, <3>1, <3>5, <4>1, <4>3 DEF CopyIsExact, SameStep
      <3> QED
        BY <3>4, <3>5
    <2>7. ASSUME NEW w \in Workers, LoadSession(w) \/ LoadFails(w)
          PROVE  Stored' /\ Copies' /\ Exact'
      <3> DEFINE k == ChatAt(w)
      <3>1. /\ pc[w] = "load" /\ pc' = [pc EXCEPT ![w] = "execute"]
            /\ UNCHANGED <<session, cur, msgOf, stolen, runs>>
        BY <2>7 DEF LoadSession, LoadFails, Goto, redis, history, stream
      <3>2. \/ copy' = [copy EXCEPT ![w] = session[k]] /\ blind' = blind
            \/ copy' = [copy EXCEPT ![w] = {}] /\ blind' = blind \cup {w}
        BY <2>7 DEF LoadSession, LoadFails, history
      <3>3. k \in Chats /\ ChatAt(w)' = k
        BY <3>1, EntryType DEF ChatAt, MsgOf
      <3>4. pc'[w] = "execute" /\ copy'[w] \in {session[k], {}}
        BY <3>1, <3>2 DEF TypeOK
      <3>5. CopyOfTurns(w)'
        BY <2>1, <2>2, <3>3, <3>4 DEF CopyOfTurns
      <3>6. w \notin blind' => copy'[w] = session[k]
        BY <3>2 DEF TypeOK
      <3>7. \A c \in Chats : w \in Holding(c)' => c = k
        BY <3>3 DEF Holding, Inside
      <3>8. /\ \A v \in Workers \ {w} : pc'[v] = pc[v] /\ cur'[v] = cur[v] /\ copy'[v] = copy[v]
            /\ blind \subseteq blind'
        BY <3>1, <3>2 DEF TypeOK
      <3> HIDE DEF k
      <3>9. \A c \in Chats \ stolen' : \A v \in Holding(c)' \ blind' : CopyIsExact(v, c)'
        <4>1. ASSUME NEW c \in Chats \ stolen', w \in Holding(c)' \ blind'
              PROVE  CopyIsExact(w, c)'
          BY <3>1, <3>4, <3>6, <3>7, <4>1 DEF CopyIsExact
        <4> QED
          BY <2>6, <3>1, <3>8, <4>1
      <3>10. Stored'
        BY <2>1, <2>2, <3>1
      <3>11. Copies'
        BY <2>6, <3>1, <3>5, <3>8
      <3> QED
        BY <3>9, <3>10, <3>11
    <2>8. ASSUME NEW w \in Workers, Execute(w)
          PROVE  Stored' /\ Copies' /\ Exact'
      <3>0. PICK k \in Chats, m \in Msgs : k = ChatAt(w) /\ m = MsgOf(w)
        BY <2>8, EntryType DEF Execute
      <3>1. /\ pc[w] = "execute" /\ pc' = [pc EXCEPT ![w] = "save"]
            /\ UNCHANGED <<session, cur, msgOf, stolen, blind>>
            /\ copy' = [copy EXCEPT ![w] = @ \cup {m}]
            /\ runs' = [runs EXCEPT ![m] = @ + 1]
        BY <2>8, <3>0 DEF Execute, Goto, redis, history, stream
      <3>2. ChatAt(w)' = k /\ MsgOf(w)' = m /\ k = ChatOf[m]
        BY <3>0, <3>1 DEF ChatAt, MsgOf
      <3>3. CopyOfTurns(w)
        BY <2>2, <3>1
      <3>4. pc'[w] = "save" /\ copy'[w] = copy[w] \cup {m}
        BY <3>1 DEF TypeOK
      <3>5. m \in Ran(k)'
        BY <3>1, <3>2 DEF Ran, TypeOK
      <3>6. copy[w] \subseteq Ran(k)
        BY <3>0, <3>3 DEF CopyOfTurns
      <3>7. CopyOfTurns(w)'
        BY <2>1, <3>2, <3>4, <3>5, <3>6 DEF CopyOfTurns
      <3>8. \A v \in Workers \ {w} : pc'[v] = pc[v] /\ cur'[v] = cur[v] /\ copy'[v] = copy[v]
        BY <3>1 DEF TypeOK
      <3>9. ASSUME NEW c \in Chats \ stolen', w \in Holding(c)' \ blind'
            PROVE  CopyIsExact(w, c)'
        <4>1. w \in Holding(c) \ blind /\ c \in Chats \ stolen
          BY <3>1, <3>9 DEF Holding, Inside, ChatAt, MsgOf, Locked
        <4>2. session[c] = {} \/ copy[w] = session[c]
          BY <2>2, <3>1, <4>1 DEF CopyIsExact
        <4> QED
          BY <3>1, <3>2, <3>4, <4>2 DEF CopyIsExact
      <3>10. Stored'
        BY <2>1, <2>2, <3>1
      <3>11. Copies'
        BY <2>6, <3>1, <3>7, <3>8
      <3>12. Exact'
        BY <2>6, <3>1, <3>8, <3>9
      <3> QED
        BY <3>10, <3>11, <3>12
    <2>9. ASSUME NEW w \in Workers, SaveSession(w)
          PROVE  Stored' /\ Copies' /\ Exact'
      <3> DEFINE k == ChatAt(w)
      <3>1. /\ pc[w] = "save" /\ pc' = [pc EXCEPT ![w] = "release"]
            /\ UNCHANGED <<copy, cur, msgOf, stolen, blind>>
            /\ session' = [session EXCEPT ![k] = copy[w]]
        BY <2>9 DEF SaveSession, Goto, history, stream
      <3>2. k \in Chats /\ w \in Inside(k)
        BY <3>1, EntryType DEF Inside, Locked
      <3>3. copy[w] \subseteq Ran(k)
        BY <2>2, <3>1 DEF CopyOfTurns
      <3>4. \A v \in Workers \ {w} : pc'[v] = pc[v] /\ cur'[v] = cur[v] /\ copy'[v] = copy[v]
        BY <3>1 DEF TypeOK
      <3>5. pc'[w] = "release"
        BY <3>1 DEF TypeOK
      <3> HIDE DEF k
      <3>6. Stored'
        BY <2>1, <2>2, <3>1, <3>2, <3>3 DEF TypeOK
      <3>7. Copies'
        BY <2>6, <3>1, <3>4, <3>5
      <3>8. ASSUME NEW c \in Chats \ stolen', NEW v \in Holding(c)' \ blind'
            PROVE  CopyIsExact(v, c)'
        <4>1. v \in Workers /\ v # w
          BY <3>5, <3>8 DEF Holding, Inside
        <4>2. v \in Holding(c) \ blind
          BY <3>1, <3>4, <3>8, <4>1 DEF Holding, Inside, ChatAt, MsgOf
        <4>3. c # k
          BY <3>1, <3>2, <3>8, <4>1, <4>2 DEF MutualExclusion, Holding
        <4>4. session'[c] = session[c]
          BY <3>1, <3>8, <4>3 DEF TypeOK
        <4>5. CopyIsExact(v, c)
          BY <2>2, <3>1, <3>8, <4>2
        <4> QED
          BY <3>1, <3>4, <4>1, <4>4, <4>5 DEF CopyIsExact, MsgOf
      <3> QED
        BY <3>6, <3>7, <3>8
    <2>10. ASSUME NEW w \in Workers, ReleaseLock(w) \/ Crash(w)
           PROVE  Stored' /\ Copies' /\ Exact'
      <3>1. /\ pc' = [pc EXCEPT ![w] = pc'[w]] /\ pc'[w] \notin Locked
            /\ cur' = [cur EXCEPT ![w] = cur'[w]]
            /\ copy' = [copy EXCEPT ![w] = copy'[w]] /\ UNCHANGED <<session, msgOf>>
        BY <2>10 DEF ReleaseLock, Crash, Goto, Abandon, Leave, Locked, redis, stream, TypeOK
      <3>2. blind \ {w} \subseteq blind' /\ \A c \in stolen \ stolen' : Inside(c) \subseteq {w}
        BY <2>10 DEF ReleaseLock, Crash, Leave
      <3>3. \A v \in Workers \ {w} : pc'[v] = pc[v] /\ cur'[v] = cur[v] /\ copy'[v] = copy[v]
        BY <3>1 DEF TypeOK
      <3>4. \A v \in Workers \ {w} : SameStep(v) /\ MsgOf(v)' = MsgOf(v)
        BY <3>1, <3>3 DEF SameStep, MsgOf
      <3>5. Stored'
        BY <2>1, <2>2, <3>1
      <3>6. Copies'
        BY <2>2, <2>4, <3>1, <3>3, <3>4 DEF Locked
      <3>7. ASSUME NEW c \in Chats \ stolen', NEW v \in Holding(c)' \ blind'
            PROVE  CopyIsExact(v, c)'
        <4>1. v \in Workers /\ v # w
          BY <3>1, <3>7 DEF Holding, Inside
        <4>2. v \in Holding(c) \ blind
          BY <3>1, <3>2, <3>3, <3>7, <4>1 DEF Holding, Inside, ChatAt, MsgOf
        <4>3. c \notin stolen
          BY <3>2, <3>7, <4>1, <4>2 DEF Holding
        <4>4. CopyIsExact(v, c)
          BY <2>2, <3>7, <4>2, <4>3
        <4> QED
          BY <3>1, <3>3, <3>4, <4>1, <4>4 DEF CopyIsExact
      <3> QED
        BY <3>5, <3>6, <3>7
    <2>11. ASSUME NEW d \in Chats, LockExpire(d) \/ ResetSession(d) \/ SessionExpire(d)
           PROVE  Stored' /\ Copies' /\ Exact'
      <3>1. UNCHANGED <<pc, cur, copy, msgOf, blind>> /\ stolen \subseteq stolen'
        BY <2>11 DEF LockExpire, ResetSession, SessionExpire, LoseKey, history, memory, stream
      <3>2. session' = session \/ session' = [session EXCEPT ![d] = {}]
        BY <2>11 DEF LockExpire, ResetSession, SessionExpire
      <3>3. \A c \in Chats : session'[c] \in {session[c], {}}
        BY <3>2 DEF TypeOK
      <3>4. \A v \in Workers : SameStep(v) /\ MsgOf(v)' = MsgOf(v)
        BY <3>1 DEF SameStep, MsgOf
      <3>5. Stored'
        BY <2>1, <2>2, <3>3
      <3>6. Copies'
        BY <2>2, <2>4, <3>1, <3>4
      <3>7. ASSUME NEW c \in Chats \ stolen', NEW v \in Holding(c)' \ blind'
            PROVE  CopyIsExact(v, c)'
        <4>1. v \in Workers /\ v \in Holding(c) \ blind /\ c \notin stolen
          BY <3>1, <3>7 DEF Holding, Inside, ChatAt, MsgOf
        <4>2. CopyIsExact(v, c)
          BY <2>2, <3>7, <4>1
        <4> QED
          BY <3>1, <3>3, <3>4, <3>7, <4>1, <4>2 DEF CopyIsExact
      <3> QED
        BY <3>5, <3>6, <3>7
    <2> HIDE DEF Stored, Copies, Exact
    <2> QED
      BY <2>5, <2>7, <2>8, <2>9, <2>10, <2>11, SessionSteps
  <1> QED
    BY <1>1, <1>2, TypeCorrect, LockExcludes, PTL DEF Spec

-----------------------------------------------------------------------------
(* FlowConsumer implements Conversations *)

\* What the mapping rests on.
Grounds == TypeOK /\ MutualExclusion /\ NoLossInv /\ PaidInv /\ TurnInv

\* A step that the specification of the service does not see, but for Torn.
Hidden ==
    /\ UNCHANGED <<msgOf, last, runs, claims, dropped, session>>
    /\ \A e \in 1..last : Live(e)' <=> Live(e)

\* What is open depends on the entries and on which of them are live.
LEMMA OpenKept ==
    ASSUME UNCHANGED <<msgOf, last>>, \A e \in 1..last : Live(e)' <=> Live(e)
    PROVE  Open' = Open
  BY DEF Open

\* How often a message was handed out depends on the entries and the claims.
LEMMA ChancesKept ==
    ASSUME UNCHANGED <<msgOf, last, claims>>
    PROVE  Chances' = Chances
  BY DEF Chances, Published

\* A conversation stays as torn as it was when nobody enters or leaves it.
LEMMA TornKept ==
    ASSUME TypeOK, UNCHANGED <<stolen, blind>>,
           \A e \in 1..last : msgOf'[e] = msgOf[e],
           \A v \in Workers : /\ pc'[v] \in Locked <=> pc[v] \in Locked
                              /\ pc[v] \in Locked => cur'[v] = cur[v]
    PROVE  Torn' = Torn
  <1>1. ASSUME NEW v \in Workers, pc[v] \in Locked
        PROVE  ChatAt(v)' = ChatAt(v)
    <2>1. cur[v] \in 1..last
      BY <1>1, EntryType DEF Locked
    <2> QED
      BY <1>1, <2>1 DEF ChatAt, MsgOf
  <1>2. ASSUME NEW c \in Chats
        PROVE  Inside(c)' = Inside(c)
    BY <1>1 DEF Inside
  <1> QED
    BY <1>2 DEF Torn

\* Whatever Torn becomes, a step that is hidden is a step of the service.
LEMMA HiddenSteps ==
    ASSUME Hidden
    PROVE  Service!Tear
  <1>1. Open' = Open /\ Chances' = Chances
    BY OpenKept, ChancesKept DEF Hidden
  <1>2. Torn' \in SUBSET Chats
    BY DEF Torn
  <1> QED
    BY <1>1, <1>2 DEF Hidden, Service!Tear

\* Who holds an entry and has not run it has a run of its message left.
LEMMA RunLeft ==
    ASSUME TypeOK, PaidInv, NEW w \in Workers, pc[w] \in Owing
    PROVE  MsgOf(w) \in Msgs /\ Published(MsgOf(w)) /\ runs[MsgOf(w)] < Chances[MsgOf(w)]
  <1>1. PICK m \in Msgs : m = MsgOf(w)
    BY EntryType DEF Owing
  <1>2. cur[w] \in 1..last /\ cur[w] # None
    BY EntryType DEF Owing, TypeOK
  <1>3. Published(m)
    BY <1>1, <1>2 DEF Published, MsgOf
  <1>4. <<w, cur[w]>> \in Owed(m)
    <2>1. Holds(w, cur[w])
      BY ConsumerAssumption DEF Holds
    <2> QED
      BY <1>1, <1>2, <2>1 DEF Owed, MsgOf
  <1>5. IsFiniteSet(Owed(m)) /\ runs[m] + Cardinality(Owed(m)) <= 1 + claims[m]
    BY DEF PaidInv
  <1>6. Cardinality(Owed(m)) \in Nat /\ Cardinality(Owed(m)) # 0
    BY <1>4, <1>5, FS_CardinalityType, FS_EmptySet
  <1>7. runs[m] < 1 + claims[m]
    BY <1>5, <1>6 DEF TypeOK
  <1> QED
    BY <1>1, <1>3, <1>7 DEF Chances

\* A new entry of message m leaves what was live live, and m is open.
LEMMA AddOpens ==
    ASSUME TypeOK, last + 1 \in Ids, NEW m \in Msgs, Add(m), UNCHANGED <<delivered, pel>>
    PROVE  /\ Open' = Open \cup {m}
           /\ \A k \in Msgs : Published(k)' <=> Published(k) \/ k = m
           /\ \A e \in 1..last : msgOf'[e] = msgOf[e]
  <1>1. /\ last \in Nat /\ delivered \in 0..last /\ last' = last + 1
        /\ msgOf' = [msgOf EXCEPT ![last + 1] = m]
    BY ConsumerAssumption DEF TypeOK, Add
  <1>2. /\ msgOf'[last + 1] = m
        /\ \A e \in 1..last : msgOf'[e] = msgOf[e]
    BY <1>1 DEF TypeOK
  <1>3. \A e \in Ids : e = last + 1 => Live(e)'
    BY <1>1 DEF Live, Ids
  <1>4. \A e \in 1..last : Live(e)' <=> Live(e)
    BY <1>1 DEF Live
  <1>5. \A e \in 1..(last + 1) : e \in 1..last \/ e = last + 1
    BY <1>1
  <1>6. 1..last \subseteq 1..(last + 1) /\ last + 1 \in 1..(last + 1)
    BY <1>1
  <1>7. \A k \in Msgs : k \in Open' <=> k \in Open \/ k = m
    BY <1>1, <1>2, <1>3, <1>4, <1>5, <1>6 DEF Open
  <1>8. \A k \in Msgs : Published(k)' <=> Published(k) \/ k = m
    BY <1>1, <1>2, <1>5, <1>6 DEF Published
  <1>9. Open \subseteq Msgs /\ Open' \subseteq Msgs
    BY DEF Open
  <1> QED
    BY <1>2, <1>7, <1>8, <1>9

\* XADD by the gateway publishes a message.
LEMMA PublishImplements ==
    ASSUME TypeOK, TurnInv, NEW m \in Msgs, Publish(m)
    PROVE  Service!Publish(m)
  <1>1. /\ ~Published(m) /\ Add(m) /\ last + 1 \in Ids
        /\ UNCHANGED <<delivered, pel, pc, cur, session, dropped, runs, claims, stolen, blind>>
    BY ConsumerAssumption DEF Publish, redis, memory, history, TypeOK, Ids
  <1>2. /\ Open' = Open \cup {m}
        /\ \A k \in Msgs : Published(k)' <=> Published(k) \/ k = m
        /\ \A e \in 1..last : msgOf'[e] = msgOf[e]
    BY <1>1, AddOpens
  <1>3. claims[m] = 0
    BY <1>1 DEF TurnInv
  <1>4. Chances[m] = 0 /\ Chances' = [Chances EXCEPT ![m] = 1]
    <2>1. Chances[m] = 0
      BY <1>1 DEF Chances
    <2>2. Chances'[m] = 1
      BY <1>1, <1>2, <1>3 DEF Chances
    <2>3. \A k \in Msgs : k # m => Chances'[k] = Chances[k]
      BY <1>1, <1>2 DEF Chances
    <2>4. Chances = [k \in Msgs |-> Chances[k]] /\ Chances' = [k \in Msgs |-> Chances'[k]]
      BY DEF Chances
    <2> HIDE DEF Chances
    <2> QED
      BY <2>1, <2>2, <2>3, <2>4
  <1>5. Torn' = Torn
    BY <1>1, <1>2, TornKept
  <1> QED
    BY <1>1, <1>2, <1>4, <1>5 DEF Service!Publish

\* XAUTOCLAIM delivers messages again that are open.
LEMMA SweepImplements ==
    ASSUME TypeOK, TypeOK', NEW w \in Workers, Sweep(w)
    PROVE  Service!Redeliver
  <1> USE ConsumerAssumption
  <1>1. PICK S \in SUBSET pel :
          claims' = [k \in Msgs |-> claims[k] + Cardinality({e \in S : msgOf[e] = k})]
    BY DEF Sweep
  <1>2. UNCHANGED <<msgOf, last, delivered, pel, pc, cur, session, dropped, runs, stolen, blind>>
    BY DEF Sweep, stream, redis
  <1>3. \A e \in S : e \in 1..last /\ Live(e)
    <2>1. 1..delivered \subseteq 1..last
      BY DEF TypeOK
    <2> QED
      BY <2>1 DEF TypeOK, Live
  <1>4. Open' = Open
    <2>1. \A e \in 1..last : Live(e)' <=> Live(e)
      BY <1>2 DEF Live
    <2> QED
      BY <1>2, <2>1, OpenKept
  <1>5. Torn' = Torn
    BY <1>2, TornKept
  <1>6. Chances' \in [Msgs -> Nat]
    BY DEF Chances, TypeOK
  <1>7. ASSUME NEW k \in Msgs
        PROVE  \/ Chances'[k] = Chances[k]
               \/ k \in Open /\ Chances'[k] > Chances[k]
    <2> DEFINE again == {e \in S : msgOf[e] = k}
    <2>1. claims'[k] = claims[k] + Cardinality(again) /\ claims[k] \in Nat
      BY <1>1 DEF TypeOK
    <2>2. Published(k)' <=> Published(k)
      BY <1>2 DEF Published
    <2>3. CASE again = {}
      <3>1. Cardinality(again) = 0
        BY <2>3, FS_EmptySet
      <3> QED
        BY <2>1, <2>2, <3>1 DEF Chances
    <2>4. CASE again # {}
      <3>1. PICK e \in S : msgOf[e] = k
        BY <2>4
      <3>2. e \in 1..last /\ Live(e)
        BY <1>3
      <3>3. k \in Open /\ Published(k)
        BY <3>1, <3>2 DEF Open, Published
      <3>4. IsFiniteSet(again)
        <4>1. IsFiniteSet(1..last)
          BY FS_Interval DEF TypeOK
        <4>2. again \subseteq 1..last
          BY <1>3
        <4> QED
          BY <4>1, <4>2, FS_Subset
      <3>5. Cardinality(again) \in Nat /\ Cardinality(again) # 0
        BY <2>4, <3>4, FS_CardinalityType, FS_EmptySet
      <3> HIDE DEF again
      <3>6. claims'[k] > claims[k] /\ claims'[k] \in Nat
        BY <2>1, <3>5
      <3> QED
        BY <2>1, <2>2, <3>3, <3>6 DEF Chances
    <2> QED
      BY <2>3, <2>4
  <1> QED
    BY <1>2, <1>4, <1>5, <1>6, <1>7 DEF Service!Redeliver

\* Giving a message up, at each of the three exits of _process that do.
LEMMA DropImplements ==
    ASSUME TypeOK, NEW w \in Workers, GiveUp(w) \/ OverRate(w) \/ RequeueFails(w)
    PROVE  \E m \in Msgs : Service!Drop(m)
  <1> USE ConsumerAssumption
  <1>1. /\ UNCHANGED <<stream, session, runs, claims, stolen, blind>>
        /\ \A v \in Workers : /\ pc'[v] \in Locked <=> pc[v] \in Locked
                              /\ pc[v] \in Locked => cur'[v] = cur[v]
    BY DEF GiveUp, OverRate, RequeueFails, Take, Goto, redis, Locked, TypeOK
  <1>2. /\ UNCHANGED <<msgOf, last, delivered, pel>>
        /\ Open' = Open /\ Chances' = Chances /\ Torn' = Torn
    <2>1. UNCHANGED <<msgOf, last, delivered, pel>>
      BY <1>1 DEF stream
    <2>2. \A e \in 1..last : Live(e)' <=> Live(e)
      BY <2>1 DEF Live
    <2> QED
      BY <1>1, <2>1, <2>2, OpenKept, ChancesKept, TornKept
  <1>3. \E e \in 1..last : dropped' = dropped \cup {msgOf[e]}
    <2>1. CASE GiveUp(w)
      <3>1. PICK e \in batch[w] : dropped' = dropped \cup {msgOf[e]}
        BY <2>1 DEF GiveUp
      <3>2. e \in 1..last
        BY DEF TypeOK
      <3> QED
        BY <3>1, <3>2
    <2>2. CASE OverRate(w) \/ RequeueFails(w)
      <3>1. dropped' = dropped \cup {MsgOf(w)} /\ pc[w] # "next"
        BY <2>2 DEF OverRate, RequeueFails
      <3> QED
        BY <3>1, EntryType DEF MsgOf
    <2> QED
      BY <2>1, <2>2
  <1>4. PICK e \in 1..last : dropped' = dropped \cup {msgOf[e]}
    BY <1>3
  <1>5. msgOf[e] \in Msgs /\ Published(msgOf[e])
    BY DEF TypeOK, Published
  <1>6. Chances[msgOf[e]] > 0
    BY <1>5 DEF Chances, TypeOK
  <1>7. Service!Drop(msgOf[e])
    BY <1>1, <1>2, <1>4, <1>6 DEF Service!Drop
  <1> QED
    BY <1>5, <1>7

\* One run of the executor is one run of the message, and is paid for.
LEMMA RunImplements ==
    ASSUME TypeOK, PaidInv, NEW w \in Workers, Execute(w) \/ ExecuteRaises(w)
    PROVE  \E m \in Msgs : Service!Run(m)
  <1>1. /\ UNCHANGED <<stream, session, cur, dropped, claims, stolen, blind>>
        /\ runs' = [runs EXCEPT ![MsgOf(w)] = @ + 1]
        /\ pc[w] = "execute" /\ pc'[w] \in Locked
        /\ \A v \in Workers \ {w} : pc'[v] = pc[v]
    BY DEF Execute, ExecuteRaises, Goto, redis, Locked, TypeOK
  <1>2. UNCHANGED <<msgOf, last, delivered, pel>>
    BY <1>1 DEF stream
  <1>3. Open' = Open /\ Chances' = Chances
    <2>1. \A e \in 1..last : Live(e)' <=> Live(e)
      BY <1>2 DEF Live
    <2> QED
      BY <1>1, <1>2, <2>1, OpenKept, ChancesKept
  <1>4. Torn' = Torn
    <2>1. \A v \in Workers : pc'[v] \in Locked <=> pc[v] \in Locked
      BY <1>1 DEF Locked
    <2> QED
      BY <1>1, <1>2, <2>1, TornKept
  <1>5. MsgOf(w) \in Msgs /\ runs[MsgOf(w)] < Chances[MsgOf(w)]
    BY <1>1, RunLeft DEF Owing
  <1>6. Service!Run(MsgOf(w))
    BY <1>1, <1>3, <1>4, <1>5 DEF Service!Run
  <1> QED
    BY <1>5, <1>6

\* A re-enqueued message comes back with the run it is still owed.
LEMMA RequeueImplements ==
    ASSUME TypeOK, PaidInv, NEW w \in Workers, Requeue(w)
    PROVE  \E m \in Msgs : Service!Reopen(m)
  <1>1. PICK m \in Msgs : /\ m = MsgOf(w) /\ Published(m)
                          /\ runs[m] < Chances[m]
    BY RunLeft DEF Requeue, Owing
  <1>2. /\ Add(m) /\ last + 1 \in Ids
        /\ UNCHANGED <<delivered, pel, cur, session, dropped, runs, claims, stolen, blind>>
        /\ pc[w] = "requeue" /\ pc' = [pc EXCEPT ![w] = "ack"]
    BY <1>1, ConsumerAssumption DEF Requeue, Goto, redis, history, TypeOK, Ids
  <1>3. /\ Open' = Open \cup {m}
        /\ \A k \in Msgs : Published(k)' <=> Published(k) \/ k = m
        /\ \A e \in 1..last : msgOf'[e] = msgOf[e]
    BY <1>2, AddOpens
  <1>4. \A k \in Msgs : Published(k)' <=> Published(k)
    BY <1>1, <1>3
  <1>5. Chances' = Chances
    BY <1>2, <1>4 DEF Chances
  <1>6. Torn' = Torn
    <2>1. \A v \in Workers : pc'[v] \in Locked <=> pc[v] \in Locked
      BY <1>2 DEF Locked, TypeOK
    <2> QED
      BY <1>2, <1>3, <2>1, TornKept
  <1> QED
    BY <1>1, <1>2, <1>3, <1>5, <1>6 DEF Service!Reopen

\* Saving the session is the turn: what it stores is what was stored, and its own
\* message, or the conversation is torn.
LEMMA SaveImplements ==
    ASSUME TypeOK, TurnInv, NEW w \in Workers, SaveSession(w)
    PROVE  \E c \in Chats, m \in Msgs, S \in SUBSET Msgs : Service!Turn(c, m, S)
  <1>1. PICK c \in Chats, m \in Msgs, S \in SUBSET Msgs :
          c = ChatAt(w) /\ m = MsgOf(w) /\ S = copy[w]
    BY EntryType DEF SaveSession, TypeOK
  <1>2. /\ UNCHANGED <<stream, cur, dropped, runs, claims, stolen, blind>>
        /\ session' = [session EXCEPT ![c] = S]
        /\ pc[w] = "save" /\ pc' = [pc EXCEPT ![w] = "release"]
    BY <1>1 DEF SaveSession, Goto, history
  <1>3. UNCHANGED <<msgOf, last, delivered, pel>>
    BY <1>2 DEF stream
  <1>4. Open' = Open /\ Chances' = Chances
    <2>1. \A e \in 1..last : Live(e)' <=> Live(e)
      BY <1>3 DEF Live
    <2> QED
      BY <1>2, <1>3, <2>1, OpenKept, ChancesKept
  <1>5. Torn' = Torn
    <2>1. \A v \in Workers : pc'[v] \in Locked <=> pc[v] \in Locked
      BY <1>2 DEF Locked, TypeOK
    <2> QED
      BY <1>2, <1>3, <2>1, TornKept
  <1>6. m \in S /\ S \subseteq Service!Taken(c)
    <2>1. CopyOfTurns(w)
      BY <1>2 DEF TurnInv
    <2> QED
      BY <1>1, <1>2, <2>1 DEF CopyOfTurns, Ran, Service!Taken
  <1>7. S = session[c] \cup {m} \/ session[c] = {} \/ c \in Torn
    <2>1. w \in Inside(c) /\ w \in Holding(c)
      BY <1>1, <1>2 DEF Inside, Holding, Locked
    <2>2. CASE c \in stolen \/ w \in blind
      BY <2>1, <2>2 DEF Torn
    <2>3. CASE c \notin stolen /\ w \notin blind
      <3>1. CopyIsExact(w, c)
        BY <2>1, <2>3 DEF TurnInv
      <3> QED
        BY <1>1, <1>2, <3>1 DEF CopyIsExact
    <2> QED
      BY <2>2, <2>3
  <1>8. Service!Turn(c, m, S)
    BY <1>2, <1>4, <1>5, <1>6, <1>7 DEF Service!Turn
  <1> QED
    BY <1>8

\* XACK settles a message that was run or dropped, or whose copy is still open.
LEMMA AckImplements ==
    ASSUME TypeOK, NoLossInv, NEW w \in Workers, Ack(w)
    PROVE  Service!Tear \/ \E m \in Msgs : Service!Settle(m)
  <1>1. PICK m \in Msgs, x \in 1..last : m = MsgOf(w) /\ x = cur[w] /\ m = msgOf[x]
    BY EntryType DEF Ack, MsgOf
  <1>2. /\ UNCHANGED <<msgOf, last, delivered, session, dropped, runs, claims, stolen, blind>>
        /\ pel' = pel \/ pel' = pel \ {x}
        /\ pc[w] = "ack" /\ pc' = [pc EXCEPT ![w] = "next"]
        /\ \A v \in Workers \ {w} : cur'[v] = cur[v]
    BY <1>1 DEF Ack, redis, history, TypeOK
  <1>3. \A e \in 1..last : (Live(e)' => Live(e)) /\ (Live(e) => Live(e)' \/ e = x)
    BY <1>2 DEF Live
  <1>4. Chances' = Chances
    BY <1>2, ChancesKept
  <1>5. Torn' = Torn
    <2>1. \A v \in Workers : /\ pc'[v] \in Locked <=> pc[v] \in Locked
                             /\ pc[v] \in Locked => cur'[v] = cur[v]
      BY <1>2 DEF Locked, TypeOK
    <2> QED
      BY <1>2, <2>1, TornKept
  <1>6. Torn \in SUBSET Chats
    BY DEF Torn
  <1>7. Open' \subseteq Open
    BY <1>2, <1>3 DEF Open
  <1>8. Open \subseteq Open' \cup {m}
    BY <1>1, <1>2, <1>3 DEF Open
  <1>9. CASE m \in Open' \/ m \notin Open
    <2>1. Open' = Open
      BY <1>7, <1>8, <1>9
    <2>2. Service!Tear
      BY <1>2, <1>4, <1>5, <1>6, <2>1 DEF Service!Tear
    <2> QED
      BY <2>2
  <1>10. CASE m \notin Open' /\ m \in Open
    <2>1. Open' = Open \ {m}
      BY <1>7, <1>8, <1>10
    <2>2. ~Pending(m, x)
      <3>1. SUFFICES ASSUME NEW e \in 1..last, x < e, msgOf[e] = m, Live(e)
                     PROVE  FALSE
        BY DEF Pending
      <3>2. e # x
        BY <3>1
      <3>3. Live(e)'
        BY <1>3, <3>1, <3>2
      <3> QED
        BY <1>2, <1>10, <3>1, <3>3 DEF Open
    <2>3. Handled(m) \/ m \in dropped
      BY <1>1, <1>2, <2>2 DEF NoLossInv, AckInv
    <2>4. Service!Settle(m)
      BY <1>2, <1>4, <1>5, <1>10, <2>1, <2>3 DEF Service!Settle, Handled
    <2> QED
      BY <2>4
  <1> QED
    BY <1>9, <1>10

\* A stored session that expires or is reset is forgotten.
LEMMA WipeImplements ==
    ASSUME TypeOK, NEW c \in Chats, SessionExpire(c) \/ ResetSession(c)
    PROVE  Service!Forget(c)
  <1>1. /\ UNCHANGED <<msgOf, last, delivered, pel, dropped, runs, claims>>
        /\ session' = [session EXCEPT ![c] = {}]
    BY DEF SessionExpire, ResetSession, stream, history
  <1>2. \A e \in 1..last : Live(e)' <=> Live(e)
    BY <1>1 DEF Live
  <1>3. Open' = Open /\ Chances' = Chances
    BY <1>1, <1>2, OpenKept, ChancesKept
  <1>4. Torn' \in SUBSET Chats
    BY DEF Torn
  <1> QED
    BY <1>1, <1>3, <1>4 DEF Service!Forget

\* All that the service sees are these steps.
LEMMA SeenSteps ==
    ASSUME TypeOK, [Next]_vars
    PROVE  \/ Hidden
           \/ \E m \in Msgs : Publish(m)
           \/ \E c \in Chats : SessionExpire(c) \/ ResetSession(c)
           \/ \E w \in Workers :
                 \/ Sweep(w) \/ GiveUp(w) \/ OverRate(w) \/ RequeueFails(w)
                 \/ Requeue(w) \/ Execute(w) \/ ExecuteRaises(w)
                 \/ SaveSession(w) \/ Ack(w)
  <1> USE ConsumerAssumption
  <1> DEFINE Calm == UNCHANGED <<msgOf, last, delivered, pel, runs, claims, dropped, session>>
  <1>1. Calm => Hidden
    BY DEF Hidden, Live
  <1> USE DEF stream, redis, memory, history
  <1>2. ASSUME NEW w \in Workers, ReadGroup(w) \/ ReadGroupFails(w)
        PROVE  Hidden
    <2>1. /\ delivered' = delivered + Readable
          /\ pel' = pel \cup (delivered + 1)..(delivered + Readable)
          /\ UNCHANGED <<msgOf, last, runs, claims, dropped, session>>
      BY <1>2 DEF ReadGroup, ReadGroupFails, Deliver
    <2>2. Readable \in 0..(last - delivered) /\ delivered \in Nat /\ last \in Nat
      BY DEF Readable, TypeOK
    <2>3. \A e \in 1..last : Live(e)' <=> Live(e)
      BY <2>1, <2>2 DEF Live
    <2> QED
      BY <2>1, <2>3 DEF Hidden
  <1>3. ASSUME NEW w \in Workers,
               \/ TokenRaises(w) \/ SkipProcessed(w) \/ NotProcessed(w)
               \/ WithinRate(w) \/ AcquireLock(w) \/ LockBusy(w) \/ AcquireRaises(w)
        PROVE  Calm
    BY <1>3 DEF TokenRaises, SkipProcessed, NotProcessed, WithinRate, AcquireLock,
                LockBusy, AcquireRaises
  <1>4. ASSUME NEW w \in Workers,
               \/ LoadSession(w) \/ LoadFails(w) \/ SaveFails(w)
               \/ ReleaseLock(w) \/ MarkProcessed(w) \/ Crash(w)
        PROVE  Calm
    BY <1>4 DEF LoadSession, LoadFails, SaveFails, ReleaseLock, MarkProcessed, Crash
  <1>5. ASSUME NEW c \in Chats, LockExpire(c)
        PROVE  Calm
    BY <1>5 DEF LockExpire
  <1>6. ASSUME NEW e \in Ids, KeyExpire(e)
        PROVE  Calm
    BY <1>6 DEF KeyExpire
  <1>7. RollMinute => Calm
    BY DEF RollMinute
  <1>8. UNCHANGED vars => Calm
    BY DEF vars
  <1> HIDE DEF Calm
  <1> QED
    BY <1>1, <1>2, <1>3, <1>4, <1>5, <1>6, <1>7, <1>8 DEF Next, Environment, Step

\* flow-engine does what Conversations promises, whatever its replicas do to each
\* other: to who writes to it, a turn is one atomic step, a message settles only
\* when it was run or dropped, and runs at most once per delivery.
THEOREM AtomicTurns == Spec => ImplementsConversations
  <1>1. Init => Service!Init
    <2> SUFFICES ASSUME Init
                 PROVE  Service!Init
      OBVIOUS
    <2>1. /\ last = 0 /\ session = [c \in Chats |-> {}] /\ dropped = {}
          /\ runs = [m \in Msgs |-> 0] /\ stolen = {} /\ blind = {}
      BY DEF Init
    <2>2. 1..last = {}
      BY <2>1
    <2>3. Open = {} /\ Torn = {} /\ Chances = [m \in Msgs |-> 0]
      BY <2>1, <2>2 DEF Open, Torn, Chances, Published
    <2> QED
      BY <2>1, <2>3 DEF Service!Init
  <1>2. Grounds /\ TypeOK' /\ [Next]_vars => [Service!Next]_(Service!conversations)
    <2> SUFFICES ASSUME Grounds, TypeOK', [Next]_vars
                 PROVE  Service!Next
      OBVIOUS
    <2> USE DEF Grounds
    <2>1. CASE Hidden
      BY <2>1, HiddenSteps DEF Service!Next
    <2>2. ASSUME NEW m \in Msgs, Publish(m)
          PROVE  Service!Next
      BY <2>2, PublishImplements DEF Service!Next
    <2>3. ASSUME NEW c \in Chats, SessionExpire(c) \/ ResetSession(c)
          PROVE  Service!Next
      BY <2>3, WipeImplements DEF Service!Next
    <2>4. ASSUME NEW w \in Workers, Sweep(w)
          PROVE  Service!Next
      BY <2>4, SweepImplements DEF Service!Next
    <2>5. ASSUME NEW w \in Workers, GiveUp(w) \/ OverRate(w) \/ RequeueFails(w)
          PROVE  Service!Next
      BY <2>5, DropImplements DEF Service!Next
    <2>6. ASSUME NEW w \in Workers, Execute(w) \/ ExecuteRaises(w)
          PROVE  Service!Next
      BY <2>6, RunImplements DEF Service!Next
    <2>7. ASSUME NEW w \in Workers, Requeue(w)
          PROVE  Service!Next
      BY <2>7, RequeueImplements DEF Service!Next
    <2>8. ASSUME NEW w \in Workers, SaveSession(w)
          PROVE  Service!Next
      BY <2>8, SaveImplements DEF Service!Next
    <2>9. ASSUME NEW w \in Workers, Ack(w)
          PROVE  Service!Next
      BY <2>9, AckImplements DEF Service!Next
    <2> QED
      BY <2>1, <2>2, <2>3, <2>4, <2>5, <2>6, <2>7, <2>8, <2>9, SeenSteps
  <1>3. Spec => []Grounds
    BY TypeCorrect, LockExcludes, NothingUnbacked, RunsArePaid, TurnsAreExact, PTL
       DEF Grounds
  <1> QED
    BY <1>1, <1>2, <1>3, TypeCorrect, PTL DEF Spec, ImplementsConversations, Service!Spec

-----------------------------------------------------------------------------
(* What a second run takes *)

\* As long as no call has failed, no replica has died and no entry was claimed
\* from a worker that still has it, every pending entry is in some worker's
\* memory, and none was claimed.
CalmInv ==
    mishaps = 0 => /\ \A e \in pel : InHand(e)
                   /\ \A m \in Msgs : claims[m] = 0

\* A step is no mishap, one mishap, or an XAUTOCLAIM.
LEMMA MishapKinds ==
    ASSUME [Next]_vars
    PROVE  \/ UNCHANGED mishaps
           \/ \E kind : Mishap(kind, 1)
           \/ \E w \in Workers : Sweep(w)
  <1> USE DEF Fault, NoFault
  <1>1. Environment \/ UNCHANGED vars => UNCHANGED mishaps \/ \E kind : Mishap(kind, 1)
    BY DEF Environment, vars, Publish, Crash, LockExpire, SessionExpire,
           ResetSession, KeyExpire, RollMinute
  <1>2. ASSUME NEW w \in Workers, Step(w), ~Sweep(w)
        PROVE  UNCHANGED mishaps \/ \E kind : Mishap(kind, 1)
    BY <1>2 DEF Step, ReadGroup, ReadGroupFails, GiveUp, TokenRaises, SkipProcessed,
           NotProcessed, WithinRate, OverRate, AcquireLock, LockBusy, AcquireRaises,
           Requeue, RequeueFails, LoadSession, LoadFails, Execute, ExecuteRaises,
           SaveSession, SaveFails, ReleaseLock, MarkProcessed, Ack
  <1> QED
    BY <1>1, <1>2 DEF Next

\* Mishaps are counted, and never forgotten.
LEMMA MishapsGrow ==
    ASSUME TypeOK, TypeOK', [Next]_vars
    PROVE  mishaps <= mishaps'
  <1> USE ConsumerAssumption DEF TypeOK
  <1>1. ASSUME NEW kind, Mishap(kind, 1)
        PROVE  mishaps <= mishaps'
    BY <1>1 DEF Mishap
  <1>2. ASSUME NEW w \in Workers, Sweep(w)
        PROVE  mishaps <= mishaps'
    <2>1. PICK S \in SUBSET pel : Mishap("steal", Cardinality({e \in S : InHand(e)}))
      BY <1>2 DEF Sweep
    <2> DEFINE taken == {e \in S : InHand(e)}
    <2>2. Cardinality(taken) \in Nat
      <3>1. delivered \in Nat
        OBVIOUS
      <3>2. pel \subseteq 1..delivered
        OBVIOUS
      <3>3. taken \in SUBSET (1..delivered)
        BY <3>2
      <3> HIDE DEF taken
      <3> QED
        BY <3>1, <3>3, PendingCount
    <2> QED
      BY <2>1, <2>2 DEF Mishap
  <1>3. \/ UNCHANGED mishaps
        \/ \E kind : Mishap(kind, 1)
        \/ \E w \in Workers : Sweep(w)
    BY MishapKinds
  <1> QED
    BY <1>1, <1>2, <1>3

\* An XAUTOCLAIM that finds only entries that workers have is a mishap.
LEMMA SweepIsMishap ==
    ASSUME TypeOK, CalmInv, mishaps = 0, NEW w \in Workers, Sweep(w)
    PROVE  mishaps' # 0
  <1>1. PICK S \in (SUBSET pel) \ {{}} : Mishap("steal", Cardinality({e \in S : InHand(e)}))
    BY DEF Sweep
  <1>2. {e \in S : InHand(e)} = S
    BY DEF CalmInv
  <1>3. IsFiniteSet(S)
    <2>1. IsFiniteSet(1..delivered)
      BY FS_Interval DEF TypeOK
    <2>2. S \subseteq 1..delivered
      BY DEF TypeOK
    <2> QED
      BY <2>1, <2>2, FS_Subset
  <1>4. S # {}
    BY <1>1
  <1>5. Cardinality(S) \in Nat /\ Cardinality(S) # 0
    BY <1>3, <1>4, FS_CardinalityType, FS_EmptySet
  <1>6. mishaps' = mishaps + Cardinality(S)
    BY <1>1, <1>2 DEF Mishap
  <1> QED
    BY <1>5, <1>6

\* Without mishaps an entry leaves memory only when it leaves the pending list.
LEMMA CalmSteps ==
    ASSUME TypeOK, [Next]_vars, mishaps = 0, mishaps' = 0,
           \A w \in Workers : ~Sweep(w)
    PROVE  /\ claims' = claims
           /\ \A e \in pel' : InHand(e) \/ e \notin pel => InHand(e)'
  <1> DEFINE Good == /\ claims' = claims
                     /\ \A e \in pel' : InHand(e) \/ e \notin pel => InHand(e)'
             Same == UNCHANGED <<claims, pel, batch, cur>>
  <1> USE ConsumerAssumption
  <1>1. Same => Good
    BY DEF InHand
  <1> USE DEF stream, redis, memory, history
  <1>2. ASSUME NEW w \in Workers, ReadGroup(w)
        PROVE  Good
    <2>1. /\ pel' = pel \cup (delivered + 1)..(delivered + Readable)
          /\ batch' = [batch EXCEPT ![w] = (delivered + 1)..(delivered + Readable)]
          /\ UNCHANGED <<claims, cur>> /\ batch[w] = {}
      BY <1>2 DEF ReadGroup, Deliver
    <2>2. \A v \in Workers : batch[v] \subseteq batch'[v]
      BY <2>1 DEF TypeOK
    <2>3. batch'[w] = (delivered + 1)..(delivered + Readable)
      BY <2>1 DEF TypeOK
    <2> QED
      BY <2>1, <2>2, <2>3 DEF InHand
  <1>3. ASSUME NEW w \in Workers, NEW x, NEW s, Take(w, x, s), UNCHANGED <<claims, pel>>
        PROVE  Good
    <2>1. cur[w] = None /\ cur'[w] = x /\ batch'[w] = batch[w] \ {x}
      BY <1>3 DEF Take, TypeOK
    <2>2. \A v \in Workers \ {w} : cur'[v] = cur[v] /\ batch'[v] = batch[v]
      BY <1>3 DEF Take, TypeOK
    <2>3. \A e \in pel : e # None
      BY DEF TypeOK
    <2> QED
      BY <1>3, <2>1, <2>2, <2>3 DEF InHand
  <1>4. ASSUME NEW w \in Workers, GiveUp(w) \/ SkipProcessed(w) \/ NotProcessed(w)
        PROVE  Good
    <2>1. PICK x, s : Take(w, x, s) /\ UNCHANGED <<claims, pel>>
      BY <1>4 DEF GiveUp, SkipProcessed, NotProcessed
    <2> QED
      BY <1>3, <2>1
  <1>5. ASSUME NEW w \in Workers, Ack(w)
        PROVE  Good
    <2>1. /\ pel' = pel \ {cur[w]} /\ cur' = [cur EXCEPT ![w] = None]
          /\ UNCHANGED <<claims, batch>>
      BY <1>5 DEF Ack, Fault, Mishap
    <2>2. \A v \in Workers \ {w} : cur'[v] = cur[v]
      BY <2>1 DEF TypeOK
    <2> QED
      BY <2>1, <2>2 DEF InHand
  <1>6. ASSUME NEW w \in Workers,
               \/ ReadGroupFails(w) \/ TokenRaises(w) \/ AcquireRaises(w) \/ Crash(w)
               \/ RequeueFails(w) \/ LoadFails(w) \/ SaveFails(w)
        PROVE  FALSE
    BY <1>6 DEF ReadGroupFails, TokenRaises, AcquireRaises, Crash, RequeueFails,
                LoadFails, SaveFails, Fault, Mishap
  <1>7. ASSUME NEW w \in Workers,
               \/ WithinRate(w) \/ OverRate(w) \/ AcquireLock(w) \/ LockBusy(w)
               \/ Requeue(w) \/ LoadSession(w) \/ Execute(w) \/ ExecuteRaises(w)
        PROVE  Same
    BY <1>7 DEF WithinRate, OverRate, AcquireLock, LockBusy, Requeue, LoadSession,
                Execute, ExecuteRaises, Goto
  <1>8. ASSUME NEW w \in Workers, SaveSession(w) \/ ReleaseLock(w) \/ MarkProcessed(w)
        PROVE  Same
    BY <1>8 DEF SaveSession, ReleaseLock, MarkProcessed, Goto
  <1>9. ASSUME NEW m \in Msgs, Publish(m)
        PROVE  Same
    BY <1>9 DEF Publish
  <1>10. ASSUME NEW c \in Chats, LockExpire(c) \/ SessionExpire(c) \/ ResetSession(c)
         PROVE  Same
    BY <1>10 DEF LockExpire, SessionExpire, ResetSession
  <1>11. ASSUME NEW e \in Ids, KeyExpire(e)
         PROVE  Same
    BY <1>11 DEF KeyExpire
  <1>12. RollMinute => Same
    BY DEF RollMinute
  <1>13. UNCHANGED vars => Same
    BY DEF vars
  <1> HIDE DEF Good, Same
  <1>14. Good
    BY <1>1, <1>2, <1>4, <1>5, <1>6, <1>7, <1>8, <1>9, <1>10, <1>11, <1>12, <1>13
       DEF Next, Environment, Step
  <1> QED
    BY <1>14 DEF Good

\* ADR-001 is right about fair weather: the executor runs twice for a message only
\* after a call to Redis or Postgres has failed, a replica has died, or a sweep
\* has claimed an entry that a worker was still at.  Neither a busy lock, nor a
\* lock key or an idempotency key that expires, is enough.
THEOREM SecondRunTakesMishap == Spec => [](mishaps = 0 => IdempotentConsumer)
  <1>1. Init => CalmInv
    BY DEF Init, CalmInv
  <1>2. TypeOK /\ TypeOK' /\ CalmInv /\ [Next]_vars => CalmInv'
    <2> SUFFICES ASSUME TypeOK, TypeOK', CalmInv, [Next]_vars, mishaps' = 0
                 PROVE  (/\ \A e \in pel : InHand(e)
                         /\ \A m \in Msgs : claims[m] = 0)'
      BY DEF CalmInv
    <2>1. mishaps = 0
      <3>1. mishaps \in Nat /\ mishaps' \in Nat
        BY DEF TypeOK
      <3>2. mishaps <= mishaps'
        BY MishapsGrow
      <3> QED
        BY <3>1, <3>2
    <2>2. \A w \in Workers : ~Sweep(w)
      BY <2>1, SweepIsMishap
    <2>3. /\ claims' = claims
          /\ \A e \in pel' : InHand(e) \/ e \notin pel => InHand(e)'
      BY <2>1, <2>2, CalmSteps
    <2> QED
      BY <2>1, <2>3 DEF CalmInv
  <1>3. TypeOK /\ CalmInv /\ OneRunPerDelivery => (mishaps = 0 => IdempotentConsumer)
    BY DEF CalmInv, OneRunPerDelivery, IdempotentConsumer, TypeOK
  <1> QED
    BY <1>1, <1>2, <1>3, TypeCorrect, OncePerDelivery, PTL DEF Spec
=============================================================================
