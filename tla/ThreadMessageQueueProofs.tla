----------------------- MODULE ThreadMessageQueueProofs -----------------------
(***************************************************************************)
(* Safety of CThreadMessageQueue for any number of threads and items, any  *)
(* capacity and any choice of calls and faults: type correctness, that no  *)
(* posted item is left to sleeping receivers, that an answered             *)
(* SendMessage was processed, and that the queue implements Mailbox.       *)
(***************************************************************************)
EXTENDS ThreadMessageQueue, TLAPS

(***************************************************************************)
(* The inductive invariant.  NoLostWakeup speaks of the states where the   *)
(* mutex is free; between AddTail and SetEvent the item is covered by the  *)
(* sender that holds the mutex.                                            *)
(***************************************************************************)

\* A sender is between AddTail and SetEvent exactly while it holds the mutex.
LockerSignals ==
    \A t \in Senders : pc[t] = "signal" <=> m_MsgQueueItemListLocker = t

\* SetEvent empties the waiters with the flag, and no thread joins them while it is up.
UpMeansNoWaiters == m_MsgQueueEvent.m_bHasEvent => m_MsgQueueEvent.waiters = {}

ItemsAreSignalled ==
    m_MsgQueueItemList # <<>> =>
        m_MsgQueueEvent.m_bHasEvent \/ m_MsgQueueItemListLocker # NoThread

\* The steps that use the thread's item have one.
HasItem ==
    /\ \A t \in Senders : pc[t] # "idle" => item[t] \in Items
    /\ \A t \in Receivers : pc[t] \in {"handle", "reply"} => item[t] \in Items

IInv == TypeOK /\ LockerSignals /\ UpMeansNoWaiters /\ ItemsAreSignalled /\ HasItem

(***************************************************************************)
(* What AnswerMeansProcessed needs on top of it.                           *)
(***************************************************************************)
EventMeansProcessed ==
    \A m \in Items : m_EventOnProcessed[m].m_bHasEvent => m \in processed

ReplyMeansProcessed ==
    \A t \in Receivers : pc[t] = "reply" => item[t] \in processed

\* A sender that was broadcast to, and did not run since, has its answer.
WokenMeansProcessed ==
    \A t \in Senders :
        pc[t] = "asleep" /\ t \notin m_EventOnProcessed[item[t]].waiters
            => item[t] \in processed

AnswerInv ==
    /\ EventMeansProcessed
    /\ ReplyMeansProcessed
    /\ WokenMeansProcessed
    /\ AnswerMeansProcessed

-----------------------------------------------------------------------------
(* The inductive invariant holds.                                          *)

\* CThreadMessageQueue's constructor establishes it.
LEMMA InitIInv == Init => IInv
BY ConstantsAssumption
   DEF Init, IInv, TypeOK, LockerSignals, UpMeansNoWaiters, ItemsAreSignalled, HasItem,
       NewEvent, EventOf, Threads, Outcomes

\* Every operation of the queue preserves it.
LEMMA NextIInv == IInv /\ [Next]_vars => IInv'
<1> SUFFICES ASSUME IInv, [Next]_vars PROVE IInv'
    OBVIOUS
<1> USE ConstantsAssumption
        DEF Threads, Goto, Proceed, Return, queueVars, threadVars, listenerVars, historyVars
<1>a. TypeOK /\ LockerSignals /\ UpMeansNoWaiters /\ ItemsAreSignalled /\ HasItem
    BY DEF IInv
<1>1. ASSUME NEW t \in Senders, NEW c \in SenderCalls, NEW m \in Items, BeginSend(t, c, m)
      PROVE  IInv'
    <2>1. TypeOK'
        BY <1>a, <1>1
           DEF BeginSend, EventOf, ResetEvent, TypeOK, HasItem, Outcomes, SendOps,
               TakeOps
    <2>2. LockerSignals' /\ UpMeansNoWaiters' /\ ItemsAreSignalled'
        BY <1>a, <1>1
           DEF BeginSend, EventOf, ResetEvent, TypeOK, LockerSignals, UpMeansNoWaiters,
               ItemsAreSignalled
    <2>3. HasItem'
        BY <1>a, <1>1 DEF BeginSend, TypeOK, HasItem
    <2>4. QED
        BY <2>1, <2>2, <2>3 DEF IInv
<1>2. ASSUME NEW t \in Senders, PostAppend(t) PROVE IInv'
    <2>1. TypeOK'
        BY <1>a, <1>2 DEF PostAppend, TypeOK, HasItem, Outcomes, SendOps, TakeOps
    <2>2. LockerSignals' /\ UpMeansNoWaiters' /\ ItemsAreSignalled'
        BY <1>a, <1>2
           DEF PostAppend, TypeOK, LockerSignals, UpMeansNoWaiters, ItemsAreSignalled
    <2>3. HasItem'
        BY <1>a, <1>2 DEF PostAppend, TypeOK, HasItem
    <2>4. QED
        BY <2>1, <2>2, <2>3 DEF IInv
<1>3. ASSUME NEW t \in Senders, PostBusy(t) PROVE IInv'
    <2>1. TypeOK'
        BY <1>a, <1>3 DEF PostBusy, TypeOK, HasItem, Outcomes, SendOps, TakeOps
    <2>2. LockerSignals' /\ UpMeansNoWaiters' /\ ItemsAreSignalled'
        BY <1>a, <1>3
           DEF PostBusy, TypeOK, LockerSignals, UpMeansNoWaiters, ItemsAreSignalled
    <2>3. HasItem'
        BY <1>a, <1>3 DEF PostBusy, TypeOK, HasItem
    <2>4. QED
        BY <2>1, <2>2, <2>3 DEF IInv
<1>4. ASSUME NEW t \in Senders, PostSignal(t) PROVE IInv'
    <2>1. TypeOK'
        BY <1>a, <1>4
           DEF PostSignal, EventOf, SetEvent, TypeOK, HasItem, Outcomes, SendOps,
               TakeOps
    <2>2. LockerSignals' /\ UpMeansNoWaiters' /\ ItemsAreSignalled'
        BY <1>a, <1>4
           DEF PostSignal, EventOf, SetEvent, TypeOK, LockerSignals, UpMeansNoWaiters,
               ItemsAreSignalled
    <2>3. HasItem'
        BY <1>a, <1>4 DEF PostSignal, TypeOK, HasItem
    <2>4. QED
        BY <2>1, <2>2, <2>3 DEF IInv
<1>5. ASSUME NEW t \in Senders, PostNotify(t) PROVE IInv'
    <2>1. TypeOK'
        BY <1>a, <1>5 DEF PostNotify, TypeOK, HasItem, Outcomes, SendOps, TakeOps
    <2>2. LockerSignals' /\ UpMeansNoWaiters' /\ ItemsAreSignalled'
        BY <1>a, <1>5
           DEF PostNotify, TypeOK, LockerSignals, UpMeansNoWaiters, ItemsAreSignalled
    <2>3. HasItem'
        BY <1>a, <1>5 DEF PostNotify, TypeOK, HasItem
    <2>4. QED
        BY <2>1, <2>2, <2>3 DEF IInv
<1>6. ASSUME NEW t \in Senders, SendWait(t) PROVE IInv'
    <2>1. TypeOK'
        <3>1. CASE m_EventOnProcessed[item[t]].m_bHasEvent
            BY <1>a, <1>6, <3>1, SMTT(30) DEF SendWait, TypeOK, Outcomes
        <3>2. CASE ~m_EventOnProcessed[item[t]].m_bHasEvent
            BY <1>a, <1>6, <3>2 DEF SendWait, EventOf, BeginWait, TypeOK, HasItem, Outcomes
        <3>3. QED
            BY <3>1, <3>2
    <2>2. LockerSignals' /\ UpMeansNoWaiters' /\ ItemsAreSignalled'
        BY <1>a, <1>6
           DEF SendWait, EventOf, BeginWait, TypeOK, LockerSignals, UpMeansNoWaiters,
               ItemsAreSignalled
    <2>3. HasItem'
        BY <1>a, <1>6 DEF SendWait, TypeOK, HasItem
    <2>4. QED
        BY <2>1, <2>2, <2>3 DEF IInv
<1>7. ASSUME NEW t \in Senders, SendWake(t) PROVE IInv'
    <2>1. TypeOK'
        BY <1>a, <1>7
           DEF SendWake, EventOf, EndWait, TypeOK, HasItem, Outcomes, SendOps, TakeOps
    <2>2. LockerSignals' /\ UpMeansNoWaiters' /\ ItemsAreSignalled'
        BY <1>a, <1>7
           DEF SendWake, EventOf, EndWait, TypeOK, LockerSignals, UpMeansNoWaiters,
               ItemsAreSignalled
    <2>3. HasItem'
        BY <1>a, <1>7 DEF SendWake, TypeOK, HasItem
    <2>4. QED
        BY <2>1, <2>2, <2>3 DEF IInv
<1>8. ASSUME NEW t \in Senders, SendTimeout(t) PROVE IInv'
    <2>1. TypeOK'
        BY <1>a, <1>8
           DEF SendTimeout, EventOf, EndWait, TypeOK, HasItem, Outcomes, SendOps,
               TakeOps
    <2>2. LockerSignals' /\ UpMeansNoWaiters' /\ ItemsAreSignalled'
        BY <1>a, <1>8
           DEF SendTimeout, EventOf, EndWait, TypeOK, LockerSignals, UpMeansNoWaiters,
               ItemsAreSignalled
    <2>3. HasItem'
        BY <1>a, <1>8 DEF SendTimeout, TypeOK, HasItem
    <2>4. QED
        BY <2>1, <2>2, <2>3 DEF IInv
<1>9. ASSUME NEW t \in Receivers, NEW c \in ReceiverCalls, BeginTake(t, c) PROVE IInv'
    <2>1. TypeOK'
        BY <1>a, <1>9 DEF BeginTake, TypeOK, HasItem, Outcomes, SendOps, TakeOps
    <2>2. LockerSignals' /\ UpMeansNoWaiters' /\ ItemsAreSignalled'
        BY <1>a, <1>9
           DEF BeginTake, TypeOK, LockerSignals, UpMeansNoWaiters, ItemsAreSignalled
    <2>3. HasItem'
        BY <1>a, <1>9 DEF BeginTake, TypeOK, HasItem
    <2>4. QED
        BY <2>1, <2>2, <2>3 DEF IInv
<1>10. ASSUME NEW t \in Receivers, TakeHead(t) PROVE IInv'
    <2>1. TypeOK'
        <3>1. CASE call[t] = "WaitMessageTimeout"
            BY <1>a, <1>10, <3>1 DEF TakeHead, TypeOK, HasItem, Outcomes
        <3>2. CASE call[t] # "WaitMessageTimeout"
            <4>1. Head(m_MsgQueueItemList) \in Items /\ Tail(m_MsgQueueItemList) \in Seq(Items)
                BY <1>a, <1>10 DEF TakeHead, TypeOK
            <4>2. QED
                BY <1>a, <1>10, <3>2, <4>1 DEF TakeHead, TypeOK, Outcomes
        <3>3. QED
            BY <3>1, <3>2
    <2>2. LockerSignals' /\ UpMeansNoWaiters' /\ ItemsAreSignalled'
        BY <1>a, <1>10
           DEF TakeHead, TypeOK, LockerSignals, UpMeansNoWaiters, ItemsAreSignalled
    <2>3. HasItem'
        BY <1>a, <1>10 DEF TakeHead, TypeOK, HasItem
    <2>4. QED
        BY <2>1, <2>2, <2>3 DEF IInv
<1>11. ASSUME NEW t \in Receivers, TakeNone(t) PROVE IInv'
    <2>1. TypeOK'
        <3>1. m_MsgQueueEvent' \in EventOf(Receivers)
            BY <1>a, <1>11 DEF TakeNone, EventOf, ResetEvent, TypeOK
        <3>2. pc' \in [Threads -> {"idle", "lock", "signal", "notify", "wait", "asleep",
                                  "handle", "reply"}]
            BY <1>a, <1>11 DEF TakeNone, TypeOK
        <3>3. /\ call' \in [Threads -> SendOps \cup TakeOps \cup {"none"}]
             /\ item' \in [Threads -> Items \cup {NoItem}]
            BY <1>a, <1>11 DEF TakeNone, TypeOK
        <3>4. QED
            BY <1>a, <1>11, <3>1, <3>2, <3>3 DEF TakeNone, TypeOK
    <2>2. LockerSignals' /\ UpMeansNoWaiters' /\ ItemsAreSignalled'
        BY <1>a, <1>11
           DEF TakeNone, EventOf, ResetEvent, TypeOK, LockerSignals, UpMeansNoWaiters,
               ItemsAreSignalled
    <2>3. HasItem'
        BY <1>a, <1>11 DEF TakeNone, TypeOK, HasItem
    <2>4. QED
        BY <2>1, <2>2, <2>3 DEF IInv
<1>12. ASSUME NEW t \in Receivers, TakeWait(t) PROVE IInv'
    <2>1. TypeOK'
        <3>1. CASE m_MsgQueueEvent.m_bHasEvent
            BY <1>a, <1>12, <3>1 DEF TakeWait, EventOf, BeginWait, TypeOK, HasItem, Outcomes
        <3>2. CASE ~m_MsgQueueEvent.m_bHasEvent
            <4>1. m_MsgQueueEvent' \in EventOf(Receivers)
                BY <1>a, <1>12, <3>2 DEF TakeWait, EventOf, BeginWait, TypeOK
            <4>2. /\ pc' \in [Threads -> {"idle", "lock", "signal", "notify", "wait", "asleep",
                                          "handle", "reply"}]
                  /\ call' \in [Threads -> SendOps \cup TakeOps \cup {"none"}]
                  /\ item' \in [Threads -> Items \cup {NoItem}]
                BY <1>a, <1>12, <3>2 DEF TakeWait, TypeOK
            <4>3. QED
                BY <1>a, <1>12, <4>1, <4>2 DEF TakeWait, TypeOK
        <3>3. QED
            BY <3>1, <3>2
    <2>2. LockerSignals' /\ UpMeansNoWaiters' /\ ItemsAreSignalled'
        BY <1>a, <1>12
           DEF TakeWait, EventOf, BeginWait, TypeOK, LockerSignals, UpMeansNoWaiters,
               ItemsAreSignalled
    <2>3. HasItem'
        BY <1>a, <1>12 DEF TakeWait, TypeOK, HasItem
    <2>4. QED
        BY <2>1, <2>2, <2>3 DEF IInv
<1>13. ASSUME NEW t \in Receivers, TakeWake(t) PROVE IInv'
    <2>1. TypeOK'
        BY <1>a, <1>13
           DEF TakeWake, EventOf, EndWait, TypeOK, HasItem, Outcomes, SendOps, TakeOps
    <2>2. LockerSignals' /\ UpMeansNoWaiters' /\ ItemsAreSignalled'
        BY <1>a, <1>13
           DEF TakeWake, EventOf, EndWait, TypeOK, LockerSignals, UpMeansNoWaiters,
               ItemsAreSignalled
    <2>3. HasItem'
        BY <1>a, <1>13 DEF TakeWake, TypeOK, HasItem
    <2>4. QED
        BY <2>1, <2>2, <2>3 DEF IInv
<1>14. ASSUME NEW t \in Receivers, TakeTimeout(t) PROVE IInv'
    <2>1. TypeOK'
        BY <1>a, <1>14
           DEF TakeTimeout, EventOf, EndWait, TypeOK, HasItem, Outcomes, SendOps,
               TakeOps
    <2>2. LockerSignals' /\ UpMeansNoWaiters' /\ ItemsAreSignalled'
        BY <1>a, <1>14
           DEF TakeTimeout, EventOf, EndWait, TypeOK, LockerSignals, UpMeansNoWaiters,
               ItemsAreSignalled
    <2>3. HasItem'
        BY <1>a, <1>14 DEF TakeTimeout, TypeOK, HasItem
    <2>4. QED
        BY <2>1, <2>2, <2>3 DEF IInv
<1>15. ASSUME NEW t \in Receivers, Handle(t) PROVE IInv'
    <2>1. TypeOK'
        BY <1>a, <1>15 DEF Handle, TypeOK, HasItem, Outcomes, SendOps, TakeOps
    <2>2. LockerSignals' /\ UpMeansNoWaiters' /\ ItemsAreSignalled'
        BY <1>a, <1>15
           DEF Handle, TypeOK, LockerSignals, UpMeansNoWaiters, ItemsAreSignalled
    <2>3. HasItem'
        BY <1>a, <1>15 DEF Handle, TypeOK, HasItem
    <2>4. QED
        BY <2>1, <2>2, <2>3 DEF IInv
<1>16. ASSUME NEW t \in Receivers, Reply(t) PROVE IInv'
    <2>1. TypeOK'
        BY <1>a, <1>16
           DEF Reply, EventOf, SetEvent, TypeOK, HasItem, Outcomes, SendOps, TakeOps
    <2>2. LockerSignals' /\ UpMeansNoWaiters' /\ ItemsAreSignalled'
        BY <1>a, <1>16
           DEF Reply, EventOf, SetEvent, TypeOK, LockerSignals, UpMeansNoWaiters,
               ItemsAreSignalled
    <2>3. HasItem'
        BY <1>a, <1>16 DEF Reply, TypeOK, HasItem
    <2>4. QED
        BY <2>1, <2>2, <2>3 DEF IInv
<1>17. ASSUME setEventListener PROVE IInv'
    <2>1. TypeOK'
        BY <1>a, <1>17 DEF setEventListener, TypeOK, HasItem, Outcomes, SendOps, TakeOps
    <2>2. LockerSignals' /\ UpMeansNoWaiters' /\ ItemsAreSignalled'
        BY <1>a, <1>17
           DEF setEventListener, TypeOK, LockerSignals, UpMeansNoWaiters,
               ItemsAreSignalled
    <2>3. HasItem'
        BY <1>a, <1>17 DEF setEventListener, TypeOK, HasItem
    <2>4. QED
        BY <2>1, <2>2, <2>3 DEF IInv
<1>18. ASSUME ListenerDestroyed PROVE IInv'
    <2>1. TypeOK'
        BY <1>a, <1>18 DEF ListenerDestroyed, TypeOK, HasItem, Outcomes, SendOps, TakeOps
    <2>2. LockerSignals' /\ UpMeansNoWaiters' /\ ItemsAreSignalled'
        BY <1>a, <1>18
           DEF ListenerDestroyed, TypeOK, LockerSignals, UpMeansNoWaiters,
               ItemsAreSignalled
    <2>3. HasItem'
        BY <1>a, <1>18 DEF ListenerDestroyed, TypeOK, HasItem
    <2>4. QED
        BY <2>1, <2>2, <2>3 DEF IInv
<1>19. ASSUME RemoveAllMessage PROVE IInv'
    <2>1. TypeOK'
        BY <1>a, <1>19 DEF RemoveAllMessage, TypeOK, HasItem, Outcomes, SendOps, TakeOps
    <2>2. LockerSignals' /\ UpMeansNoWaiters' /\ ItemsAreSignalled'
        BY <1>a, <1>19
           DEF RemoveAllMessage, TypeOK, LockerSignals, UpMeansNoWaiters,
               ItemsAreSignalled
    <2>3. HasItem'
        BY <1>a, <1>19 DEF RemoveAllMessage, TypeOK, HasItem
    <2>4. QED
        BY <2>1, <2>2, <2>3 DEF IInv
<1>20. CASE UNCHANGED vars
    BY <1>a, <1>20
       DEF vars, IInv, TypeOK, LockerSignals, UpMeansNoWaiters, ItemsAreSignalled,
           HasItem
<1>21. QED
    BY <1>1, <1>2, <1>3, <1>4, <1>5, <1>6, <1>7, <1>8, <1>9, <1>10,
       <1>11, <1>12, <1>13, <1>14, <1>15, <1>16, <1>17, <1>18, <1>19, <1>20
       DEF Next, SenderStep, ReceiverStep

\* The variables keep their types, for any number of threads and items.
THEOREM TypeCorrect == Spec => []TypeOK
<1>1. Init => IInv
    BY InitIInv
<1>2. IInv /\ [Next]_vars => IInv'
    BY NextIInv
<1>3. IInv => TypeOK
    BY DEF IInv
<1>4. QED
    BY <1>1, <1>2, <1>3, PTL DEF Spec

\* Whatever the interleaving of PostMessage, the receive calls, their timeouts, spurious
\* wakeups and RemoveAllMessage, no item is queued behind a receiver that sleeps.
THEOREM NoItemIsStranded == Spec => []NoLostWakeup
<1>1. Init => IInv
    BY InitIInv
<1>2. IInv /\ [Next]_vars => IInv'
    BY NextIInv
<1>3. IInv => NoLostWakeup
    BY DEF IInv, UpMeansNoWaiters, ItemsAreSignalled, NoLostWakeup
<1>4. QED
    BY <1>1, <1>2, <1>3, PTL DEF Spec

-----------------------------------------------------------------------------
(* Answers.                                                                *)

\* No answer is owed and none has been given when the queue is created.
LEMMA InitAnswerInv == Init => AnswerInv
BY ConstantsAssumption
   DEF Init, AnswerInv, EventMeansProcessed, ReplyMeansProcessed, WokenMeansProcessed,
       AnswerMeansProcessed, NewEvent, Threads

\* Only Reply sets an item's event, and it follows Handle.
LEMMA NextAnswerInv == IInv /\ AnswerInv /\ [Next]_vars => AnswerInv'
<1> SUFFICES ASSUME IInv, AnswerInv, [Next]_vars PROVE AnswerInv'
    OBVIOUS
<1> USE ConstantsAssumption
        DEF Threads, Goto, Proceed, Return, queueVars, threadVars, listenerVars, historyVars
<1>a. TypeOK /\ HasItem /\ TypeOK'
    BY NextIInv DEF IInv
<1>b. /\ EventMeansProcessed
      /\ ReplyMeansProcessed
      /\ WokenMeansProcessed
      /\ AnswerMeansProcessed
    BY DEF AnswerInv
<1>1. ASSUME NEW t \in Senders, NEW c \in SenderCalls, NEW m \in Items, BeginSend(t, c, m)
      PROVE  AnswerInv'
    <2>1. EventMeansProcessed' /\ ReplyMeansProcessed'
        BY <1>a, <1>b, <1>1
           DEF BeginSend, ResetEvent, TypeOK, HasItem, EventOf, EventMeansProcessed,
               ReplyMeansProcessed
    <2>2. WokenMeansProcessed'
        BY <1>a, <1>b, <1>1
           DEF BeginSend, ResetEvent, TypeOK, HasItem, EventOf, ReplyMeansProcessed,
               WokenMeansProcessed
    <2>3. AnswerMeansProcessed'
        BY <1>a, <1>b, <1>1
           DEF BeginSend, TypeOK, HasItem, MayWake, EventMeansProcessed,
               WokenMeansProcessed, AnswerMeansProcessed
    <2>4. QED
        BY <2>1, <2>2, <2>3 DEF AnswerInv
<1>2. ASSUME NEW t \in Senders, PostAppend(t) PROVE AnswerInv'
    <2>1. EventMeansProcessed' /\ ReplyMeansProcessed'
        BY <1>a, <1>b, <1>2
           DEF PostAppend, TypeOK, HasItem, EventOf, EventMeansProcessed,
               ReplyMeansProcessed
    <2>2. WokenMeansProcessed'
        BY <1>a, <1>b, <1>2
           DEF PostAppend, TypeOK, HasItem, EventOf, ReplyMeansProcessed,
               WokenMeansProcessed
    <2>3. AnswerMeansProcessed'
        BY <1>a, <1>b, <1>2
           DEF PostAppend, TypeOK, HasItem, MayWake, EventMeansProcessed,
               WokenMeansProcessed, AnswerMeansProcessed
    <2>4. QED
        BY <2>1, <2>2, <2>3 DEF AnswerInv
<1>3. ASSUME NEW t \in Senders, PostBusy(t) PROVE AnswerInv'
    <2>1. EventMeansProcessed' /\ ReplyMeansProcessed'
        BY <1>a, <1>b, <1>3
           DEF PostBusy, TypeOK, HasItem, EventOf, EventMeansProcessed,
               ReplyMeansProcessed
    <2>2. WokenMeansProcessed'
        BY <1>a, <1>b, <1>3
           DEF PostBusy, TypeOK, HasItem, EventOf, ReplyMeansProcessed,
               WokenMeansProcessed
    <2>3. AnswerMeansProcessed'
        BY <1>a, <1>b, <1>3
           DEF PostBusy, TypeOK, HasItem, MayWake, EventMeansProcessed,
               WokenMeansProcessed, AnswerMeansProcessed
    <2>4. QED
        BY <2>1, <2>2, <2>3 DEF AnswerInv
<1>4. ASSUME NEW t \in Senders, PostSignal(t) PROVE AnswerInv'
    <2>1. EventMeansProcessed' /\ ReplyMeansProcessed'
        BY <1>a, <1>b, <1>4
           DEF PostSignal, TypeOK, HasItem, EventOf, EventMeansProcessed,
               ReplyMeansProcessed
    <2>2. WokenMeansProcessed'
        BY <1>a, <1>b, <1>4
           DEF PostSignal, TypeOK, HasItem, EventOf, ReplyMeansProcessed,
               WokenMeansProcessed
    <2>3. AnswerMeansProcessed'
        BY <1>a, <1>b, <1>4
           DEF PostSignal, TypeOK, HasItem, MayWake, EventMeansProcessed,
               WokenMeansProcessed, AnswerMeansProcessed
    <2>4. QED
        BY <2>1, <2>2, <2>3 DEF AnswerInv
<1>5. ASSUME NEW t \in Senders, PostNotify(t) PROVE AnswerInv'
    <2>1. EventMeansProcessed' /\ ReplyMeansProcessed'
        BY <1>a, <1>b, <1>5
           DEF PostNotify, TypeOK, HasItem, EventOf, EventMeansProcessed,
               ReplyMeansProcessed
    <2>2. WokenMeansProcessed'
        BY <1>a, <1>b, <1>5
           DEF PostNotify, TypeOK, HasItem, EventOf, ReplyMeansProcessed,
               WokenMeansProcessed
    <2>3. AnswerMeansProcessed'
        BY <1>a, <1>b, <1>5
           DEF PostNotify, TypeOK, HasItem, MayWake, EventMeansProcessed,
               WokenMeansProcessed, AnswerMeansProcessed
    <2>4. QED
        BY <2>1, <2>2, <2>3 DEF AnswerInv
<1>6. ASSUME NEW t \in Senders, SendWait(t) PROVE AnswerInv'
    <2>1. EventMeansProcessed' /\ ReplyMeansProcessed'
        <3>1. /\ processed' = processed
             /\ \A m \in Items :
                   m_EventOnProcessed'[m].m_bHasEvent = m_EventOnProcessed[m].m_bHasEvent
            <4>1. CASE m_EventOnProcessed[item[t]].m_bHasEvent
                BY <1>6, <4>1 DEF SendWait
            <4>2. CASE ~m_EventOnProcessed[item[t]].m_bHasEvent
                <5>1. m_EventOnProcessed' = [m_EventOnProcessed EXCEPT
                                                ![item[t]] = BeginWait(@, t)]
                      /\ processed' = processed
                    BY <1>6, <4>2 DEF SendWait
                <5>2. QED
                    BY <1>a, <5>1 DEF BeginWait, TypeOK, EventOf
            <4>3. QED
                BY <4>1, <4>2
        <3>2. QED
            BY <1>a, <1>b, <1>6, <3>1
               DEF SendWait, TypeOK, EventMeansProcessed, ReplyMeansProcessed
    <2>2. WokenMeansProcessed'
        BY <1>a, <1>b, <1>6
           DEF SendWait, BeginWait, TypeOK, HasItem, EventOf, ReplyMeansProcessed,
               WokenMeansProcessed
    <2>3. AnswerMeansProcessed'
        BY <1>a, <1>b, <1>6
           DEF SendWait, TypeOK, HasItem, MayWake, EventMeansProcessed,
               WokenMeansProcessed, AnswerMeansProcessed
    <2>4. QED
        BY <2>1, <2>2, <2>3 DEF AnswerInv
<1>7. ASSUME NEW t \in Senders, SendWake(t) PROVE AnswerInv'
    <2>1. EventMeansProcessed' /\ ReplyMeansProcessed'
        BY <1>a, <1>b, <1>7
           DEF SendWake, EndWait, TypeOK, HasItem, EventOf, EventMeansProcessed,
               ReplyMeansProcessed
    <2>2. WokenMeansProcessed'
        BY <1>a, <1>b, <1>7
           DEF SendWake, EndWait, TypeOK, HasItem, EventOf, ReplyMeansProcessed,
               WokenMeansProcessed
    <2>3. AnswerMeansProcessed'
        BY <1>a, <1>b, <1>7
           DEF SendWake, TypeOK, HasItem, MayWake, EventMeansProcessed,
               WokenMeansProcessed, AnswerMeansProcessed
    <2>4. QED
        BY <2>1, <2>2, <2>3 DEF AnswerInv
<1>8. ASSUME NEW t \in Senders, SendTimeout(t) PROVE AnswerInv'
    <2>1. EventMeansProcessed' /\ ReplyMeansProcessed'
        BY <1>a, <1>b, <1>8
           DEF SendTimeout, EndWait, TypeOK, HasItem, EventOf, EventMeansProcessed,
               ReplyMeansProcessed
    <2>2. WokenMeansProcessed'
        BY <1>a, <1>b, <1>8
           DEF SendTimeout, EndWait, TypeOK, HasItem, EventOf, ReplyMeansProcessed,
               WokenMeansProcessed
    <2>3. AnswerMeansProcessed'
        BY <1>a, <1>b, <1>8
           DEF SendTimeout, TypeOK, HasItem, MayWake, EventMeansProcessed,
               WokenMeansProcessed, AnswerMeansProcessed
    <2>4. QED
        BY <2>1, <2>2, <2>3 DEF AnswerInv
<1>9. ASSUME NEW t \in Receivers, NEW c \in ReceiverCalls, BeginTake(t, c) PROVE AnswerInv'
    <2>1. EventMeansProcessed' /\ ReplyMeansProcessed'
        BY <1>a, <1>b, <1>9
           DEF BeginTake, TypeOK, HasItem, EventOf, EventMeansProcessed,
               ReplyMeansProcessed
    <2>2. WokenMeansProcessed'
        BY <1>a, <1>b, <1>9
           DEF BeginTake, TypeOK, HasItem, EventOf, ReplyMeansProcessed,
               WokenMeansProcessed
    <2>3. AnswerMeansProcessed'
        BY <1>a, <1>b, <1>9
           DEF BeginTake, TypeOK, HasItem, MayWake, EventMeansProcessed,
               WokenMeansProcessed, AnswerMeansProcessed
    <2>4. QED
        BY <2>1, <2>2, <2>3 DEF AnswerInv
<1>10. ASSUME NEW t \in Receivers, TakeHead(t) PROVE AnswerInv'
    <2>1. EventMeansProcessed' /\ ReplyMeansProcessed'
        BY <1>a, <1>b, <1>10
           DEF TakeHead, TypeOK, HasItem, EventOf, EventMeansProcessed,
               ReplyMeansProcessed
    <2>2. WokenMeansProcessed'
        BY <1>a, <1>b, <1>10
           DEF TakeHead, TypeOK, HasItem, EventOf, ReplyMeansProcessed,
               WokenMeansProcessed
    <2>3. AnswerMeansProcessed'
        BY <1>a, <1>b, <1>10
           DEF TakeHead, TypeOK, HasItem, MayWake, EventMeansProcessed,
               WokenMeansProcessed, AnswerMeansProcessed
    <2>4. QED
        BY <2>1, <2>2, <2>3 DEF AnswerInv
<1>11. ASSUME NEW t \in Receivers, TakeNone(t) PROVE AnswerInv'
    <2>1. EventMeansProcessed' /\ ReplyMeansProcessed'
        BY <1>a, <1>b, <1>11
           DEF TakeNone, TypeOK, HasItem, EventOf, EventMeansProcessed,
               ReplyMeansProcessed
    <2>2. WokenMeansProcessed'
        BY <1>a, <1>b, <1>11
           DEF TakeNone, TypeOK, HasItem, EventOf, ReplyMeansProcessed,
               WokenMeansProcessed
    <2>3. AnswerMeansProcessed'
        BY <1>a, <1>b, <1>11
           DEF TakeNone, TypeOK, HasItem, MayWake, EventMeansProcessed,
               WokenMeansProcessed, AnswerMeansProcessed
    <2>4. QED
        BY <2>1, <2>2, <2>3 DEF AnswerInv
<1>12. ASSUME NEW t \in Receivers, TakeWait(t) PROVE AnswerInv'
    <2>1. EventMeansProcessed' /\ ReplyMeansProcessed'
        BY <1>a, <1>b, <1>12
           DEF TakeWait, TypeOK, HasItem, EventOf, EventMeansProcessed,
               ReplyMeansProcessed
    <2>2. WokenMeansProcessed'
        BY <1>a, <1>b, <1>12
           DEF TakeWait, TypeOK, HasItem, EventOf, ReplyMeansProcessed,
               WokenMeansProcessed
    <2>3. AnswerMeansProcessed'
        BY <1>a, <1>b, <1>12
           DEF TakeWait, TypeOK, HasItem, MayWake, EventMeansProcessed,
               WokenMeansProcessed, AnswerMeansProcessed
    <2>4. QED
        BY <2>1, <2>2, <2>3 DEF AnswerInv
<1>13. ASSUME NEW t \in Receivers, TakeWake(t) PROVE AnswerInv'
    <2>1. EventMeansProcessed' /\ ReplyMeansProcessed'
        BY <1>a, <1>b, <1>13
           DEF TakeWake, TypeOK, HasItem, EventOf, EventMeansProcessed,
               ReplyMeansProcessed
    <2>2. WokenMeansProcessed'
        BY <1>a, <1>b, <1>13
           DEF TakeWake, TypeOK, HasItem, EventOf, ReplyMeansProcessed,
               WokenMeansProcessed
    <2>3. AnswerMeansProcessed'
        BY <1>a, <1>b, <1>13
           DEF TakeWake, TypeOK, HasItem, MayWake, EventMeansProcessed,
               WokenMeansProcessed, AnswerMeansProcessed
    <2>4. QED
        BY <2>1, <2>2, <2>3 DEF AnswerInv
<1>14. ASSUME NEW t \in Receivers, TakeTimeout(t) PROVE AnswerInv'
    <2>1. EventMeansProcessed' /\ ReplyMeansProcessed'
        BY <1>a, <1>b, <1>14
           DEF TakeTimeout, TypeOK, HasItem, EventOf, EventMeansProcessed,
               ReplyMeansProcessed
    <2>2. WokenMeansProcessed'
        BY <1>a, <1>b, <1>14
           DEF TakeTimeout, TypeOK, HasItem, EventOf, ReplyMeansProcessed,
               WokenMeansProcessed
    <2>3. AnswerMeansProcessed'
        BY <1>a, <1>b, <1>14
           DEF TakeTimeout, TypeOK, HasItem, MayWake, EventMeansProcessed,
               WokenMeansProcessed, AnswerMeansProcessed
    <2>4. QED
        BY <2>1, <2>2, <2>3 DEF AnswerInv
<1>15. ASSUME NEW t \in Receivers, Handle(t) PROVE AnswerInv'
    <2>1. EventMeansProcessed' /\ ReplyMeansProcessed'
        BY <1>a, <1>b, <1>15
           DEF Handle, TypeOK, HasItem, EventOf, EventMeansProcessed,
               ReplyMeansProcessed
    <2>2. WokenMeansProcessed'
        BY <1>a, <1>b, <1>15
           DEF Handle, TypeOK, HasItem, EventOf, ReplyMeansProcessed,
               WokenMeansProcessed
    <2>3. AnswerMeansProcessed'
        BY <1>a, <1>b, <1>15
           DEF Handle, TypeOK, HasItem, MayWake, EventMeansProcessed,
               WokenMeansProcessed, AnswerMeansProcessed
    <2>4. QED
        BY <2>1, <2>2, <2>3 DEF AnswerInv
<1>16. ASSUME NEW t \in Receivers, Reply(t) PROVE AnswerInv'
    <2>1. EventMeansProcessed' /\ ReplyMeansProcessed'
        BY <1>a, <1>b, <1>16
           DEF Reply, SetEvent, TypeOK, HasItem, EventOf, EventMeansProcessed,
               ReplyMeansProcessed
    <2>2. WokenMeansProcessed'
        BY <1>a, <1>b, <1>16
           DEF Reply, SetEvent, TypeOK, HasItem, EventOf, ReplyMeansProcessed,
               WokenMeansProcessed
    <2>3. AnswerMeansProcessed'
        BY <1>a, <1>b, <1>16
           DEF Reply, TypeOK, HasItem, MayWake, EventMeansProcessed,
               WokenMeansProcessed, AnswerMeansProcessed
    <2>4. QED
        BY <2>1, <2>2, <2>3 DEF AnswerInv
<1>17. ASSUME setEventListener PROVE AnswerInv'
    <2>1. EventMeansProcessed' /\ ReplyMeansProcessed'
        BY <1>a, <1>b, <1>17
           DEF setEventListener, TypeOK, HasItem, EventOf, EventMeansProcessed,
               ReplyMeansProcessed
    <2>2. WokenMeansProcessed'
        BY <1>a, <1>b, <1>17
           DEF setEventListener, TypeOK, HasItem, EventOf, ReplyMeansProcessed,
               WokenMeansProcessed
    <2>3. AnswerMeansProcessed'
        BY <1>a, <1>b, <1>17
           DEF setEventListener, TypeOK, HasItem, MayWake, EventMeansProcessed,
               WokenMeansProcessed, AnswerMeansProcessed
    <2>4. QED
        BY <2>1, <2>2, <2>3 DEF AnswerInv
<1>18. ASSUME ListenerDestroyed PROVE AnswerInv'
    <2>1. EventMeansProcessed' /\ ReplyMeansProcessed'
        BY <1>a, <1>b, <1>18
           DEF ListenerDestroyed, TypeOK, HasItem, EventOf, EventMeansProcessed,
               ReplyMeansProcessed
    <2>2. WokenMeansProcessed'
        BY <1>a, <1>b, <1>18
           DEF ListenerDestroyed, TypeOK, HasItem, EventOf, ReplyMeansProcessed,
               WokenMeansProcessed
    <2>3. AnswerMeansProcessed'
        BY <1>a, <1>b, <1>18
           DEF ListenerDestroyed, TypeOK, HasItem, MayWake, EventMeansProcessed,
               WokenMeansProcessed, AnswerMeansProcessed
    <2>4. QED
        BY <2>1, <2>2, <2>3 DEF AnswerInv
<1>19. ASSUME RemoveAllMessage PROVE AnswerInv'
    <2>1. EventMeansProcessed' /\ ReplyMeansProcessed'
        BY <1>a, <1>b, <1>19
           DEF RemoveAllMessage, TypeOK, HasItem, EventOf, EventMeansProcessed,
               ReplyMeansProcessed
    <2>2. WokenMeansProcessed'
        BY <1>a, <1>b, <1>19
           DEF RemoveAllMessage, TypeOK, HasItem, EventOf, ReplyMeansProcessed,
               WokenMeansProcessed
    <2>3. AnswerMeansProcessed'
        BY <1>a, <1>b, <1>19
           DEF RemoveAllMessage, TypeOK, HasItem, MayWake, EventMeansProcessed,
               WokenMeansProcessed, AnswerMeansProcessed
    <2>4. QED
        BY <2>1, <2>2, <2>3 DEF AnswerInv
<1>20. CASE UNCHANGED vars
    BY <1>b, <1>20
       DEF vars, AnswerInv, EventMeansProcessed, ReplyMeansProcessed,
           WokenMeansProcessed, AnswerMeansProcessed
<1>21. QED
    BY <1>1, <1>2, <1>3, <1>4, <1>5, <1>6, <1>7, <1>8, <1>9, <1>10,
       <1>11, <1>12, <1>13, <1>14, <1>15, <1>16, <1>17, <1>18, <1>19, <1>20
       DEF Next, SenderStep, ReceiverStep

\* Without spurious wakeups a successful SendMessage(Timeout) was processed, although
\* WaitEvent does not look at its flag again when it wakes.
THEOREM AnswersAreProcessed == Spec => []AnswerMeansProcessed
<1>1. Init => IInv /\ AnswerInv
    BY InitIInv, InitAnswerInv
<1>2. IInv /\ AnswerInv /\ [Next]_vars => IInv' /\ AnswerInv'
    BY NextIInv, NextAnswerInv
<1>3. AnswerInv => AnswerMeansProcessed
    BY DEF AnswerInv
<1>4. QED
    BY <1>1, <1>2, <1>3, PTL DEF Spec

-----------------------------------------------------------------------------
(***************************************************************************)
(* The queue implements the mailbox.  The abstract stage of an item is     *)
(* read off the place it is in; that the places exclude one another, and   *)
(* that no two threads have the same item in hand, is an invariant.        *)
(***************************************************************************)

\* Every item is with its sender, in the list, in one receiver's hand, or processed.
Apart(m) == m \notin Queued /\ m \notin InHand /\ m \notin processed

NotAppendedIsApart == \A m \in NotAppended : Apart(m)

\* No item is in the list twice, or both there and taken.
QueuedOnce ==
    /\ \A i, j \in DOMAIN m_MsgQueueItemList :
          m_MsgQueueItemList[i] = m_MsgQueueItemList[j] => i = j
    /\ \A m \in Queued : m \notin InHand /\ m \notin processed

\* No item is in the hands of two receivers; it is processed before it is replied to.
TakenOnce ==
    /\ \A r, s \in Receivers :
          pc[r] \in {"handle", "reply"} /\ pc[s] \in {"handle", "reply"} /\ item[r] = item[s] => r = s
    /\ \A r \in Receivers : pc[r] = "handle" => item[r] \notin processed
    /\ \A r \in Receivers : pc[r] = "reply" => item[r] \in processed

\* No item is sent by two senders, and its call has no outcome before it returns, but for
\* the error of a full queue.
SentOnce ==
    /\ \A s, t \in Senders : pc[s] # "idle" /\ pc[t] # "idle" /\ item[s] = item[t] => s = t
    /\ \A t \in Senders : pc[t] # "idle" => item[t] \in posted
    /\ \A t \in Senders : pc[t] \in {"lock", "signal", "wait", "asleep"} => outcome[item[t]] = "none"
    /\ \A t \in Senders : pc[t] = "notify" => outcome[item[t]] \in {"none", "ERR_BUSY"}
    /\ \A m \in Items : m \notin posted => outcome[m] = "none"

PlaceInv == NotAppendedIsApart /\ QueuedOnce /\ TakenOnce /\ SentOnce

\* A new queue has no item anywhere.
LEMMA InitPlaceInv == Init => PlaceInv
<1> SUFFICES ASSUME Init PROVE PlaceInv
    OBVIOUS
<1> USE DEF Init, Threads
<1>1. Queued = {} /\ InHand = {} /\ processed = {}
    BY DEF Queued, InHand
<1>2. QED
    BY <1>1 DEF PlaceInv, NotAppendedIsApart, Apart, QueuedOnce, TakenOnce, SentOnce

\* A sender's step that adds no item to the list.
SenderKeeps ==
    /\ UNCHANGED <<m_MsgQueueItemList, processed>>
    /\ \A r \in Receivers : UNCHANGED <<pc[r], item[r]>>
    /\ NotAppended' = NotAppended
    /\ SentOnce'

\* PostMessage but for its AddTail, and the wait of SendMessage(Timeout), are such steps.
LEMMA SenderSteps ==
    ASSUME IInv, PlaceInv, NEW t \in Senders,
           \/ \E c \in SenderCalls, m \in Items : BeginSend(t, c, m)
           \/ PostBusy(t) \/ PostSignal(t) \/ PostNotify(t)
           \/ SendWait(t) \/ SendWake(t) \/ SendTimeout(t)
    PROVE  SenderKeeps
<1> USE ConstantsAssumption
        DEF Threads, Goto, Proceed, Return, queueVars, threadVars, listenerVars, historyVars
<1>a. TypeOK /\ HasItem
    BY DEF IInv
<1>b. NotAppendedIsApart /\ QueuedOnce /\ TakenOnce /\ SentOnce
    BY DEF PlaceInv
<1>1. ASSUME NEW c \in SenderCalls, NEW m \in Items, BeginSend(t, c, m) PROVE SenderKeeps
    <2>1. /\ UNCHANGED <<m_MsgQueueItemList, processed>>
          /\ \A r \in Receivers : UNCHANGED <<pc[r], item[r]>>
        BY <1>a, <1>1 DEF BeginSend, TypeOK
    <2>2. NotAppended' = NotAppended
        <3>1. \A x : x \in NotAppended' <=> x \in NotAppended
            <4> SUFFICES ASSUME NEW x PROVE x \in NotAppended' <=> x \in NotAppended
                OBVIOUS
            <4>1. (\E s \in Senders : pc'[s] = "lock" /\ x = item'[s])
                      <=> x = m \/ \E s \in Senders : pc[s] = "lock" /\ x = item[s]
                BY <1>a, <1>1 DEF BeginSend, TypeOK
            <4>2. posted' = posted \cup {m} /\ m \in Items \ posted /\ outcome' = outcome
                BY <1>1 DEF BeginSend
            <4>3. QED
                BY <4>1, <4>2 DEF NotAppended
        <3>2. QED
            BY <3>1
    <2>3. SentOnce'
        BY <1>a, <1>b, <1>1 DEF BeginSend, TypeOK, SentOnce, HasItem
    <2>4. QED
        BY <2>1, <2>2, <2>3 DEF SenderKeeps
<1>2. CASE PostBusy(t)
    <2>1. /\ UNCHANGED <<m_MsgQueueItemList, processed>>
          /\ \A r \in Receivers : UNCHANGED <<pc[r], item[r]>>
        BY <1>a, <1>2 DEF PostBusy, TypeOK
    <2>2. NotAppended' = NotAppended
        <3>1. \A x : x \in NotAppended' <=> x \in NotAppended
            <4> SUFFICES ASSUME NEW x PROVE x \in NotAppended' <=> x \in NotAppended
                OBVIOUS
            <4>1. (\E s \in Senders : pc[s] = "lock" /\ x = item[s])
                      <=> x = item[t] \/ \E s \in Senders : pc'[s] = "lock" /\ x = item'[s]
                BY <1>a, <1>2 DEF PostBusy, TypeOK
            <4>2. \A m \in Items : outcome'[m] = "ERR_BUSY" <=> m = item[t] \/ outcome[m] = "ERR_BUSY"
                BY <1>a, <1>2 DEF PostBusy, TypeOK, HasItem
            <4>3. item[t] \in Items /\ posted' = posted
                BY <1>a, <1>2 DEF PostBusy, HasItem
            <4>4. QED
                BY <4>1, <4>2, <4>3 DEF NotAppended
        <3>2. QED
            BY <3>1
    <2>3. SentOnce'
        BY <1>a, <1>b, <1>2 DEF PostBusy, TypeOK, SentOnce, HasItem
    <2>4. QED
        BY <2>1, <2>2, <2>3 DEF SenderKeeps
<1>3. CASE PostSignal(t)
    <2>1. /\ UNCHANGED <<m_MsgQueueItemList, processed>>
          /\ \A r \in Receivers : UNCHANGED <<pc[r], item[r]>>
        BY <1>a, <1>3 DEF PostSignal, TypeOK
    <2>2. NotAppended' = NotAppended
        <3>1. {item'[s] : s \in {s \in Senders : pc'[s] = "lock"}}
                  = {item[s] : s \in {s \in Senders : pc[s] = "lock"}}
            BY <1>a, <1>3 DEF PostSignal, TypeOK
        <3>2. {m \in Items : outcome'[m] = "ERR_BUSY"} = {m \in Items : outcome[m] = "ERR_BUSY"}
            BY <1>a, <1>b, <1>3 DEF PostSignal, TypeOK, SentOnce, HasItem
        <3>3. QED
            BY <1>3, <3>1, <3>2 DEF PostSignal, NotAppended
    <2>3. SentOnce'
        BY <1>a, <1>b, <1>3 DEF PostSignal, TypeOK, SentOnce, HasItem
    <2>4. QED
        BY <2>1, <2>2, <2>3 DEF SenderKeeps
<1>4. CASE PostNotify(t)
    <2>1. /\ UNCHANGED <<m_MsgQueueItemList, processed>>
          /\ \A r \in Receivers : UNCHANGED <<pc[r], item[r]>>
        BY <1>a, <1>4 DEF PostNotify, TypeOK
    <2>2. NotAppended' = NotAppended
        <3>1. {item'[s] : s \in {s \in Senders : pc'[s] = "lock"}}
                  = {item[s] : s \in {s \in Senders : pc[s] = "lock"}}
            BY <1>a, <1>4 DEF PostNotify, TypeOK
        <3>2. {m \in Items : outcome'[m] = "ERR_BUSY"} = {m \in Items : outcome[m] = "ERR_BUSY"}
            BY <1>a, <1>b, <1>4 DEF PostNotify, TypeOK, SentOnce, HasItem
        <3>3. QED
            BY <1>4, <3>1, <3>2 DEF PostNotify, NotAppended
    <2>3. SentOnce'
        <3>1. CASE outcome[item[t]] = "none" /\ call[t] # "PostMessage"
            BY <1>a, <1>b, <1>4, <3>1 DEF PostNotify, TypeOK, SentOnce
        <3>2. CASE ~(outcome[item[t]] = "none" /\ call[t] # "PostMessage")
            <4>1. /\ pc' = [pc EXCEPT ![t] = "idle"] /\ item' = [item EXCEPT ![t] = NoItem]
                  /\ posted' = posted
                  /\ \A m \in Items : m # item[t] => outcome'[m] = outcome[m]
                BY <1>a, <1>4, <3>2 DEF PostNotify, TypeOK
            <4>2. item[t] \in posted /\ item[t] \in Items /\ pc[t] = "notify"
                BY <1>a, <1>b, <1>4 DEF PostNotify, SentOnce, HasItem
            <4>3. \A s \in Senders : pc'[s] # "idle" =>
                      /\ s # t /\ pc'[s] = pc[s] /\ item'[s] = item[s]
                      /\ item[s] # item[t] /\ outcome'[item[s]] = outcome[item[s]]
                BY <1>a, <1>b, <4>1, <4>2 DEF TypeOK, SentOnce, HasItem
            <4>4. QED
                BY <1>b, <4>1, <4>2, <4>3 DEF SentOnce
        <3>3. QED
            BY <3>1, <3>2
    <2>4. QED
        BY <2>1, <2>2, <2>3 DEF SenderKeeps
<1>5. CASE SendWait(t)
    <2>1. /\ UNCHANGED <<m_MsgQueueItemList, processed>>
          /\ \A r \in Receivers : UNCHANGED <<pc[r], item[r]>>
        BY <1>a, <1>5 DEF SendWait, TypeOK
    <2>2. NotAppended' = NotAppended
        <3>1. {item'[s] : s \in {s \in Senders : pc'[s] = "lock"}}
                  = {item[s] : s \in {s \in Senders : pc[s] = "lock"}}
            BY <1>a, <1>5 DEF SendWait, TypeOK
        <3>2. {m \in Items : outcome'[m] = "ERR_BUSY"} = {m \in Items : outcome[m] = "ERR_BUSY"}
            BY <1>a, <1>b, <1>5 DEF SendWait, TypeOK, SentOnce, HasItem
        <3>3. QED
            BY <1>5, <3>1, <3>2 DEF SendWait, NotAppended
    <2>3. SentOnce'
        BY <1>a, <1>b, <1>5 DEF SendWait, TypeOK, SentOnce, HasItem
    <2>4. QED
        BY <2>1, <2>2, <2>3 DEF SenderKeeps
<1>6. CASE SendWake(t)
    <2>1. /\ UNCHANGED <<m_MsgQueueItemList, processed>>
          /\ \A r \in Receivers : UNCHANGED <<pc[r], item[r]>>
        BY <1>a, <1>6 DEF SendWake, TypeOK
    <2>2. NotAppended' = NotAppended
        <3>1. {item'[s] : s \in {s \in Senders : pc'[s] = "lock"}}
                  = {item[s] : s \in {s \in Senders : pc[s] = "lock"}}
            BY <1>a, <1>6 DEF SendWake, TypeOK
        <3>2. {m \in Items : outcome'[m] = "ERR_BUSY"} = {m \in Items : outcome[m] = "ERR_BUSY"}
            BY <1>a, <1>b, <1>6 DEF SendWake, TypeOK, SentOnce, HasItem
        <3>3. QED
            BY <1>6, <3>1, <3>2 DEF SendWake, NotAppended
    <2>3. SentOnce'
        BY <1>a, <1>b, <1>6 DEF SendWake, TypeOK, SentOnce, HasItem
    <2>4. QED
        BY <2>1, <2>2, <2>3 DEF SenderKeeps
<1>7. CASE SendTimeout(t)
    <2>1. /\ UNCHANGED <<m_MsgQueueItemList, processed>>
          /\ \A r \in Receivers : UNCHANGED <<pc[r], item[r]>>
        BY <1>a, <1>7 DEF SendTimeout, TypeOK
    <2>2. NotAppended' = NotAppended
        <3>1. {item'[s] : s \in {s \in Senders : pc'[s] = "lock"}}
                  = {item[s] : s \in {s \in Senders : pc[s] = "lock"}}
            BY <1>a, <1>7 DEF SendTimeout, TypeOK
        <3>2. {m \in Items : outcome'[m] = "ERR_BUSY"} = {m \in Items : outcome[m] = "ERR_BUSY"}
            BY <1>a, <1>b, <1>7 DEF SendTimeout, TypeOK, SentOnce, HasItem
        <3>3. QED
            BY <1>7, <3>1, <3>2 DEF SendTimeout, NotAppended
    <2>3. SentOnce'
        BY <1>a, <1>b, <1>7 DEF SendTimeout, TypeOK, SentOnce, HasItem
    <2>4. QED
        BY <2>1, <2>2, <2>3 DEF SenderKeeps
<1>8. QED
    BY <1>1, <1>2, <1>3, <1>4, <1>5, <1>6, <1>7

\* They leave every item where it is.
LEMMA SenderPlaces == PlaceInv /\ SenderKeeps => PlaceInv' /\ InHand' = InHand
<1> SUFFICES ASSUME PlaceInv, SenderKeeps PROVE PlaceInv' /\ InHand' = InHand
    OBVIOUS
<1>1. Queued' = Queued /\ InHand' = InHand
    BY DEF Queued, InHand, SenderKeeps
<1>2. QED
    BY <1>1 DEF PlaceInv, NotAppendedIsApart, Apart, QueuedOnce, TakenOnce, SenderKeeps

\* A receiver's step that takes no item and drops none.
ReceiverKeeps ==
    /\ UNCHANGED <<m_MsgQueueItemList, posted, processed, outcome>>
    /\ \A s \in Senders : UNCHANGED <<pc[s], item[s]>>
    /\ \A r \in Receivers :
          (pc'[r] \in {"handle", "reply"} \/ pc[r] \in {"handle", "reply"})
              => UNCHANGED <<pc[r], item[r]>>

\* The calls that find nothing, wait, or only look are such steps.
LEMMA ReceiverSteps ==
    ASSUME IInv, NEW t \in Receivers,
           \/ \E c \in ReceiverCalls : BeginTake(t, c)
           \/ TakeHead(t) /\ call[t] = "WaitMessageTimeout"
           \/ TakeNone(t) \/ TakeWait(t) \/ TakeWake(t) \/ TakeTimeout(t)
    PROVE  ReceiverKeeps
<1> USE ConstantsAssumption
        DEF Threads, Goto, Proceed, Return, queueVars, threadVars, listenerVars, historyVars
<1>a. TypeOK
    BY DEF IInv
<1>1. CASE TakeNone(t)
    BY <1>a, <1>1 DEF TakeNone, TypeOK, ReceiverKeeps
<1>2. CASE TakeWait(t)
    BY <1>a, <1>2 DEF TakeWait, TypeOK, ReceiverKeeps
<1>3. CASE TakeWake(t)
    BY <1>a, <1>3 DEF TakeWake, TypeOK, ReceiverKeeps
<1>4. CASE TakeTimeout(t)
    BY <1>a, <1>4 DEF TakeTimeout, TypeOK, ReceiverKeeps
<1>5. CASE TakeHead(t) /\ call[t] = "WaitMessageTimeout"
    BY <1>a, <1>5 DEF TakeHead, TypeOK, ReceiverKeeps
<1>6. ASSUME NEW c \in ReceiverCalls, BeginTake(t, c) PROVE ReceiverKeeps
    BY <1>a, <1>6 DEF BeginTake, TypeOK, ReceiverKeeps
<1>7. QED
    BY <1>1, <1>2, <1>3, <1>4, <1>5, <1>6

\* They leave every item where it is.
LEMMA ReceiverPlaces ==
    PlaceInv /\ ReceiverKeeps => PlaceInv' /\ InHand' = InHand /\ NotAppended' = NotAppended
<1> SUFFICES ASSUME PlaceInv, ReceiverKeeps
             PROVE  PlaceInv' /\ InHand' = InHand /\ NotAppended' = NotAppended
    OBVIOUS
<1>1. Queued' = Queued /\ InHand' = InHand /\ NotAppended' = NotAppended
    BY DEF Queued, InHand, NotAppended, ReceiverKeeps
<1>2. SentOnce' /\ TakenOnce'
    BY DEF PlaceInv, SentOnce, TakenOnce, ReceiverKeeps
<1>3. QED
    BY <1>1, <1>2 DEF PlaceInv, NotAppendedIsApart, Apart, QueuedOnce, ReceiverKeeps

\* The item of a PostMessage goes from its sender to the list.
LEMMA AppendMoves ==
    ASSUME IInv, PlaceInv, NEW t \in Senders, PostAppend(t)
    PROVE  /\ item[t] \in Items /\ item[t] \in NotAppended /\ Apart(item[t])
           /\ Queued' = Queued \cup {item[t]}
           /\ NotAppended' = NotAppended \ {item[t]}
           /\ InHand' = InHand /\ UNCHANGED <<processed, outcome>>
           /\ PlaceInv'
<1> USE ConstantsAssumption
        DEF Threads, Goto, Proceed, Return, queueVars, threadVars, listenerVars, historyVars
<1>a. TypeOK /\ HasItem
    BY DEF IInv
<1>b. NotAppendedIsApart /\ QueuedOnce /\ TakenOnce /\ SentOnce
    BY DEF PlaceInv
<1>1. /\ item[t] \in Items /\ item[t] \in NotAppended
      /\ m_MsgQueueItemList' = Append(m_MsgQueueItemList, item[t])
    BY <1>a DEF PostAppend, HasItem, NotAppended
<1>2. Apart(item[t])
    BY <1>b, <1>1 DEF NotAppendedIsApart
<1>3. /\ Queued' = Queued \cup {item[t]} /\ InHand' = InHand
      /\ UNCHANGED <<processed, outcome>>
      /\ \A r \in Receivers : UNCHANGED <<pc[r], item[r]>>
    <2>1. \A r \in Receivers : UNCHANGED <<pc[r], item[r]>>
        BY <1>a DEF PostAppend, TypeOK
    <2>2. Queued' = Queued \cup {item[t]}
        <3> DEFINE n == Len(m_MsgQueueItemList)
        <3>1. /\ n \in Nat /\ DOMAIN m_MsgQueueItemList = 1..n
              /\ DOMAIN m_MsgQueueItemList' = 1..(n + 1)
              /\ \A i \in 1..n : m_MsgQueueItemList'[i] = m_MsgQueueItemList[i]
              /\ m_MsgQueueItemList'[n + 1] = item[t]
            BY <1>a, <1>1 DEF TypeOK
        <3> HIDE DEF n
        <3>2. \A i \in 1..(n + 1) : i \in 1..n \/ i = n + 1
            BY <3>1
        <3>3. n + 1 \in 1..(n + 1) /\ 1..n \subseteq 1..(n + 1)
            BY <3>1
        <3>4. QED
            BY <3>1, <3>2, <3>3 DEF Queued
    <2>3. QED
        BY <2>1, <2>2 DEF PostAppend, InHand
<1>4. SentOnce'
    BY <1>a, <1>b DEF PostAppend, TypeOK, SentOnce, HasItem
<1>5. NotAppended' = NotAppended \ {item[t]}
    <2>1. UNCHANGED <<posted, outcome>> /\ item[t] \in posted /\ outcome[item[t]] = "none"
        BY <1>a, <1>b DEF PostAppend, SentOnce
    <2>2. \A s \in Senders :
              pc'[s] = "lock" <=> pc[s] = "lock" /\ s # t
        BY <1>a DEF PostAppend, TypeOK
    <2>3. \A s \in Senders : item'[s] = item[s] /\ (pc[s] = "lock" /\ s # t => item[s] # item[t])
        BY <1>a, <1>b DEF PostAppend, TypeOK, SentOnce
    <2>4. \A x : (\E s \in Senders : pc'[s] = "lock" /\ x = item'[s])
                     <=> x # item[t] /\ \E s \in Senders : pc[s] = "lock" /\ x = item[s]
        BY <2>2, <2>3 DEF PostAppend
    <2>5. \A x : x \in NotAppended' <=> x \in NotAppended \ {item[t]}
        BY <2>1, <2>4 DEF NotAppended
    <2>6. QED
        BY <2>5
<1>6. NotAppendedIsApart'
    BY <1>b, <1>3, <1>5 DEF NotAppendedIsApart, Apart
<1>7. QueuedOnce'
    <2>1. \A i, j \in DOMAIN m_MsgQueueItemList' :
              m_MsgQueueItemList'[i] = m_MsgQueueItemList'[j] => i = j
        BY <1>a, <1>b, <1>1, <1>2 DEF QueuedOnce, Apart, Queued, TypeOK
    <2>2. QED
        BY <1>b, <1>2, <1>3, <2>1 DEF QueuedOnce, Apart
<1>8. TakenOnce'
    BY <1>b, <1>3 DEF TakenOnce
<1>9. QED
    BY <1>1, <1>2, <1>3, <1>4, <1>5, <1>6, <1>7, <1>8 DEF PlaceInv

\* ... from the head of the list to a receiver ...
LEMMA TakeMoves ==
    ASSUME IInv, PlaceInv, NEW t \in Receivers, TakeHead(t), call[t] # "WaitMessageTimeout"
    PROVE  LET h == Head(m_MsgQueueItemList) IN
           /\ h \in Items /\ h \in Queued
           /\ h \notin InHand /\ h \notin processed /\ h \notin NotAppended
           /\ Queued' = Queued \ {h}
           /\ InHand' = InHand \cup {h}
           /\ NotAppended' = NotAppended /\ UNCHANGED <<processed, outcome>>
           /\ PlaceInv'
<1> USE ConstantsAssumption
        DEF Threads, Goto, Proceed, Return, queueVars, threadVars, listenerVars, historyVars
<1>a. TypeOK /\ HasItem
    BY DEF IInv
<1>b. NotAppendedIsApart /\ QueuedOnce /\ TakenOnce /\ SentOnce
    BY DEF PlaceInv
<1> DEFINE h == Head(m_MsgQueueItemList)
<1>1. /\ m_MsgQueueItemList \in Seq(Items) /\ m_MsgQueueItemList # <<>>
      /\ m_MsgQueueItemList' = Tail(m_MsgQueueItemList)
      /\ pc[t] = "lock" /\ pc' = [pc EXCEPT ![t] = "handle"]
      /\ item' = [item EXCEPT ![t] = h]
      /\ UNCHANGED <<posted, processed, outcome>>
    BY <1>a DEF TakeHead, TypeOK
<1>2. /\ h \in Queued /\ Queued' = Queued \ {h}
      /\ \A i, j \in DOMAIN m_MsgQueueItemList' :
            m_MsgQueueItemList'[i] = m_MsgQueueItemList'[j] => i = j
    <2>1. /\ DOMAIN m_MsgQueueItemList = 1..Len(m_MsgQueueItemList)
          /\ Len(m_MsgQueueItemList) \in Nat \ {0} /\ h = m_MsgQueueItemList[1]
          /\ DOMAIN m_MsgQueueItemList' = 1..(Len(m_MsgQueueItemList) - 1)
          /\ \A i \in DOMAIN m_MsgQueueItemList' :
                m_MsgQueueItemList'[i] = m_MsgQueueItemList[i + 1]
        BY <1>1
    <2>2. \A i, j \in 1..Len(m_MsgQueueItemList) :
              m_MsgQueueItemList[i] = m_MsgQueueItemList[j] => i = j
        BY <1>b, <2>1 DEF QueuedOnce
    <2>3. h \in Queued
        BY <2>1 DEF Queued
    <2>4. \A i, j \in DOMAIN m_MsgQueueItemList' :
              m_MsgQueueItemList'[i] = m_MsgQueueItemList'[j] => i = j
        BY <2>1, <2>2
    <2>5. ASSUME NEW m \in Queued' PROVE m \in Queued \ {h}
        BY <2>1, <2>2 DEF Queued
    <2>6. ASSUME NEW m \in Queued, m # h PROVE m \in Queued'
        <3>1. PICK i \in 1..Len(m_MsgQueueItemList) : m = m_MsgQueueItemList[i]
            BY <2>1 DEF Queued
        <3>2. i # 1 /\ i - 1 \in DOMAIN m_MsgQueueItemList'
            BY <2>1, <2>6, <3>1
        <3>3. m = m_MsgQueueItemList'[i - 1]
            BY <2>1, <3>1, <3>2
        <3>4. QED
            BY <3>2, <3>3 DEF Queued
    <2>7. QED
        BY <2>3, <2>4, <2>5, <2>6
<1>3. /\ \A s \in Senders : UNCHANGED <<pc[s], item[s]>>
      /\ \A r \in Receivers : r # t => UNCHANGED <<pc[r], item[r]>>
      /\ pc'[t] = "handle" /\ item'[t] = h
    BY <1>a, <1>1 DEF TypeOK
<1>4. InHand' = InHand \cup {h}
    BY <1>1, <1>3 DEF InHand
<1>5. NotAppended' = NotAppended /\ h \notin NotAppended
    <2>1. NotAppended' = NotAppended
        BY <1>1, <1>3 DEF NotAppended
    <2>2. QED
        BY <1>b, <1>2, <2>1 DEF NotAppendedIsApart, Apart
<1>6. h \notin InHand /\ h \notin processed
    BY <1>b, <1>2 DEF QueuedOnce
<1>7. NotAppendedIsApart'
    BY <1>b, <1>1, <1>2, <1>4, <1>5 DEF NotAppendedIsApart, Apart
<1>8. QueuedOnce'
    BY <1>b, <1>1, <1>2, <1>4 DEF QueuedOnce
<1>9. TakenOnce'
    <2>1. \A r \in Receivers : r # t /\ pc[r] \in {"handle", "reply"} => item[r] # h
        BY <1>6 DEF InHand
    <2>2. QED
        BY <1>b, <1>1, <1>3, <1>6, <2>1 DEF TakenOnce
<1>10. SentOnce'
    BY <1>b, <1>1, <1>3 DEF SentOnce
<1>11. h \in Items
    BY <1>1
<1>12. QED
    BY <1>1, <1>2, <1>4, <1>5, <1>6, <1>7, <1>8, <1>9, <1>10, <1>11 DEF PlaceInv

\* ... and is processed there.
LEMMA HandleMoves ==
    ASSUME IInv, PlaceInv, NEW t \in Receivers, Handle(t)
    PROVE  /\ item[t] \in Items /\ item[t] \in InHand /\ item[t] \notin processed
           /\ processed' = processed \cup {item[t]}
           /\ Queued' = Queued /\ InHand' = InHand /\ NotAppended' = NotAppended
           /\ UNCHANGED <<m_MsgQueueItemList, outcome>>
           /\ PlaceInv'
<1> USE ConstantsAssumption
        DEF Threads, Goto, Proceed, Return, queueVars, threadVars, listenerVars, historyVars
<1>a. TypeOK /\ HasItem
    BY DEF IInv
<1>b. NotAppendedIsApart /\ QueuedOnce /\ TakenOnce /\ SentOnce
    BY DEF PlaceInv
<1>1. /\ UNCHANGED <<m_MsgQueueItemList, posted, outcome, item>>
      /\ processed' = processed \cup {item[t]}
      /\ pc[t] = "handle" /\ pc' = [pc EXCEPT ![t] = "reply"]
    BY DEF Handle
<1>2. /\ \A s \in Senders : UNCHANGED <<pc[s], item[s]>>
      /\ \A r \in Receivers : r # t => UNCHANGED <<pc[r], item[r]>>
      /\ pc'[t] = "reply" /\ item'[t] = item[t]
    BY <1>a, <1>1 DEF TypeOK
<1>3. item[t] \in InHand /\ InHand' = InHand /\ Queued' = Queued
    BY <1>1, <1>2 DEF InHand, Queued
<1>4. NotAppended' = NotAppended
    BY <1>1, <1>2 DEF NotAppended
<1>5. NotAppendedIsApart'
    BY <1>b, <1>1, <1>3, <1>4 DEF NotAppendedIsApart, Apart
<1>6. QueuedOnce'
    BY <1>b, <1>1, <1>3 DEF QueuedOnce
<1>7. TakenOnce'
    BY <1>b, <1>1, <1>2 DEF TakenOnce
<1>8. SentOnce'
    BY <1>b, <1>1, <1>2 DEF SentOnce
<1>9. QED
    BY <1>a, <1>b, <1>1, <1>3, <1>4, <1>5, <1>6, <1>7, <1>8 DEF PlaceInv, TakenOnce, HasItem

\* A reply empties the receiver's hand, of an item that is processed.
LEMMA ReplyMoves ==
    ASSUME IInv, PlaceInv, NEW t \in Receivers, Reply(t)
    PROVE  /\ InHand' \ processed' = InHand \ processed
           /\ NotAppended' = NotAppended
           /\ UNCHANGED <<m_MsgQueueItemList, processed, outcome>>
           /\ PlaceInv'
<1> USE ConstantsAssumption
        DEF Threads, Goto, Proceed, Return, queueVars, threadVars, listenerVars, historyVars
<1>a. TypeOK /\ HasItem
    BY DEF IInv
<1>b. NotAppendedIsApart /\ QueuedOnce /\ TakenOnce /\ SentOnce
    BY DEF PlaceInv
<1>1. /\ UNCHANGED <<m_MsgQueueItemList, posted, processed, outcome>>
      /\ \A s \in Senders : UNCHANGED <<pc[s], item[s]>>
      /\ \A r \in Receivers : r # t => UNCHANGED <<pc[r], item[r]>>
      /\ pc'[t] \notin {"handle", "reply"}
    BY <1>a DEF Reply, TypeOK
<1>2. InHand' \subseteq InHand /\ Queued' = Queued
    BY <1>1 DEF InHand, Queued
<1>3. NotAppended' = NotAppended
    BY <1>1 DEF NotAppended
<1>4. NotAppendedIsApart' /\ QueuedOnce'
    BY <1>b, <1>1, <1>2, <1>3 DEF NotAppendedIsApart, Apart, QueuedOnce
<1>5. TakenOnce'
    BY <1>b, <1>1 DEF TakenOnce
<1>6. SentOnce'
    BY <1>b, <1>1 DEF SentOnce
<1>7. InHand \ InHand' \subseteq processed
    BY <1>a, <1>b, <1>1 DEF InHand, TakenOnce, Reply
<1>8. QED
    BY <1>1, <1>2, <1>3, <1>4, <1>5, <1>6, <1>7 DEF PlaceInv

\* The purge drops the queued items.
LEMMA PurgeMoves ==
    ASSUME PlaceInv, RemoveAllMessage
    PROVE  /\ Queued' = {} /\ InHand' = InHand /\ NotAppended' = NotAppended
           /\ m_MsgQueueItemList' = <<>> /\ UNCHANGED <<processed, outcome>>
           /\ PlaceInv'
<1>1. m_MsgQueueItemList' = <<>> /\ UNCHANGED <<posted, processed, outcome, pc, item>>
    BY DEF RemoveAllMessage, threadVars, historyVars
<1>2. Queued' = {} /\ InHand' = InHand /\ NotAppended' = NotAppended
    BY <1>1 DEF Queued, InHand, NotAppended
<1>3. PlaceInv'
    BY <1>1, <1>2 DEF PlaceInv, NotAppendedIsApart, Apart, QueuedOnce, TakenOnce, SentOnce
<1>4. QED
    BY <1>1, <1>2, <1>3

\* setEventListener and the end of the listener touch no item.
LEMMA OwnerSteps == setEventListener \/ ListenerDestroyed \/ UNCHANGED vars => ReceiverKeeps
BY DEF setEventListener, ListenerDestroyed, vars, ReceiverKeeps, queueVars, threadVars, historyVars

\* Every operation of the queue preserves it.
LEMMA NextPlaceInv == IInv /\ PlaceInv /\ [Next]_vars => PlaceInv'
<1> SUFFICES ASSUME IInv, PlaceInv, [Next]_vars PROVE PlaceInv'
    OBVIOUS
<1>1. ASSUME NEW t \in Senders,
             (\E c \in SenderCalls, m \in Items : BeginSend(t, c, m)) \/ SenderStep(t)
      PROVE  PlaceInv'
    BY <1>1, SenderSteps, SenderPlaces, AppendMoves DEF SenderStep
<1>2. ASSUME NEW t \in Receivers,
             (\E c \in ReceiverCalls : BeginTake(t, c)) \/ ReceiverStep(t)
      PROVE  PlaceInv'
    BY <1>2, ReceiverSteps, ReceiverPlaces, TakeMoves, HandleMoves, ReplyMoves DEF ReceiverStep
<1>3. CASE setEventListener \/ ListenerDestroyed \/ UNCHANGED vars
    BY <1>3, OwnerSteps, ReceiverPlaces
<1>4. CASE RemoveAllMessage
    BY <1>4, PurgeMoves
<1>5. QED
    BY <1>1, <1>2, <1>3, <1>4 DEF Next

-----------------------------------------------------------------------------
(* Every step of the queue is a step of the mailbox, or none.              *)

\* The places an item can be in exclude one another.
Stage(m) ==
    IF m \in processed THEN "done"
    ELSE IF m \in Queued THEN "queued"
    ELSE IF m \in InHand THEN "taken"
    ELSE IF m \in NotAppended THEN "new"
    ELSE "dropped"

\* So the abstract stage does not depend on the order in which the places are looked at.
LEMMA StageIs == PlaceInv => \A m : StageOf(m) = Stage(m)
BY DEF PlaceInv, NotAppendedIsApart, Apart, QueuedOnce, StageOf, Stage

\* The variables of the mailbox.
Answered == {m \in Items : outcome[m] = "answered" /\ "spurious" \notin Faults}

\* A step that moves no item and answers no sender.
LEMMA NothingMoves ==
    ASSUME UNCHANGED <<m_MsgQueueItemList, processed>>, InHand' \ processed' = InHand \ processed,
           NotAppended' = NotAppended, Answered' = Answered
    PROVE  UNCHANGED AbstractMailbox!vars
<1>1. Queued' = Queued
    BY DEF Queued
<1>2. \A m : StageOf(m)' = StageOf(m)
    BY <1>1 DEF StageOf
<1>3. QED
    BY <1>2 DEF AbstractMailbox!vars, Answered

\* No operation answers an item that was not processed.
LEMMA AnsweredIsDone == AnswerInv => \A m \in Answered : m \in processed
BY DEF AnswerInv, AnswerMeansProcessed, Answered

\* Only the steps that return from a wait answer.
LEMMA AnsweredStays ==
    ASSUME IInv, PlaceInv, NEW t \in Senders,
           \/ \E c \in SenderCalls, m \in Items : BeginSend(t, c, m)
           \/ PostBusy(t) \/ PostSignal(t) \/ PostNotify(t) \/ SendTimeout(t)
    PROVE  Answered' = Answered
<1>a. TypeOK /\ SentOnce /\ (pc[t] # "idle" => item[t] \in Items)
    BY DEF IInv, PlaceInv, HasItem
<1>1. CASE (\E c \in SenderCalls, m \in Items : BeginSend(t, c, m)) \/ PostSignal(t)
    BY <1>1 DEF BeginSend, PostSignal, historyVars, Answered
<1>2. CASE PostBusy(t) \/ PostNotify(t) \/ SendTimeout(t)
    <2>1. outcome[item[t]] # "answered" /\ item[t] \in Items
        BY <1>a, <1>2 DEF PostBusy, PostNotify, SendTimeout, SentOnce
    <2>2. /\ outcome'[item[t]] # "answered"
          /\ \A m \in Items : m # item[t] => outcome'[m] = outcome[m]
        BY <1>a, <1>2, <2>1 DEF PostBusy, PostNotify, SendTimeout, TypeOK
    <2>3. QED
        BY <2>1, <2>2 DEF Answered
<1>3. QED
    BY <1>1, <1>2

\* Every operation of the queue is an operation of the mailbox, or nothing to it.
LEMMA NextImplements ==
    ASSUME IInv, AnswerInv, PlaceInv, AnswerInv', [Next]_vars
    PROVE  [AbstractMailbox!Next]_(AbstractMailbox!vars)
<1>a. PlaceInv'
    BY NextPlaceInv
<1>b. /\ \A m : StageOf(m) = Stage(m)
      /\ \A m : StageOf(m)' = Stage(m)'
    <2>1. (\A m : StageOf(m) = Stage(m))'
        BY <1>a, StageIs, PTL
    <2>2. QED
        BY <2>1, StageIs
<1>c. \A m \in Answered' : m \in processed'
    <2>1. (\A m \in Answered : m \in processed)'
        BY AnsweredIsDone, PTL
    <2>2. QED
        BY <2>1
<1> DEFINE stage == [m \in Items |-> StageOf(m)]
<1>1. ASSUME NEW t \in Senders, PostAppend(t) PROVE AbstractMailbox!Put(item[t])
    <2>1. stage' = [stage EXCEPT ![item[t]] = "queued"] /\ stage[item[t]] = "new"
        BY <1>b, <1>1, AppendMoves DEF Stage, Apart
    <2>2. Len(m_MsgQueueItemList) < Capacity
          /\ m_MsgQueueItemList' = Append(m_MsgQueueItemList, item[t])
          /\ Answered' = Answered
        BY <1>1, AppendMoves DEF PostAppend, Answered
    <2>3. QED
        BY <2>1, <2>2 DEF AbstractMailbox!Put, Answered
<1>2. ASSUME NEW t \in Receivers, TakeHead(t), call[t] # "WaitMessageTimeout"
      PROVE  AbstractMailbox!Take
    <2> DEFINE h == Head(m_MsgQueueItemList)
    <2>1. stage' = [stage EXCEPT ![h] = "taken"]
        BY <1>b, <1>2, TakeMoves DEF Stage
    <2>2. m_MsgQueueItemList # <<>> /\ m_MsgQueueItemList' = Tail(m_MsgQueueItemList)
          /\ Answered' = Answered
        BY <1>2, TakeMoves DEF TakeHead, Answered
    <2>3. QED
        BY <2>1, <2>2 DEF AbstractMailbox!Take, Answered
<1>3. ASSUME NEW t \in Receivers, Handle(t) PROVE AbstractMailbox!Finish(item[t])
    <2>1. stage' = [stage EXCEPT ![item[t]] = "done"] /\ stage[item[t]] = "taken"
        BY <1>b, <1>3, HandleMoves DEF Stage, PlaceInv, QueuedOnce
    <2>2. UNCHANGED m_MsgQueueItemList /\ Answered' = Answered
        BY <1>3, HandleMoves DEF Answered
    <2>3. QED
        BY <2>1, <2>2 DEF AbstractMailbox!Finish, Answered
<1>4. ASSUME RemoveAllMessage PROVE AbstractMailbox!Clear
    <2>1. stage' = [m \in Items |-> IF stage[m] = "queued" THEN "dropped" ELSE stage[m]]
        BY <1>b, <1>4, PurgeMoves DEF Stage, PlaceInv, NotAppendedIsApart, QueuedOnce, Apart
    <2>2. m_MsgQueueItemList' = <<>> /\ Answered' = Answered
        BY <1>4, PurgeMoves DEF Answered
    <2>3. QED
        BY <2>1, <2>2 DEF AbstractMailbox!Clear, Answered
<1>5. ASSUME NEW t \in Receivers, Reply(t) PROVE UNCHANGED AbstractMailbox!vars
    BY <1>5, ReplyMoves, NothingMoves DEF Answered
<1>6. ASSUME ReceiverKeeps PROVE UNCHANGED AbstractMailbox!vars
    BY <1>6, ReceiverPlaces, NothingMoves DEF ReceiverKeeps, Answered
<1>7. ASSUME NEW t \in Senders, SenderKeeps, Answered' = Answered
      PROVE  UNCHANGED AbstractMailbox!vars
    BY <1>7, SenderPlaces, NothingMoves DEF SenderKeeps
<1>8. ASSUME NEW t \in Senders, SenderKeeps, SendWait(t) \/ SendWake(t)
      PROVE  [AbstractMailbox!Next]_(AbstractMailbox!vars)
    <2>1. Answered' = Answered \/ Answered' = Answered \cup {item[t]}
        BY <1>8 DEF SendWait, SendWake, Answered, IInv, TypeOK, HasItem
    <2>2. CASE Answered' # Answered
        <3>1. item[t] \in Items /\ item[t] \in processed
            BY <1>c, <1>8, <2>1, <2>2 DEF Answered, SenderKeeps
        <3>2. stage' = stage /\ stage[item[t]] = "done"
            BY <1>b, <1>8, <3>1, SenderPlaces DEF Stage, SenderKeeps, Queued
        <3>3. \E m \in Items : AbstractMailbox!Answer(m)
            BY <1>8, <2>1, <2>2, <3>1, <3>2 DEF AbstractMailbox!Answer, Answered, SenderKeeps
        <3>4. QED
            BY <3>3 DEF AbstractMailbox!Next
    <2>3. QED
        BY <1>7, <1>8, <2>2
<1>9. ASSUME NEW t \in Senders, (\E c \in SenderCalls, m \in Items : BeginSend(t, c, m))
                                    \/ PostBusy(t) \/ PostSignal(t) \/ PostNotify(t) \/ SendTimeout(t)
      PROVE  UNCHANGED AbstractMailbox!vars
    <2>1. SenderKeeps
        BY <1>9, SenderSteps
    <2>2. Answered' = Answered
        BY <1>9, AnsweredStays
    <2>3. QED
        BY <1>7, <2>1, <2>2
<1>10. ASSUME NEW t \in Senders,
              (\E c \in SenderCalls, m \in Items : BeginSend(t, c, m)) \/ SenderStep(t)
       PROVE  [AbstractMailbox!Next]_(AbstractMailbox!vars)
    <2>1. CASE PostAppend(t)
        BY <1>1, <2>1, AppendMoves DEF AbstractMailbox!Next
    <2>2. CASE SendWait(t) \/ SendWake(t)
        <3>1. SenderKeeps /\ item[t] \in Items
            BY <2>2, SenderSteps DEF SendWait, SendWake, IInv, HasItem
        <3>2. QED
            BY <1>8, <2>2, <3>1
    <2>3. QED
        BY <1>9, <1>10, <2>1, <2>2 DEF SenderStep
<1>11. ASSUME NEW t \in Receivers,
              (\E c \in ReceiverCalls : BeginTake(t, c)) \/ ReceiverStep(t)
       PROVE  [AbstractMailbox!Next]_(AbstractMailbox!vars)
    <2>1. CASE Handle(t)
        BY <1>3, <2>1, HandleMoves DEF AbstractMailbox!Next
    <2>2. CASE TakeHead(t) /\ call[t] # "WaitMessageTimeout"
        BY <1>2, <2>2 DEF AbstractMailbox!Next
    <2>3. CASE Reply(t)
        BY <1>5, <2>3
    <2>4. QED
        BY <1>6, <1>11, <2>1, <2>2, <2>3, ReceiverSteps DEF ReceiverStep
<1>12. CASE setEventListener \/ ListenerDestroyed \/ UNCHANGED vars
    BY <1>6, <1>12, OwnerSteps
<1>13. CASE RemoveAllMessage
    BY <1>4, <1>13 DEF AbstractMailbox!Next
<1>14. QED
    BY <1>10, <1>11, <1>12, <1>13 DEF Next

\* An empty queue is an empty mailbox.
LEMMA InitImplements == Init => AbstractMailbox!Init
<1> SUFFICES ASSUME Init PROVE AbstractMailbox!Init
    OBVIOUS
<1>1. \A m \in Items : StageOf(m) = "new"
    <2>1. Queued = {} /\ InHand = {} /\ processed = {} /\ Items \subseteq NotAppended
        BY DEF Init, Queued, InHand, NotAppended, Threads
    <2>2. PlaceInv
        BY InitPlaceInv
    <2>3. QED
        BY <2>1, <2>2, StageIs DEF Stage
<1>2. QED
    BY <1>1 DEF Init, AbstractMailbox!Init

\* The queue is a bounded FIFO that hands every item to one receiver, once, in the order
\* of the posts, and answers a sender only for a processed item: PostMessage, SendMessage,
\* the receivers' calls, the drain and RemoveAllMessage for any number of threads.
THEOREM QueueImplementsMailbox == Spec => ImplementsMailbox
<1>1. Init => IInv /\ AnswerInv /\ PlaceInv /\ AbstractMailbox!Init
    BY InitIInv, InitAnswerInv, InitPlaceInv, InitImplements
<1>2. IInv /\ AnswerInv /\ PlaceInv /\ [Next]_vars => IInv' /\ AnswerInv' /\ PlaceInv'
    BY NextIInv, NextAnswerInv, NextPlaceInv
<1>3. IInv /\ AnswerInv /\ PlaceInv /\ AnswerInv' /\ [Next]_vars
          => [AbstractMailbox!Next]_(AbstractMailbox!vars)
    BY NextImplements
<1>4. QED
    BY <1>1, <1>2, <1>3, PTL DEF Spec, ImplementsMailbox, AbstractMailbox!Spec

=============================================================================
