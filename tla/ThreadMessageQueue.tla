-------------------------- MODULE ThreadMessageQueue --------------------------
(***************************************************************************)
(* CThreadMessageQueue (LinuxBaseLib/ThreadMessageQueue.cpp): the bounded  *)
(* FIFO through which the threads of the player talk to a worker thread.   *)
(* Senders post an item, or send it and block until the receiver sets the  *)
(* item's own event; receivers take items with the blocking, the timed or  *)
(* the polling call, or drain the queue when the queue's listener callback *)
(* told them to (QMediaSrv).                                               *)
(*                                                                         *)
(* A thread's program counter names the next step of its call:             *)
(*   idle    outside the queue          lock    wants the list's mutex     *)
(*   signal  appended, holds the mutex  notify  the listener callback      *)
(*   wait    about to test an event     asleep  inside the condition wait  *)
(*   handle  holds an item to process   reply   about to set its event     *)
(***************************************************************************)
EXTENDS Integers, Sequences, FiniteSets, EventEx

CONSTANTS
    Senders,       \* threads that post or send
    Receivers,     \* threads that take items
    Items,         \* message items; every call makes a new CMessageQueueItem
    Capacity,      \* MSG_QUEUE_MAX_ITEM_NUM
    SenderCalls,   \* the calls senders make
    ReceiverCalls, \* the calls receivers make
    Faults,        \* which of "spurious", "purge" and "listenerDies" can happen
    NoThread,
    NoItem

Threads == Senders \cup Receivers
SendOps == {"PostMessage", "SendMessage", "SendMessageTimeout"}
TakeOps == {"GetMessage", "GetMessageTimeout", "PeekMessage", "WaitMessageTimeout",
            "OnNewMessage"}

\* What a call returned for its item: "posted" is PostMessage's success, "answered"
\* that of SendMessage(Timeout).
Outcomes == {"none", "posted", "answered", "ERR_BUSY", "ERR_TIMEOUT"}

ASSUME ConstantsAssumption ==
    /\ Senders \cap Receivers = {}
    /\ Capacity \in Nat \ {0}
    /\ SenderCalls \subseteq SendOps
    /\ ReceiverCalls \subseteq TakeOps
    /\ Faults \subseteq {"spurious", "purge", "listenerDies"}
    /\ NoThread \notin Threads
    /\ NoItem \notin Items

VARIABLES
    m_MsgQueueItemList,       \* the queued items
    m_MsgQueueItemListLocker, \* the thread that holds the list's mutex
    m_MsgQueueEvent,          \* "there are items" (an EventEx record)
    m_EventOnProcessed,       \* per item, "the item was processed"
    listener,                 \* "none", "alive", or "gone": promoting the weak pointer fails
    notified,                 \* listener callbacks not yet served by a drain
    pc, call, item,           \* per thread: next step, call, item in hand
    posted,                   \* items a call was made for
    processed,                \* items whose handler ran
    outcome                   \* per item, what its PostMessage/SendMessage call returned

queueVars == <<m_MsgQueueItemList, m_MsgQueueItemListLocker>>
threadVars == <<pc, call, item>>
listenerVars == <<listener, notified>>
historyVars == <<posted, processed, outcome>>
vars == <<queueVars, m_MsgQueueEvent, m_EventOnProcessed, listenerVars, threadVars, historyVars>>

Init ==
    /\ m_MsgQueueItemList = <<>>
    /\ m_MsgQueueItemListLocker = NoThread
    /\ m_MsgQueueEvent = NewEvent
    /\ m_EventOnProcessed = [m \in Items |-> NewEvent]
    /\ listener = "none"
    /\ notified = 0
    /\ pc = [t \in Threads |-> "idle"]
    /\ call = [t \in Threads |-> "none"]
    /\ item = [t \in Threads |-> NoItem]
    /\ posted = {}
    /\ processed = {}
    /\ outcome = [m \in Items |-> "none"]

Goto(t, step) == pc' = [pc EXCEPT ![t] = step]

\* The call of t goes on to its next step, or returns: t is in no call then, and has no item.
Proceed(t, step) == Goto(t, step) /\ UNCHANGED <<call, item>>

Return(t) ==
    /\ Goto(t, "idle")
    /\ call' = [call EXCEPT ![t] = "none"]
    /\ item' = [item EXCEPT ![t] = NoItem]

\* A thread inside the condition wait of e may go on: it was broadcast to, or
\* the wait returned spuriously.
MayWake(e, t) == t \notin e.waiters \/ "spurious" \in Faults

-----------------------------------------------------------------------------
(* Senders.                                                                *)

\* A call with a new item.  SendMessage and SendMessageTimeout reset its event first.
BeginSend(t, c, m) ==
    /\ pc[t] = "idle"
    /\ m \notin posted
    /\ posted' = posted \cup {m}
    /\ m_EventOnProcessed' = IF c = "PostMessage" THEN m_EventOnProcessed
                             ELSE [m_EventOnProcessed EXCEPT ![m] = ResetEvent(@)]
    /\ call' = [call EXCEPT ![t] = c]
    /\ item' = [item EXCEPT ![t] = m]
    /\ Goto(t, "lock")
    /\ UNCHANGED <<queueVars, m_MsgQueueEvent, listenerVars, processed, outcome>>

\* PostMessage under the mutex, queue not full: the item goes to the tail.
PostAppend(t) ==
    /\ pc[t] = "lock"
    /\ m_MsgQueueItemListLocker = NoThread
    /\ Len(m_MsgQueueItemList) < Capacity
    /\ m_MsgQueueItemListLocker' = t
    /\ m_MsgQueueItemList' = Append(m_MsgQueueItemList, item[t])
    /\ Proceed(t, "signal")
    /\ UNCHANGED <<m_MsgQueueEvent, m_EventOnProcessed, listenerVars, historyVars>>

\* PostMessage under the mutex, queue full: ERR_BUSY.
PostBusy(t) ==
    /\ pc[t] = "lock"
    /\ m_MsgQueueItemListLocker = NoThread
    /\ Len(m_MsgQueueItemList) >= Capacity
    /\ outcome' = [outcome EXCEPT ![item[t]] = "ERR_BUSY"]
    /\ Proceed(t, "notify")
    /\ UNCHANGED <<queueVars, m_MsgQueueEvent, m_EventOnProcessed, listenerVars, posted, processed>>

\* Still under the mutex: m_MsgQueueEvent.SetEvent(), then unlock.
PostSignal(t) ==
    /\ pc[t] = "signal"
    /\ m_MsgQueueEvent' = SetEvent(m_MsgQueueEvent)
    /\ m_MsgQueueItemListLocker' = NoThread
    /\ Proceed(t, "notify")
    /\ UNCHANGED <<m_MsgQueueItemList, m_EventOnProcessed, listenerVars, historyVars>>

\* Mutant of PostNotify: only the first of several queued items calls the listener.
PostNotifyFirst(t) ==
    /\ pc[t] = "notify"
    /\ notified' = IF listener = "alive" /\ Len(m_MsgQueueItemList) = 1 THEN notified + 1
                   ELSE notified
    /\ Return(t)
    /\ outcome' = IF outcome[item[t]] = "none"
                  THEN [outcome EXCEPT ![item[t]] = "posted"] ELSE outcome
    /\ UNCHANGED <<queueVars, m_MsgQueueEvent, m_EventOnProcessed, listener, posted, processed>>

\* The listener is called after the unlock, also when the queue was full; a
\* listener that is gone is dropped.  Then PostMessage returns: to its caller
\* (post, or an error), or into the wait of SendMessage(Timeout).
PostNotify(t) ==
    /\ pc[t] = "notify"
    /\ notified' = IF listener = "alive" THEN notified + 1 ELSE notified
    /\ listener' = IF listener = "gone" THEN "none" ELSE listener
    /\ IF outcome[item[t]] = "none" /\ call[t] # "PostMessage"
       THEN /\ Proceed(t, "wait")
            /\ UNCHANGED outcome
       ELSE /\ Return(t)
            /\ outcome' = IF outcome[item[t]] = "none"
                          THEN [outcome EXCEPT ![item[t]] = "posted"] ELSE outcome
    /\ UNCHANGED <<queueVars, m_MsgQueueEvent, m_EventOnProcessed, posted, processed>>

\* MsgQueueItem_sp->WaitEvent(Timeout): test the flag, sleep if it is down.
SendWait(t) ==
    LET m == item[t] IN
    /\ pc[t] = "wait"
    /\ IF m_EventOnProcessed[m].m_bHasEvent
       THEN /\ outcome' = [outcome EXCEPT ![m] = "answered"]
            /\ Return(t)
            /\ UNCHANGED m_EventOnProcessed
       ELSE /\ m_EventOnProcessed' = [m_EventOnProcessed EXCEPT ![m] = BeginWait(@, t)]
            /\ Proceed(t, "asleep")
            /\ UNCHANGED outcome
    /\ UNCHANGED <<queueVars, m_MsgQueueEvent, listenerVars, posted, processed>>

\* The wait returns: SendMessage returns success whatever the flag says now.
SendWake(t) ==
    LET m == item[t] IN
    /\ pc[t] = "asleep"
    /\ MayWake(m_EventOnProcessed[m], t)
    /\ m_EventOnProcessed' = [m_EventOnProcessed EXCEPT ![m] = EndWait(@, t)]
    /\ outcome' = [outcome EXCEPT ![m] = "answered"]
    /\ Return(t)
    /\ UNCHANGED <<queueVars, m_MsgQueueEvent, listenerVars, posted, processed>>

\* Mutant of SendTimeout: the result of the timed wait is dropped.
SendTimeoutUnnoticed(t) ==
    /\ pc[t] = "asleep"
    /\ call[t] = "SendMessageTimeout"
    /\ t \in m_EventOnProcessed[item[t]].waiters
    /\ m_EventOnProcessed' = [m_EventOnProcessed EXCEPT ![item[t]] = EndWait(@, t)]
    /\ outcome' = [outcome EXCEPT ![item[t]] = "answered"]
    /\ Return(t)
    /\ UNCHANGED <<queueVars, m_MsgQueueEvent, listenerVars, posted, processed>>

\* SendMessageTimeout gives up; the item stays wherever it is.
SendTimeout(t) ==
    LET m == item[t] IN
    /\ pc[t] = "asleep"
    /\ call[t] = "SendMessageTimeout"
    /\ t \in m_EventOnProcessed[m].waiters
    /\ m_EventOnProcessed' = [m_EventOnProcessed EXCEPT ![m] = EndWait(@, t)]
    /\ outcome' = [outcome EXCEPT ![m] = "ERR_TIMEOUT"]
    /\ Return(t)
    /\ UNCHANGED <<queueVars, m_MsgQueueEvent, listenerVars, posted, processed>>

-----------------------------------------------------------------------------
(* Receivers.                                                              *)

\* A receiver calls the queue.  OnNewMessage is QMediaSrv's slot: one queued
\* callback is consumed and the queue is drained with zero timeouts.
BeginTake(t, c) ==
    /\ pc[t] = "idle"
    /\ IF c = "OnNewMessage" THEN notified > 0 /\ notified' = notified - 1
                             ELSE UNCHANGED notified
    /\ call' = [call EXCEPT ![t] = c]
    /\ Goto(t, "lock")
    /\ UNCHANGED <<queueVars, m_MsgQueueEvent, m_EventOnProcessed, listener, item, historyVars>>

\* Mutant of TakeHead: the head is read and stays in the list.
TakeHeadKept(t) ==
    /\ pc[t] = "lock"
    /\ m_MsgQueueItemListLocker = NoThread
    /\ m_MsgQueueItemList # <<>>
    /\ item' = [item EXCEPT ![t] = Head(m_MsgQueueItemList)]
    /\ Goto(t, "handle")
    /\ UNCHANGED <<queueVars, call, m_MsgQueueEvent, m_EventOnProcessed, listenerVars, historyVars>>

\* Under the mutex, queue not empty: take the head; WaitMessageTimeout only reports it.
TakeHead(t) ==
    /\ pc[t] = "lock"
    /\ m_MsgQueueItemListLocker = NoThread
    /\ m_MsgQueueItemList # <<>>
    /\ IF call[t] = "WaitMessageTimeout"
       THEN /\ Return(t)
            /\ UNCHANGED m_MsgQueueItemList
       ELSE /\ item' = [item EXCEPT ![t] = Head(m_MsgQueueItemList)]
            /\ m_MsgQueueItemList' = Tail(m_MsgQueueItemList)
            /\ Goto(t, "handle")
            /\ UNCHANGED call
    /\ UNCHANGED <<m_MsgQueueItemListLocker, m_MsgQueueEvent, m_EventOnProcessed, listenerVars,
                   historyVars>>

\* Under the mutex, queue empty: PeekMessage returns; the others reset the
\* queue's event and go on to wait, or (WaitMessageTimeout) find their time used up.
TakeNone(t) ==
    /\ pc[t] = "lock"
    /\ m_MsgQueueItemListLocker = NoThread
    /\ m_MsgQueueItemList = <<>>
    /\ m_MsgQueueEvent' = IF call[t] = "PeekMessage" THEN m_MsgQueueEvent
                          ELSE ResetEvent(m_MsgQueueEvent)
    /\ \/ call[t] # "PeekMessage" /\ Proceed(t, "wait")
       \/ call[t] \in {"PeekMessage", "WaitMessageTimeout"} /\ Return(t)
    /\ UNCHANGED <<queueVars, m_EventOnProcessed, listenerVars, historyVars>>

\* m_MsgQueueEvent.WaitEvent(Timeout): the flag is up, look again; with a zero
\* timeout the call ends; otherwise sleep.
TakeWait(t) ==
    /\ pc[t] = "wait"
    /\ \/ /\ m_MsgQueueEvent.m_bHasEvent
          /\ Proceed(t, "lock")
          /\ UNCHANGED m_MsgQueueEvent
       \/ /\ ~m_MsgQueueEvent.m_bHasEvent
          /\ call[t] = "OnNewMessage"
          /\ Return(t)
          /\ UNCHANGED m_MsgQueueEvent
       \/ /\ ~m_MsgQueueEvent.m_bHasEvent
          /\ call[t] # "OnNewMessage"
          /\ m_MsgQueueEvent' = BeginWait(m_MsgQueueEvent, t)
          /\ Proceed(t, "asleep")
    /\ UNCHANGED <<queueVars, m_EventOnProcessed, listenerVars, historyVars>>

\* The wait returned: the call starts over at TRY_GET_NEXT_MSG.
TakeWake(t) ==
    /\ pc[t] = "asleep"
    /\ MayWake(m_MsgQueueEvent, t)
    /\ m_MsgQueueEvent' = EndWait(m_MsgQueueEvent, t)
    /\ Proceed(t, "lock")
    /\ UNCHANGED <<queueVars, m_EventOnProcessed, listenerVars, historyVars>>

\* GetMessageTimeout and WaitMessageTimeout: ERR_TIMEOUT.
TakeTimeout(t) ==
    /\ pc[t] = "asleep"
    /\ call[t] \in {"GetMessageTimeout", "WaitMessageTimeout"}
    /\ t \in m_MsgQueueEvent.waiters
    /\ m_MsgQueueEvent' = EndWait(m_MsgQueueEvent, t)
    /\ Return(t)
    /\ UNCHANGED <<queueVars, m_EventOnProcessed, listenerVars, historyVars>>

\* The receiver's own code processes the item (QMediaSrv::ProcessMsg) ...
Handle(t) ==
    /\ pc[t] = "handle"
    /\ processed' = processed \cup {item[t]}
    /\ Proceed(t, "reply")
    /\ UNCHANGED <<queueVars, m_MsgQueueEvent, m_EventOnProcessed, listenerVars, posted, outcome>>

\* Mutant of Reply: the item's event is not set.
ReplyForgotten(t) ==
    /\ pc[t] = "reply"
    /\ Return(t)
    /\ UNCHANGED <<queueVars, m_MsgQueueEvent, m_EventOnProcessed, listenerVars, historyVars>>

\* ... and sets its event; a drain then looks for the next item.
Reply(t) ==
    /\ pc[t] = "reply"
    /\ m_EventOnProcessed' = [m_EventOnProcessed EXCEPT ![item[t]] = SetEvent(@)]
    /\ IF call[t] = "OnNewMessage"
       THEN /\ Goto(t, "lock")
            /\ item' = [item EXCEPT ![t] = NoItem]
            /\ UNCHANGED call
       ELSE Return(t)
    /\ UNCHANGED <<queueVars, m_MsgQueueEvent, listenerVars, historyVars>>

-----------------------------------------------------------------------------
(* The owner of the queue.                                                 *)

setEventListener ==
    /\ listener = "none"
    /\ listener' = "alive"
    /\ UNCHANGED <<queueVars, m_MsgQueueEvent, m_EventOnProcessed, notified, threadVars, historyVars>>

ListenerDestroyed ==
    /\ "listenerDies" \in Faults
    /\ listener = "alive"
    /\ listener' = "gone"
    /\ UNCHANGED <<queueVars, m_MsgQueueEvent, m_EventOnProcessed, notified, threadVars, historyVars>>

\* RemoveAllMessage, by a thread that is in no other call: the items are dropped, the
\* queue's event and the items' events keep their state.
RemoveAllMessage ==
    /\ "purge" \in Faults
    /\ m_MsgQueueItemListLocker = NoThread
    /\ m_MsgQueueItemList' = <<>>
    /\ UNCHANGED <<m_MsgQueueItemListLocker, m_MsgQueueEvent, m_EventOnProcessed, listenerVars,
                   threadVars, historyVars>>

SenderStep(t) ==
    PostAppend(t) \/ PostBusy(t) \/ PostSignal(t) \/ PostNotify(t)
        \/ SendWait(t) \/ SendWake(t) \/ SendTimeout(t)

ReceiverStep(t) ==
    TakeHead(t) \/ TakeNone(t) \/ TakeWait(t) \/ TakeWake(t) \/ TakeTimeout(t)
        \/ Handle(t) \/ Reply(t)

Next ==
    \/ \E t \in Senders : \E c \in SenderCalls, m \in Items : BeginSend(t, c, m)
    \/ \E t \in Senders : SenderStep(t)
    \/ \E t \in Receivers : \E c \in ReceiverCalls : BeginTake(t, c)
    \/ \E t \in Receivers : ReceiverStep(t)
    \/ setEventListener
    \/ ListenerDestroyed
    \/ RemoveAllMessage

Spec == Init /\ [][Next]_vars

\* Threads keep running inside a call, and a receiver keeps calling (its thread
\* loop, or the Qt event loop that delivers the queued callback).
Fairness ==
    /\ \A t \in Senders : WF_vars(SenderStep(t))
    /\ \A t \in Receivers :
          /\ WF_vars(ReceiverStep(t))
          /\ WF_vars(\E c \in ReceiverCalls : BeginTake(t, c))

FairSpec == Spec /\ Fairness

-----------------------------------------------------------------------------
(* Properties.                                                             *)

TypeOK ==
    /\ m_MsgQueueItemList \in Seq(Items)
    /\ m_MsgQueueItemListLocker \in Senders \cup {NoThread}
    /\ m_MsgQueueEvent \in EventOf(Receivers)
    /\ m_EventOnProcessed \in [Items -> EventOf(Senders)]
    /\ listener \in {"none", "alive", "gone"}
    /\ notified \in Nat
    /\ pc \in [Threads -> {"idle", "lock", "signal", "notify", "wait", "asleep", "handle", "reply"}]
    /\ call \in [Threads -> SendOps \cup TakeOps \cup {"none"}]
    /\ item \in [Threads -> Items \cup {NoItem}]
    /\ posted \subseteq Items
    /\ processed \subseteq Items
    /\ outcome \in [Items -> Outcomes]

\* PostMessage sets the event and the takers reset it under the same mutex: whenever
\* the mutex is free and items are queued, no receiver sleeps on the queue's event
\* (lines 117-128 against 251-267): a posted item is never left to a sleeping worker.
NoLostWakeup ==
    m_MsgQueueItemList # <<>> /\ m_MsgQueueItemListLocker = NoThread =>
        m_MsgQueueEvent.m_bHasEvent /\ m_MsgQueueEvent.waiters = {}

\* With no spurious wakeup, a SendMessage(Timeout) that returns success does so after
\* the receiver processed its item (lines 172-188): the caller may read its outputs.
AnswerMeansProcessed ==
    "spurious" \notin Faults =>
        \A m \in Items : outcome[m] = "answered" => m \in processed

-----------------------------------------------------------------------------
(* The abstract mailbox this queue implements.                             *)

Queued == {m_MsgQueueItemList[i] : i \in DOMAIN m_MsgQueueItemList}
InHand == {item[t] : t \in {r \in Receivers : pc[r] \in {"handle", "reply"}}}

\* Items that did not get as far as the list.
NotAppended ==
    (Items \ posted) \cup {m \in Items : outcome[m] = "ERR_BUSY"}
        \cup {item[t] : t \in {s \in Senders : pc[s] = "lock"}}

StageOf(m) ==
    CASE m \in processed -> "done"
      [] m \in Queued -> "queued"
      [] m \in InHand \ processed -> "taken"
      [] m \in NotAppended -> "new"
      [] OTHER -> "dropped"

AbstractMailbox == INSTANCE Mailbox WITH
    inbox <- m_MsgQueueItemList,
    stage <- [m \in Items |-> StageOf(m)],
    answered <- {m \in Items : outcome[m] = "answered" /\ "spurious" \notin Faults}

\* The queue is a bounded FIFO that hands every item to one receiver, once, and whose
\* senders are answered only for processed items (but a spurious wakeup of the sender counts
\* as its answer, line 183: where these happen nothing is said of the answers).
ImplementsMailbox == AbstractMailbox!Spec

-----------------------------------------------------------------------------
(* Liveness, under FairSpec.                                               *)

\* A SendMessage returns if the listener is there before it is called: the callback has the
\* item handled, and the answer wakes the sender, asleep or not yet (lines 170-192).
SendReturns == \A t \in Senders :
    pc[t] \in {"lock", "signal", "notify"} /\ listener = "alive" ~> pc[t] = "idle"

\* The listener is called after the unlock, so a drain that it triggers finds the item,
\* or an earlier drain took it: no accepted item stays in the queue (lines 131-150).
NotifiedIsProcessed ==
    \A m \in Items :
        (\E t \in Senders : pc[t] = "notify" /\ item[t] = m /\ outcome[m] = "none"
                             /\ listener = "alive")
            ~> m \in processed

=============================================================================
