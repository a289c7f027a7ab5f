----------------------------- MODULE EventCenter -----------------------------
(***************************************************************************)
(* The event loop of the services (LinuxBaseLib/EventCenter.cpp).          *)
(*                                                                         *)
(* One thread takes messages from a list, input from file descriptors and  *)
(* timers, in this order of precedence, and handles them one at a time.    *)
(* Other threads, and the signal handler of the loop's own thread, append  *)
(* to the list and then send a byte to a datagram socket that the loop     *)
(* selects on, so that it wakes.  The socket holds few bytes and the       *)
(* sender waits for room; the loop reads a byte only when the list was     *)
(* empty.                                                                  *)
(*                                                                         *)
(* Time is relative: a timer has the age its start time gives it by the    *)
(* wall clock, up to its timeout, and below zero after the clock was set   *)
(* back.  A message is named by its poster.                                *)
(***************************************************************************)
EXTENDS Integers, SequencesExt

CONSTANTS
    Threads,    \* other threads that post messages
    Loop,       \* the thread of the loop, which posts in its signal handler
    Quit,       \* EVT_ID_QUIT_EVENT_LOOP
    SocketLimit,    \* bytes that fit in m_sckMsgQueueMonitor
    FdCount,    \* descriptors registered before the wakeup socket, in this order
    Timeouts,   \* of the timers the handlers register
    ALLOWED_MAX_TIMER_CNT,
    IdModulus,  \* 2^32: timer identifiers wrap
    ClockSteps  \* by how much the wall clock may be set, forwards or back

ASSUME ConstantsAssumption ==
    /\ IsFiniteSet(Threads)
    /\ Loop \notin Threads
    /\ Quit \notin Threads
    /\ SocketLimit \in Nat \ {0}
    /\ FdCount \in Nat
    /\ Timeouts \subseteq Nat \ {0}
    /\ ALLOWED_MAX_TIMER_CNT \in Nat
    /\ IdModulus \in Nat
    /\ IdModulus > ALLOWED_MAX_TIMER_CNT + 1
    /\ ClockSteps \subseteq Int

Posters == Threads \union {Loop}
Messages == Threads \union {Quit}
Fds == 1 .. FdCount
TimerIds == 0 .. IdModulus - 1
Forever == -1

VARIABLES
    m_lstMsgQueue,
    m_sckMsgQueueMonitor,   \* bytes in the wakeup socket
    posting,    \* posters whose message is in the list and whose byte is not sent
    readable,   \* descriptors with input
    m_lstTimerSet,
    m_uiLastRegisteredTimerId,
    loop,       \* where the loop is
    item,       \* the event in its hand
    timeout,    \* what is left of the timeout of select
    signalled,  \* a signal asked the loop to end
    clockWasSet,    \* the wall clock was set
    calm        \* no more messages, input or setting of the clock

messageVars == <<m_lstMsgQueue, m_sckMsgQueueMonitor, posting>>
timerVars == <<m_lstTimerSet, m_uiLastRegisteredTimerId>>
loopVars == <<loop, item, timeout>>
worldVars == <<readable, signalled, clockWasSet, calm>>
vars == <<messageVars, timerVars, loopVars, worldVars>>

Nothing == [kind |-> "none", of |-> 0]

Init ==
    /\ m_lstMsgQueue = <<>>
    /\ m_sckMsgQueueMonitor = 0
    /\ posting = {}
    /\ readable = {}
    /\ m_lstTimerSet = <<>>
    /\ m_uiLastRegisteredTimerId = 0
    /\ loop = "get"
    /\ item = Nothing
    /\ timeout = Forever
    /\ signalled = FALSE
    /\ clockWasSet = FALSE
    /\ calm = FALSE

\* The thread of the loop is not in its signal handler.
LoopRuns == Loop \notin posting

-----------------------------------------------------------------------------
(* PostMessage: the list, under its mutex, and then the wakeup socket.     *)

PostMessage(t) ==
    /\ ~calm
    /\ t \notin posting
    /\ m_lstMsgQueue' = Append(m_lstMsgQueue, t)
    /\ posting' = posting \union {t}
    /\ UNCHANGED <<m_sckMsgQueueMonitor, timerVars, loopVars, worldVars>>

\* A signal interrupts the loop outside the operations on its list: select returns EINTR.
SigHandler ==
    /\ ~calm
    /\ ~signalled
    /\ loop # "ended"
    /\ signalled' = TRUE
    /\ m_lstMsgQueue' = Append(m_lstMsgQueue, Quit)
    /\ posting' = posting \union {Loop}
    /\ loop' = IF loop = "select" THEN "get" ELSE loop
    /\ UNCHANGED <<m_sckMsgQueueMonitor, timerVars, item, timeout, readable, clockWasSet, calm>>

\* Mutant of SendTo: the send does not block, and no byte is sent when the socket is full.
SendToOrDrop(p) ==
    /\ p \in posting
    /\ m_sckMsgQueueMonitor' = IF m_sckMsgQueueMonitor < SocketLimit
                                   THEN m_sckMsgQueueMonitor + 1 ELSE SocketLimit
    /\ posting' = posting \ {p}
    /\ UNCHANGED <<m_lstMsgQueue, timerVars, loopVars, worldVars>>

SendTo(p) ==
    /\ p \in posting
    /\ m_sckMsgQueueMonitor < SocketLimit
    /\ m_sckMsgQueueMonitor' = m_sckMsgQueueMonitor + 1
    /\ posting' = posting \ {p}
    /\ UNCHANGED <<m_lstMsgQueue, timerVars, loopVars, worldVars>>

-----------------------------------------------------------------------------
(* The timers: in the order of the time that is left of them.              *)

Ids == {m_lstTimerSet[i].id : i \in DOMAIN m_lstTimerSet}

\* A sum of two identifiers, in their width.
Wrapped(n) == IF n < IdModulus THEN n ELSE n - IdModulus

\* Mutant of NewTimerId: identifiers in use are not skipped.
NewTimerIdUnchecked == Wrapped(m_uiLastRegisteredTimerId + 1)

\* Where the search for an identifier begins: after the last one, but not at 0.
FirstCandidate ==
    LET next == Wrapped(m_uiLastRegisteredTimerId + 1) IN IF next = 0 THEN 1 ELSE next

\* The first free identifier from there on, which is not 0 unless the search wraps.
NewTimerId ==
    Wrapped(FirstCandidate + Min({k \in TimerIds : Wrapped(FirstCandidate + k) \notin Ids}))

\* An unsigned difference: a timer that starts in the future has nothing left.
LeftTime(timer) == IF timer.age < 0 THEN 0 ELSE timer.timeout - timer.age

\* Mutant of PositionFor: new timers are appended.
PositionAtTail(newTimeout) == Len(m_lstTimerSet) + 1

PositionFor(newTimeout) ==
    LET longer == SelectInSeq(m_lstTimerSet, LAMBDA timer : LeftTime(timer) > newTimeout)
    IN  IF longer = 0 THEN Len(m_lstTimerSet) + 1 ELSE longer

RegisterTimer(newTimeout) ==
    /\ LoopRuns
    /\ loop = "handling"
    /\ Len(m_lstTimerSet) < ALLOWED_MAX_TIMER_CNT
    /\ m_lstTimerSet' = InsertAt(m_lstTimerSet, PositionFor(newTimeout),
                                 [id |-> NewTimerId, timeout |-> newTimeout, age |-> 0])
    /\ m_uiLastRegisteredTimerId' = NewTimerId
    /\ UNCHANGED <<messageVars, loopVars, worldVars>>

UnregisterTimer(id) ==
    /\ LoopRuns
    /\ loop = "handling"
    /\ id \in Ids
    /\ m_lstTimerSet' =
           RemoveAt(m_lstTimerSet, SelectInSeq(m_lstTimerSet, LAMBDA timer : timer.id = id))
    /\ UNCHANGED <<messageVars, m_uiLastRegisteredTimerId, loopVars, worldVars>>

\* The start of GetMinTimerWaitTimeMS: a timer that starts in the future starts now.
StartedByNow(timers) == [i \in DOMAIN timers |->
    IF timers[i].age < 0 THEN [timers[i] EXCEPT !.age = 0] ELSE timers[i]]

\* Mutant of GetMinTimerWaitTimeMS: no time left is taken for no timer.
GetMinTimerWaitZeroIsForever(timers) ==
    IF timers = <<>> THEN Forever ELSE IF LeftTime(timers[1]) = 0 THEN Forever ELSE LeftTime(timers[1])

GetMinTimerWaitTimeMS(timers) == IF timers = <<>> THEN Forever ELSE LeftTime(timers[1])

\* An unsigned difference again: a timer that starts in the future has expired.
HasExpired(timer) == timer.age < 0 \/ timer.age = timer.timeout

-----------------------------------------------------------------------------
(* GetMessage.                                                             *)

GetMessage ==
    /\ LoopRuns
    /\ loop = "get"
    /\ m_lstMsgQueue # <<>>
    /\ item' = [kind |-> "message", of |-> Head(m_lstMsgQueue)]
    /\ m_lstMsgQueue' = Tail(m_lstMsgQueue)
    /\ loop' = "dispatch"
    /\ UNCHANGED <<m_sckMsgQueueMonitor, posting, timerVars, timeout, worldVars>>

\* Mutant of BeginSelect: the list is not looked at first.
BeginSelectUnchecked ==
    /\ LoopRuns
    /\ loop = "get"
    /\ m_lstTimerSet' = StartedByNow(m_lstTimerSet)
    /\ timeout' = GetMinTimerWaitTimeMS(StartedByNow(m_lstTimerSet))
    /\ loop' = "select"
    /\ UNCHANGED <<messageVars, m_uiLastRegisteredTimerId, item, worldVars>>

\* Mutant of BeginSelect: input takes precedence over messages.
BeginSelectOnInput ==
    /\ LoopRuns
    /\ loop = "get"
    /\ m_lstMsgQueue = <<>> \/ readable # {}
    /\ m_lstTimerSet' = StartedByNow(m_lstTimerSet)
    /\ timeout' = GetMinTimerWaitTimeMS(StartedByNow(m_lstTimerSet))
    /\ loop' = "select"
    /\ UNCHANGED <<messageVars, m_uiLastRegisteredTimerId, item, worldVars>>

BeginSelect ==
    /\ LoopRuns
    /\ loop = "get"
    /\ m_lstMsgQueue = <<>>
    /\ m_lstTimerSet' = StartedByNow(m_lstTimerSet)
    /\ timeout' = GetMinTimerWaitTimeMS(StartedByNow(m_lstTimerSet))
    /\ loop' = "select"
    /\ UNCHANGED <<messageVars, m_uiLastRegisteredTimerId, item, worldVars>>

SomethingToRead == readable # {} \/ m_sckMsgQueueMonitor > 0

SelectReturns(newItem) ==
    /\ LoopRuns
    /\ loop = "select"
    /\ item' = newItem
    /\ loop' = "dispatch"
    /\ UNCHANGED <<messageVars, timeout, worldVars>>

\* The first descriptor with input; the wakeup socket was registered last.
SelectFd ==
    /\ \/ \E fd \in readable :
            /\ \A other \in readable : fd <= other
            /\ SelectReturns([kind |-> "fd", of |-> fd])
       \/ /\ readable = {}
          /\ m_sckMsgQueueMonitor > 0
          /\ SelectReturns([kind |-> "wakeup", of |-> 0])
    /\ UNCHANGED timerVars

GetTimerMessage ==
    LET expired == SelectInSeq(m_lstTimerSet, HasExpired) IN
    /\ timeout = 0
    /\ ~SomethingToRead
    /\ expired # 0
    /\ SelectReturns([kind |-> "timer", of |-> m_lstTimerSet[expired].id])
    /\ m_lstTimerSet' = RemoveAt(m_lstTimerSet, expired)
    /\ UNCHANGED m_uiLastRegisteredTimerId

\* The clock was set back while select was waiting.
NoTimerMessage ==
    /\ LoopRuns
    /\ loop = "select"
    /\ timeout = 0
    /\ ~SomethingToRead
    /\ SelectInSeq(m_lstTimerSet, HasExpired) = 0
    /\ loop' = "get"
    /\ UNCHANGED <<messageVars, timerVars, item, timeout, worldVars>>

-----------------------------------------------------------------------------
(* DispatchMessage, and the handler EventProc of the service.              *)

DispatchWakeup ==
    /\ LoopRuns
    /\ loop = "dispatch"
    /\ item.kind = "wakeup"
    /\ m_sckMsgQueueMonitor' = m_sckMsgQueueMonitor - 1
    /\ item' = Nothing
    /\ loop' = "get"
    /\ UNCHANGED <<m_lstMsgQueue, posting, timerVars, timeout, worldVars>>

Ends == item.kind = "message" /\ item.of = Quit

DispatchQuit ==
    /\ LoopRuns
    /\ loop = "dispatch"
    /\ Ends
    /\ loop' = "ended"
    /\ UNCHANGED <<messageVars, timerVars, item, timeout, worldVars>>

DispatchMessage ==
    /\ LoopRuns
    /\ loop = "dispatch"
    /\ item.kind # "wakeup"
    /\ ~Ends
    /\ readable' = IF item.kind = "fd" THEN readable \ {item.of} ELSE readable
    /\ loop' = "handling"
    /\ UNCHANGED <<messageVars, timerVars, item, timeout, signalled, clockWasSet, calm>>

EventProcReturns ==
    /\ LoopRuns
    /\ loop = "handling"
    /\ item' = Nothing
    /\ loop' = "get"
    /\ UNCHANGED <<messageVars, timerVars, timeout, worldVars>>

DoEvtLoop ==
    \/ GetMessage \/ BeginSelect \/ SelectFd \/ GetTimerMessage \/ NoTimerMessage
    \/ DispatchWakeup \/ DispatchQuit \/ DispatchMessage \/ EventProcReturns

-----------------------------------------------------------------------------
(* What happens around the loop.                                           *)

Input(fd) ==
    /\ ~calm
    /\ readable' = readable \union {fd}
    /\ UNCHANGED <<messageVars, timerVars, loopVars, signalled, clockWasSet, calm>>

\* A timer that is overdue counts as just expired.
Aged(by) == [i \in DOMAIN m_lstTimerSet |-> [m_lstTimerSet[i] EXCEPT !.age =
    IF @ + by > m_lstTimerSet[i].timeout THEN m_lstTimerSet[i].timeout ELSE @ + by]]

Tick ==
    /\ m_lstTimerSet' = Aged(1)
    /\ timeout' = IF timeout > 0 THEN timeout - 1 ELSE timeout
    /\ UNCHANGED <<messageVars, m_uiLastRegisteredTimerId, loop, item, worldVars>>

\* Not again while a timer starts in the future.
SetClock(by) ==
    /\ ~calm
    /\ \A i \in DOMAIN m_lstTimerSet : m_lstTimerSet[i].age >= 0
    /\ m_lstTimerSet' = Aged(by)
    /\ clockWasSet' = TRUE
    /\ UNCHANGED <<messageVars, m_uiLastRegisteredTimerId, loopVars, readable, signalled, calm>>

BecomesCalm ==
    /\ ~calm
    /\ calm' = TRUE
    /\ UNCHANGED <<messageVars, timerVars, loopVars, readable, signalled, clockWasSet>>

Next ==
    \/ DoEvtLoop
    \/ \E newTimeout \in Timeouts : RegisterTimer(newTimeout)
    \/ \E id \in TimerIds : UnregisterTimer(id)
    \/ \E t \in Threads : PostMessage(t)
    \/ \E p \in Posters : SendTo(p)
    \/ \E fd \in Fds : Input(fd)
    \/ \E by \in ClockSteps : SetClock(by)
    \/ SigHandler
    \/ Tick
    \/ BecomesCalm

Spec == Init /\ [][Next]_vars

\* The threads run, and time passes.
FairSpec ==
    /\ Spec
    /\ WF_vars(DoEvtLoop)
    /\ \A p \in Posters : WF_vars(SendTo(p))
    /\ WF_vars(Tick)

-----------------------------------------------------------------------------
(* Properties.                                                             *)

Timer == [id : TimerIds, timeout : Timeouts, age : Int]

MessageTypeOK ==
    /\ m_lstMsgQueue \in Seq(Messages)
    /\ m_sckMsgQueueMonitor \in 0 .. SocketLimit
    /\ posting \subseteq Posters

TimerTypeOK ==
    /\ m_lstTimerSet \in Seq(Timer)
    /\ Len(m_lstTimerSet) <= ALLOWED_MAX_TIMER_CNT
    /\ \A i \in DOMAIN m_lstTimerSet : m_lstTimerSet[i].age <= m_lstTimerSet[i].timeout
    /\ m_uiLastRegisteredTimerId \in TimerIds

LoopTypeOK ==
    /\ loop \in {"get", "select", "dispatch", "handling", "ended"}
    /\ \/ item = Nothing
       \/ item \in [kind : {"message"}, of : Messages]
       \/ item \in [kind : {"fd"}, of : Fds]
       \/ item = [kind |-> "wakeup", of |-> 0]
       \/ item \in [kind : {"timer"}, of : TimerIds]
    /\ timeout \in {Forever} \union Nat

WorldTypeOK ==
    /\ readable \subseteq Fds
    /\ signalled \in BOOLEAN
    /\ clockWasSet \in BOOLEAN
    /\ calm \in BOOLEAN

\* Types and limits: the socket holds SocketLimit bytes, there are no more timers than
\* allowed, and a timer is no older than its timeout (EventCenter.cpp:7, 277).
TypeOK == MessageTypeOK /\ TimerTypeOK /\ LoopTypeOK /\ WorldTypeOK

\* The loop does not sleep on a message: while select waits and the list is not empty, there
\* is a byte in the wakeup socket or its poster is about to send one (EventCenter.cpp:447-476).
NoMessageIsSleptOn ==
    loop = "select" /\ m_lstMsgQueue # <<>> => m_sckMsgQueueMonitor > 0 \/ posting # {}

\* Every message of the list has a byte in the socket or a poster about to send it, but one
\* whose byte was just read.  The list itself has no limit: this is what bounds it
\* (EventCenter.cpp:471, 506).
EveryMessageHasItsByte ==
    Len(m_lstMsgQueue) <= m_sckMsgQueueMonitor + Cardinality(posting) + IF loop = "get" THEN 1 ELSE 0

\* As long as the clock was not set, select waits no longer than any timer has left, though only
\* the first of the list is looked at (EventCenter.cpp:351, 694).
SleepsUntilTheFirstTimer ==
    loop = "select" /\ ~clockWasSet =>
        \A i \in DOMAIN m_lstTimerSet : timeout \in 0 .. LeftTime(m_lstTimerSet[i])

\* No two registered timers have the same identifier, also after the identifiers wrapped
\* (EventCenter.cpp:290-316).
TimerIdsDistinct ==
    \A i, j \in DOMAIN m_lstTimerSet : m_lstTimerSet[i].id = m_lstTimerSet[j].id => i = j

\* The loop waits in its signal handler for room in a socket that only it reads.
LoopIsStuck == Loop \in posting /\ m_sckMsgQueueMonitor = SocketLimit

\* Every posted message is dispatched, also under input without end, unless the loop ends
\* first or is stuck in its signal handler (EventCenter.cpp:552-573).
PostedIsDispatched == \A m \in Messages :
    m \in Range(m_lstMsgQueue) ~>
        item = [kind |-> "message", of |-> m] \/ loop = "ended" \/ LoopIsStuck

\* Once messages, input and settings of the clock have stopped, every timer fires or is
\* unregistered by a handler (EventCenter.cpp:649-652).
TimersFire == \A id \in TimerIds :
    calm /\ id \in Ids ~> id \notin Ids \/ loop = "ended" \/ LoopIsStuck

=============================================================================
