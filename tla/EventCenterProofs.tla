--------------------------- MODULE EventCenterProofs ---------------------------
(***************************************************************************)
(* The event loop, for any number of posting threads, any size of the      *)
(* wakeup socket, any timers, and whatever input and settings of the clock *)
(* do meanwhile.                                                           *)
(***************************************************************************)
EXTENDS EventCenter, FiniteSetTheorems, SequenceTheorems, WellFoundedInduction, TLAPS

(***************************************************************************)
(* The messages: their inductive invariant.  A message is covered by its   *)
(* own byte or by its poster, and the one message whose byte the loop has  *)
(* read is covered by the loop, which looks at the list next.  That the    *)
(* loop reads only bytes that are there, and that its signal handler posts *)
(* only once, keeps the sum exact.                                         *)
(***************************************************************************)

\* The loop handles a wakeup only while the byte it is about to read is in the socket.
WakeupHasItsByte ==
    loop = "dispatch" /\ item.kind = "wakeup" => m_sckMsgQueueMonitor > 0

\* Only a signal makes the thread of the loop post.
LoopPostsWhenSignalled == Loop \in posting => signalled

IInv ==
    /\ MessageTypeOK
    /\ WakeupHasItsByte
    /\ LoopPostsWhenSignalled
    /\ EveryMessageHasItsByte

-----------------------------------------------------------------------------
(* The posters are finitely many; so are those that are posting.           *)

\* What PostMessage and SendTo do to the number of posters between list and socket.
LEMMA PostingCounts ==
    ASSUME MessageTypeOK
    PROVE  /\ Cardinality(posting) \in Nat
           /\ \A p \in Posters : p \notin posting =>
                 Cardinality(posting \union {p}) = Cardinality(posting) + 1
           /\ \A p \in posting : Cardinality(posting \ {p}) = Cardinality(posting) - 1
           /\ Cardinality(posting) > 0 => posting # {}
<1>1. IsFiniteSet(Posters)
    BY ConstantsAssumption, FS_AddElement, Posters = Threads \union {Loop} DEF Posters
<1>2. IsFiniteSet(posting)
    BY <1>1, FS_Subset DEF MessageTypeOK
<1>3. Cardinality(posting) \in Nat
    BY <1>2, FS_CardinalityType
<1>4. ASSUME NEW p, p \notin posting
      PROVE  Cardinality(posting \union {p}) = Cardinality(posting) + 1
    BY <1>2, <1>4, FS_AddElement
<1>5. ASSUME NEW p \in posting
      PROVE  Cardinality(posting \ {p}) = Cardinality(posting) - 1
    BY <1>2, FS_RemoveElement
<1>6. Cardinality(posting) > 0 => posting # {}
    BY FS_EmptySet
<1>7. QED
    BY <1>3, <1>4, <1>5, <1>6

\* The loop begins with an empty list and an empty socket.
LEMMA InitIInv == Init => IInv
<1>1. Init => Cardinality(posting) = 0
    BY FS_EmptySet DEF Init
<1>2. QED
    BY <1>1, ConstantsAssumption
       DEF Init, IInv, MessageTypeOK, WakeupHasItsByte, LoopPostsWhenSignalled,
           EveryMessageHasItsByte, Nothing

-----------------------------------------------------------------------------
(* Every step preserves it.                                                *)

\* A message that is posted is counted with its poster until its byte is sent.
LEMMA PostersPreserve ==
    ASSUME IInv, (\E t \in Threads : PostMessage(t)) \/ SigHandler \/ \E p \in Posters : SendTo(p)
    PROVE  IInv'
<1> USE ConstantsAssumption DEF Posters, Messages, loopVars, worldVars, timerVars
<1>a. MessageTypeOK /\ WakeupHasItsByte /\ LoopPostsWhenSignalled /\ EveryMessageHasItsByte
    BY DEF IInv
<1>1. ASSUME NEW t \in Threads, PostMessage(t) PROVE IInv'
    <2>1. MessageTypeOK' /\ WakeupHasItsByte' /\ LoopPostsWhenSignalled'
        BY <1>a, <1>1
           DEF PostMessage, MessageTypeOK, WakeupHasItsByte, LoopPostsWhenSignalled
    <2>2. Cardinality(posting') = Cardinality(posting) + 1 /\ Cardinality(posting) \in Nat
        BY <1>a, <1>1, PostingCounts DEF PostMessage
    <2>3. Len(m_lstMsgQueue') = Len(m_lstMsgQueue) + 1
        BY <1>a, <1>1 DEF PostMessage, MessageTypeOK
    <2>4. EveryMessageHasItsByte'
        BY <1>a, <1>1, <2>2, <2>3 DEF PostMessage, EveryMessageHasItsByte, MessageTypeOK
    <2>5. QED
        BY <2>1, <2>4 DEF IInv
<1>2. ASSUME SigHandler PROVE IInv'
    <2>1. MessageTypeOK' /\ WakeupHasItsByte' /\ LoopPostsWhenSignalled'
        BY <1>a, <1>2
           DEF SigHandler, MessageTypeOK, WakeupHasItsByte, LoopPostsWhenSignalled
    <2>2. Cardinality(posting') = Cardinality(posting) + 1 /\ Cardinality(posting) \in Nat
        BY <1>a, <1>2, PostingCounts DEF SigHandler, LoopPostsWhenSignalled
    <2>3. Len(m_lstMsgQueue') = Len(m_lstMsgQueue) + 1
        BY <1>a, <1>2 DEF SigHandler, MessageTypeOK
    <2>4. EveryMessageHasItsByte'
        BY <1>a, <1>2, <2>2, <2>3 DEF SigHandler, EveryMessageHasItsByte, MessageTypeOK
    <2>5. QED
        BY <2>1, <2>4 DEF IInv
<1>3. ASSUME NEW p \in Posters, SendTo(p) PROVE IInv'
    <2>1. MessageTypeOK' /\ WakeupHasItsByte' /\ LoopPostsWhenSignalled'
        BY <1>a, <1>3
           DEF SendTo, MessageTypeOK, WakeupHasItsByte, LoopPostsWhenSignalled
    <2>2. Cardinality(posting') = Cardinality(posting) - 1 /\ Cardinality(posting) \in Nat
        BY <1>a, <1>3, PostingCounts DEF SendTo
    <2>3. EveryMessageHasItsByte'
        BY <1>a, <1>3, <2>2 DEF SendTo, EveryMessageHasItsByte, MessageTypeOK
    <2>4. QED
        BY <2>1, <2>3 DEF IInv
<1>4. QED
    BY <1>1, <1>2, <1>3

\* The loop takes a message, or reads a byte and looks at the list next; it goes to sleep
\* only when the list is empty.
LEMMA LoopPreserves ==
    ASSUME IInv, DoEvtLoop
    PROVE  IInv'
<1> USE ConstantsAssumption DEF messageVars, worldVars
<1>a. MessageTypeOK /\ WakeupHasItsByte /\ LoopPostsWhenSignalled /\ EveryMessageHasItsByte
    BY DEF IInv
<1>b. Cardinality(posting) \in Nat
    BY <1>a, PostingCounts
<1>1. CASE GetMessage
    <2>1. m_lstMsgQueue' \in Seq(Messages) /\ Len(m_lstMsgQueue') = Len(m_lstMsgQueue) - 1
        BY <1>1, <1>a DEF GetMessage, MessageTypeOK
    <2>2. MessageTypeOK' /\ WakeupHasItsByte' /\ LoopPostsWhenSignalled'
        BY <1>1, <1>a, <2>1
           DEF GetMessage, MessageTypeOK, WakeupHasItsByte, LoopPostsWhenSignalled
    <2>3. EveryMessageHasItsByte'
        BY <1>1, <1>a, <1>b, <2>1 DEF GetMessage, MessageTypeOK, EveryMessageHasItsByte
    <2>4. QED
        BY <2>2, <2>3 DEF IInv
<1>2. CASE BeginSelect
    <2>1. MessageTypeOK' /\ WakeupHasItsByte' /\ LoopPostsWhenSignalled'
        BY <1>2, <1>a
           DEF BeginSelect, MessageTypeOK, WakeupHasItsByte, LoopPostsWhenSignalled
    <2>2. EveryMessageHasItsByte'
        BY <1>2, <1>a, <1>b DEF BeginSelect, MessageTypeOK, EveryMessageHasItsByte
    <2>3. QED
        BY <2>1, <2>2 DEF IInv
<1>3. CASE SelectFd
    <2>1. /\ UNCHANGED <<messageVars, worldVars>> /\ loop = "select" /\ loop' = "dispatch"
          /\ item'.kind = "wakeup" => m_sckMsgQueueMonitor > 0
        BY <1>3 DEF SelectFd, SelectReturns
    <2>2. QED
        BY <2>1, <1>a, <1>b
           DEF IInv, MessageTypeOK, WakeupHasItsByte, LoopPostsWhenSignalled,
               EveryMessageHasItsByte
<1>4. CASE GetTimerMessage
    <2>1. /\ UNCHANGED <<messageVars, worldVars>> /\ loop = "select" /\ loop' = "dispatch"
          /\ item'.kind # "wakeup"
        BY <1>4 DEF GetTimerMessage, SelectReturns
    <2>2. QED
        BY <2>1, <1>a, <1>b
           DEF IInv, MessageTypeOK, WakeupHasItsByte, LoopPostsWhenSignalled,
               EveryMessageHasItsByte
<1>5. CASE NoTimerMessage
    <2>1. UNCHANGED <<messageVars, worldVars>> /\ loop = "select" /\ loop' = "get"
        BY <1>5 DEF NoTimerMessage
    <2>2. QED
        BY <2>1, <1>a, <1>b
           DEF IInv, MessageTypeOK, WakeupHasItsByte, LoopPostsWhenSignalled,
               EveryMessageHasItsByte
<1>6. CASE DispatchWakeup
    BY <1>6, <1>a, <1>b
       DEF DispatchWakeup, IInv, MessageTypeOK, WakeupHasItsByte, LoopPostsWhenSignalled,
           EveryMessageHasItsByte
<1>7. CASE DispatchQuit
    BY <1>7, <1>a, <1>b
       DEF DispatchQuit, IInv, MessageTypeOK, WakeupHasItsByte, LoopPostsWhenSignalled,
           EveryMessageHasItsByte
<1>8. CASE DispatchMessage
    BY <1>8, <1>a, <1>b
       DEF DispatchMessage, IInv, MessageTypeOK, WakeupHasItsByte, LoopPostsWhenSignalled,
           EveryMessageHasItsByte
<1>9. CASE EventProcReturns
    BY <1>9, <1>a, <1>b
       DEF EventProcReturns, IInv, MessageTypeOK, WakeupHasItsByte, LoopPostsWhenSignalled,
           EveryMessageHasItsByte
<1>10. QED
    BY <1>1, <1>2, <1>3, <1>4, <1>5, <1>6, <1>7, <1>8, <1>9 DEF DoEvtLoop

\* Timers, input, time and the clock leave the messages alone.
LEMMA RestPreserves ==
    ASSUME IInv, UNCHANGED <<messageVars, loop, item, signalled>>
    PROVE  IInv'
BY DEF messageVars, IInv, MessageTypeOK, WakeupHasItsByte, LoopPostsWhenSignalled,
       EveryMessageHasItsByte

\* Every step of the loop and around it preserves the invariant.
LEMMA NextIInv == IInv /\ [Next]_vars => IInv'
<1> SUFFICES ASSUME IInv, [Next]_vars PROVE IInv'
    OBVIOUS
<1>1. CASE DoEvtLoop
    BY <1>1, LoopPreserves
<1>2. CASE (\E t \in Threads : PostMessage(t)) \/ SigHandler \/ \E p \in Posters : SendTo(p)
    BY <1>2, PostersPreserve
<1>3. ASSUME NEW newTimeout \in Timeouts, RegisterTimer(newTimeout)
      PROVE  UNCHANGED <<messageVars, loop, item, signalled>>
    BY <1>3 DEF RegisterTimer, loopVars, worldVars
<1>4. ASSUME NEW id \in TimerIds, UnregisterTimer(id)
      PROVE  UNCHANGED <<messageVars, loop, item, signalled>>
    BY <1>4 DEF UnregisterTimer, loopVars, worldVars
<1>5. ASSUME NEW fd \in Fds, Input(fd)
      PROVE  UNCHANGED <<messageVars, loop, item, signalled>>
    BY <1>5 DEF Input, loopVars
<1>6. ASSUME NEW by \in ClockSteps, SetClock(by)
      PROVE  UNCHANGED <<messageVars, loop, item, signalled>>
    BY <1>6 DEF SetClock, loopVars
<1>7. ASSUME Tick \/ BecomesCalm \/ UNCHANGED vars
      PROVE  UNCHANGED <<messageVars, loop, item, signalled>>
    BY <1>7 DEF Tick, BecomesCalm, vars, loopVars, worldVars
<1>8. QED
    BY <1>1, <1>2, <1>3, <1>4, <1>5, <1>6, <1>7, RestPreserves DEF Next

-----------------------------------------------------------------------------
(***************************************************************************)
(* The timers: their inductive invariant.  The identifiers are distinct    *)
(* because a search among more identifiers than timers finds a free one.   *)
(* As long as the clock was not set, every timer started in the past and   *)
(* the list is in the order of the time that is left, so that the timeout  *)
(* of select, that of the first timer, is the least; time takes the same   *)
(* from all of them until nothing is left.                                 *)
(***************************************************************************)

\* Timers have not started in the future, and are in the order of what is left of them.
InOrder ==
    /\ \A i \in DOMAIN m_lstTimerSet : m_lstTimerSet[i].age >= 0
    /\ \A i, j \in DOMAIN m_lstTimerSet :
          i < j => LeftTime(m_lstTimerSet[i]) <= LeftTime(m_lstTimerSet[j])

\* While select waits, what is left of its timeout is what is left of the first timer.
SleepsForTheFirst == loop = "select" => timeout = GetMinTimerWaitTimeMS(m_lstTimerSet)

TimerInv ==
    /\ TimerTypeOK
    /\ LoopTypeOK
    /\ WorldTypeOK
    /\ TimerIdsDistinct
    /\ ~clockWasSet => InOrder /\ SleepsForTheFirst

-----------------------------------------------------------------------------
(* Lists and the search for the least.                                     *)

\* A set of natural numbers that is not empty has a least one.
LEMMA MinIsLeast ==
    ASSUME NEW I, I \subseteq Nat, I # {}
    PROVE  Min(I) \in I /\ \A j \in I : Min(I) <= j
<1> DEFINE Smaller == {ss \in Nat \X Nat : ss[1] < ss[2]}
<1>1. IsWellFoundedOn(Smaller, Nat)
    BY NatLessThanWellFounded DEF OpToRel
<1>2. \A x, y \in Nat : x < y => <<x, y>> \in Smaller
    OBVIOUS
<1> HIDE DEF Smaller
<1>3. PICK x \in I : \A y \in I : ~(<<y, x>> \in Smaller)
    BY <1>1, WFMin
<1>4. ASSUME NEW y \in I PROVE x <= y
    <2>1. x \in Nat /\ y \in Nat
        OBVIOUS
    <2>2. ~(y < x)
        BY <2>1, <1>2, <1>3
    <2>3. QED
        BY <2>1, <2>2
<1>5. QED
    BY <1>4 DEF Min

\* Where the timers are after one of them was removed.
LEMMA RemoveAtPlaces ==
    ASSUME NEW S, NEW s \in Seq(S), NEW k \in 1 .. Len(s)
    PROVE  /\ RemoveAt(s, k) \in Seq(S)
           /\ Len(RemoveAt(s, k)) = Len(s) - 1
           /\ \A i \in 1 .. Len(s) - 1 :
                RemoveAt(s, k)[i] = IF i < k THEN s[i] ELSE s[i + 1]
<1> DEFINE left == SubSeq(s, 1, k - 1)
           right == SubSeq(s, k + 1, Len(s))
<1>1. /\ left \in Seq(S) /\ Len(left) = k - 1
      /\ \A i \in 1 .. k - 1 : left[i] = s[i]
    BY SubSeqProperties
<1>2. /\ right \in Seq(S) /\ Len(right) = Len(s) - k
      /\ \A i \in 1 .. Len(s) - k : right[i] = s[k + i]
    BY SubSeqProperties
<1>3. RemoveAt(s, k) = left \o right
    BY DEF RemoveAt
<1> HIDE DEF left, right
<1>4. /\ left \o right \in Seq(S) /\ Len(left \o right) = Len(s) - 1
      /\ \A i \in 1 .. Len(s) - 1 :
            (left \o right)[i] = IF i <= k - 1 THEN left[i] ELSE right[i - (k - 1)]
    BY <1>1, <1>2, ConcatProperties
<1>5. ASSUME NEW i \in 1 .. Len(s) - 1
      PROVE  (left \o right)[i] = IF i < k THEN s[i] ELSE s[i + 1]
    <2>1. CASE i < k
        BY <2>1, <1>1, <1>4
    <2>2. CASE ~(i < k)
        <3>1. i - (k - 1) \in 1 .. Len(s) - k /\ k + (i - (k - 1)) = i + 1
            BY <2>2
        <3>2. QED
            BY <3>1, <2>2, <1>2, <1>4
    <2>3. QED
        BY <2>1, <2>2
<1>6. QED
    BY <1>3, <1>4, <1>5

\* Where they are after one was inserted.
LEMMA InsertAtPlaces ==
    ASSUME NEW S, NEW s \in Seq(S), NEW k \in 1 .. Len(s) + 1, NEW e \in S
    PROVE  /\ InsertAt(s, k, e) \in Seq(S)
           /\ Len(InsertAt(s, k, e)) = Len(s) + 1
           /\ \A i \in 1 .. Len(s) + 1 :
                InsertAt(s, k, e)[i] = IF i < k THEN s[i] ELSE IF i = k THEN e ELSE s[i - 1]
<1> DEFINE before == SubSeq(s, 1, k - 1)
           left == before \o <<e>>
           right == SubSeq(s, k, Len(s))
<1>1. /\ left \in Seq(S) /\ Len(left) = k /\ left[k] = e
      /\ \A i \in 1 .. k - 1 : left[i] = s[i]
    <2>1. /\ before \in Seq(S) /\ Len(before) = k - 1
          /\ \A i \in 1 .. k - 1 : before[i] = s[i]
        BY SubSeqProperties
    <2> HIDE DEF before
    <2>2. left \in Seq(S) /\ Len(left) = k /\ left[k] = e
        BY <2>1
    <2>3. \A i \in 1 .. k - 1 : left[i] = before[i]
        BY <2>1
    <2>4. QED
        BY <2>1, <2>2, <2>3
<1>2. /\ right \in Seq(S) /\ Len(right) = Len(s) - k + 1
      /\ \A i \in 1 .. Len(s) - k + 1 : right[i] = s[k + i - 1]
    BY SubSeqProperties
<1>3. InsertAt(s, k, e) = left \o right
    BY DEF InsertAt
<1> HIDE DEF before, left, right
<1>4. /\ left \o right \in Seq(S) /\ Len(left \o right) = Len(s) + 1
      /\ \A i \in 1 .. Len(s) + 1 :
            (left \o right)[i] = IF i <= k THEN left[i] ELSE right[i - k]
    <2>1. Len(left) + Len(right) = Len(s) + 1
        BY <1>1, <1>2
    <2>2. /\ left \o right \in Seq(S) /\ Len(left \o right) = Len(left) + Len(right)
          /\ \A i \in 1 .. Len(left) + Len(right) :
                (left \o right)[i] = IF i <= Len(left) THEN left[i] ELSE right[i - Len(left)]
        BY <1>1, <1>2, ConcatProperties
    <2>3. QED
        BY <2>1, <2>2, <1>1
<1>5. ASSUME NEW i \in 1 .. Len(s) + 1
      PROVE  (left \o right)[i] = IF i < k THEN s[i] ELSE IF i = k THEN e ELSE s[i - 1]
    <2>1. CASE i <= k
        BY <2>1, <1>1, <1>4
    <2>2. CASE ~(i <= k)
        <3>1. i - k \in 1 .. Len(s) - k + 1 /\ k + (i - k) - 1 = i - 1
            BY <2>2
        <3>2. QED
            BY <3>1, <2>2, <1>2, <1>4
    <2>3. QED
        BY <2>1, <2>2
<1>6. QED
    BY <1>3, <1>4, <1>5

\* There is a free identifier, since there are fewer timers than identifiers; the search
\* gives one.
LEMMA NewTimerIdIsFree ==
    ASSUME TimerTypeOK, Len(m_lstTimerSet) < ALLOWED_MAX_TIMER_CNT
    PROVE  NewTimerId \in TimerIds \ Ids
<1> USE ConstantsAssumption
<1> DEFINE n == Len(m_lstTimerSet)
           IdAt == [i \in 1 .. n |-> m_lstTimerSet[i].id]
           Free == {k \in TimerIds : Wrapped(FirstCandidate + k) \notin Ids}
<1>1. n \in Nat /\ n < IdModulus /\ DOMAIN m_lstTimerSet = 1 .. n
    BY DEF TimerTypeOK
<1>2. Cardinality(Ids) <= n
    <2>1. IdAt \in Surjection(1 .. n, Ids)
        BY <1>1 DEF Surjection, Ids
    <2>2. IsFiniteSet(1 .. n) /\ Cardinality(1 .. n) = n
        <3> HIDE DEF n
        <3>1. QED
            BY <1>1, FS_Interval
    <2>3. QED
        BY <2>1, <2>2, FS_Surjection
<1>3. Cardinality(TimerIds) = IdModulus
    BY FS_Interval DEF TimerIds
<1>4. PICK id \in TimerIds : id \notin Ids
    <2>1. Ids \subseteq TimerIds
        <3>1. \A i \in 1 .. n : m_lstTimerSet[i] \in Timer
            BY <1>1 DEF TimerTypeOK
        <3>2. QED
            BY <3>1, <1>1 DEF Ids, Timer
    <2>2. Ids # TimerIds
        BY <1>1, <1>2, <1>3
    <2>3. QED
        BY <2>1, <2>2
<1>5. FirstCandidate \in TimerIds
    BY <1>1 DEF FirstCandidate, Wrapped, TimerIds, TimerTypeOK
<1>6. \A k \in TimerIds : Wrapped(FirstCandidate + k) \in TimerIds
    BY <1>5 DEF Wrapped, TimerIds
<1>7. Free # {}
    <2>1. \E k \in TimerIds : Wrapped(FirstCandidate + k) = id
        <3>1. CASE id >= FirstCandidate
            <4>1. /\ id - FirstCandidate \in TimerIds
                  /\ Wrapped(FirstCandidate + (id - FirstCandidate)) = id
                BY <3>1, <1>5 DEF Wrapped, TimerIds
            <4>2. QED
                BY <4>1
        <3>2. CASE id < FirstCandidate
            <4>1. /\ id - FirstCandidate + IdModulus \in TimerIds
                  /\ Wrapped(FirstCandidate + (id - FirstCandidate + IdModulus)) = id
                BY <3>2, <1>5 DEF Wrapped, TimerIds
            <4>2. QED
                BY <4>1
        <3>3. QED
            BY <3>1, <3>2, <1>5 DEF TimerIds
    <2>2. QED
        BY <2>1, <1>4
<1>8. Min(Free) \in Free
    BY <1>7, MinIsLeast DEF TimerIds
<1>9. NewTimerId = Wrapped(FirstCandidate + Min(Free))
    BY DEF NewTimerId
<1>10. QED
    BY <1>6, <1>8, <1>9

\* The place of a new timer: behind those with no more time left, before the first with more.
LEMMA PositionSeparates ==
    ASSUME TimerTypeOK, NEW newTimeout \in Timeouts
    PROVE  /\ PositionFor(newTimeout) \in 1 .. Len(m_lstTimerSet) + 1
           /\ \A i \in 1 .. PositionFor(newTimeout) - 1 :
                ~(LeftTime(m_lstTimerSet[i]) > newTimeout)
           /\ PositionFor(newTimeout) <= Len(m_lstTimerSet) =>
                LeftTime(m_lstTimerSet[PositionFor(newTimeout)]) > newTimeout
<1> DEFINE Longer == {i \in 1 .. Len(m_lstTimerSet) : LeftTime(m_lstTimerSet[i]) > newTimeout}
<1>0. Len(m_lstTimerSet) \in Nat
    BY DEF TimerTypeOK
<1>a. Longer # {} => Min(Longer) \in Longer /\ \A j \in Longer : Min(Longer) <= j
    <2>1. Longer \subseteq Nat
        OBVIOUS
    <2> HIDE DEF Longer
    <2>2. QED
        BY <2>1, MinIsLeast
<1>1. PositionFor(newTimeout) = IF Longer = {} THEN Len(m_lstTimerSet) + 1 ELSE Min(Longer)
    <2>1. CASE Longer = {}
        BY <2>1, <1>0 DEF PositionFor, SelectInSeq
    <2>2. CASE Longer # {}
        <3>1. Min(Longer) \in 1 .. Len(m_lstTimerSet)
            BY <2>2, <1>a
        <3>2. QED
            BY <2>2, <3>1 DEF PositionFor, SelectInSeq
    <2>3. QED
        BY <2>1, <2>2
<1>2. CASE Longer = {}
    BY <1>2, <1>1, <1>0
<1>3. CASE Longer # {}
    <2>1. Min(Longer) \in Longer /\ \A j \in Longer : Min(Longer) <= j
        BY <1>3, <1>a
    <2>2. QED
        BY <2>1, <1>3, <1>1, <1>0, SMTT(30)
<1>4. QED
    BY <1>2, <1>3

-----------------------------------------------------------------------------
(* What is done to the timers keeps them typed, distinct and in order.     *)

\* What is left of a timer is a natural number.
LEMMA LeftTimeType ==
    ASSUME TimerTypeOK, NEW i \in 1 .. Len(m_lstTimerSet)
    PROVE  /\ m_lstTimerSet[i] \in Timer
           /\ LeftTime(m_lstTimerSet[i]) \in Nat
<1>1. m_lstTimerSet[i] \in Timer /\ m_lstTimerSet[i].age <= m_lstTimerSet[i].timeout
    BY DEF TimerTypeOK
<1>2. m_lstTimerSet[i].timeout \in Nat /\ m_lstTimerSet[i].age \in Int
    BY <1>1, ConstantsAssumption DEF Timer
<1>3. QED
    BY <1>1, <1>2 DEF LeftTime

\* A timer that fires or is unregistered leaves the others distinct and in order.
LEMMA RemoveKeeps ==
    ASSUME TimerTypeOK, TimerIdsDistinct, NEW k \in 1 .. Len(m_lstTimerSet),
           m_lstTimerSet' = RemoveAt(m_lstTimerSet, k), UNCHANGED m_uiLastRegisteredTimerId
    PROVE  TimerTypeOK' /\ TimerIdsDistinct' /\ (InOrder => InOrder')
<1> DEFINE n == Len(m_lstTimerSet)
           at(i) == IF i < k THEN i ELSE i + 1
<1>1. /\ m_lstTimerSet' \in Seq(Timer) /\ Len(m_lstTimerSet') = n - 1
      /\ DOMAIN m_lstTimerSet = 1 .. n /\ DOMAIN m_lstTimerSet' = 1 .. n - 1 /\ n \in Nat
      /\ \A i \in 1 .. n - 1 : m_lstTimerSet'[i] = m_lstTimerSet[at(i)]
    BY RemoveAtPlaces DEF TimerTypeOK
<1>2. /\ \A i \in 1 .. n - 1 : at(i) \in 1 .. n
      /\ \A i, j \in 1 .. n - 1 : (at(i) = at(j) => i = j) /\ (i < j => at(i) < at(j))
    BY <1>1
<1> HIDE DEF n, at
<1>3. TimerTypeOK'
    BY <1>1, <1>2, ConstantsAssumption DEF TimerTypeOK, n
<1>4. TimerIdsDistinct'
    <2> SUFFICES ASSUME NEW i \in 1 .. n - 1, NEW j \in 1 .. n - 1,
                        m_lstTimerSet'[i].id = m_lstTimerSet'[j].id
                 PROVE  i = j
        BY <1>1 DEF TimerIdsDistinct
    <2>1. at(i) \in 1 .. n /\ at(j) \in 1 .. n
        BY <1>2
    <2>2. m_lstTimerSet[at(i)].id = m_lstTimerSet[at(j)].id
        BY <1>1
    <2>3. at(i) = at(j)
        BY <2>1, <2>2, <1>1 DEF TimerIdsDistinct
    <2>4. QED
        BY <2>3, <1>2
<1>5. InOrder => InOrder'
    BY <1>1, <1>2 DEF InOrder, LeftTime
<1>6. QED
    BY <1>3, <1>4, <1>5

\* A new timer has an identifier of its own, and its place in the order.
LEMMA RegisterKeeps ==
    ASSUME TimerTypeOK, TimerIdsDistinct, NEW newTimeout \in Timeouts, RegisterTimer(newTimeout)
    PROVE  TimerTypeOK' /\ TimerIdsDistinct' /\ (InOrder => InOrder')
<1> DEFINE n == Len(m_lstTimerSet)
           k == PositionFor(newTimeout)
           timer == [id |-> NewTimerId, timeout |-> newTimeout, age |-> 0]
           at(i) == IF i < k THEN i ELSE i - 1
<1>0. n \in Nat /\ DOMAIN m_lstTimerSet = 1 .. n
    BY DEF TimerTypeOK
<1>1. NewTimerId \in TimerIds \ Ids
    BY NewTimerIdIsFree DEF RegisterTimer
<1>2. timer \in Timer
    BY <1>1 DEF Timer
<1>3. /\ k \in 1 .. n + 1
      /\ \A i \in 1 .. k - 1 : ~(LeftTime(m_lstTimerSet[i]) > newTimeout)
      /\ k <= n => LeftTime(m_lstTimerSet[k]) > newTimeout
    BY PositionSeparates
<1>4. m_lstTimerSet' = InsertAt(m_lstTimerSet, k, timer) /\ n < ALLOWED_MAX_TIMER_CNT
    BY DEF RegisterTimer
<1> HIDE DEF k, timer
<1>5. /\ m_lstTimerSet' \in Seq(Timer) /\ Len(m_lstTimerSet') = n + 1
      /\ DOMAIN m_lstTimerSet' = 1 .. n + 1
      /\ m_lstTimerSet'[k] = timer
      /\ \A i \in 1 .. n + 1 : i # k => m_lstTimerSet'[i] = m_lstTimerSet[at(i)]
    <2>1. m_lstTimerSet \in Seq(Timer)
        BY DEF TimerTypeOK
    <2>2. /\ m_lstTimerSet' \in Seq(Timer) /\ Len(m_lstTimerSet') = n + 1
          /\ \A i \in 1 .. n + 1 : m_lstTimerSet'[i] =
                IF i < k THEN m_lstTimerSet[i] ELSE IF i = k THEN timer ELSE m_lstTimerSet[i - 1]
        BY <2>1, <1>2, <1>3, <1>4, InsertAtPlaces
    <2>3. QED
        BY <2>2, <1>0, <1>3
<1>6. /\ \A i \in 1 .. n + 1 : i # k => at(i) \in 1 .. n
      /\ \A i, j \in 1 .. n + 1 :
            i # k /\ j # k => (at(i) = at(j) => i = j) /\ (i < j => at(i) < at(j))
    BY <1>0, <1>3
<1>7. timer.id \notin Ids /\ timer.age = 0 /\ timer.timeout = newTimeout
    BY <1>1 DEF timer
<1>8. TimerTypeOK'
    <2>1. \A i \in 1 .. n + 1 : m_lstTimerSet'[i].age <= m_lstTimerSet'[i].timeout
        <3>1. 0 <= newTimeout
            BY ConstantsAssumption
        <3>2. QED
            BY <3>1, <1>0, <1>5, <1>6, <1>7 DEF TimerTypeOK
    <2>2. m_uiLastRegisteredTimerId' \in TimerIds
        BY <1>1 DEF RegisterTimer
    <2>3. n + 1 <= ALLOWED_MAX_TIMER_CNT
        BY <1>0, <1>4, ConstantsAssumption
    <2>4. QED
        BY <2>1, <2>2, <2>3, <1>5 DEF TimerTypeOK
<1> HIDE DEF n, at
<1>9. TimerIdsDistinct'
    <2>1. \A i \in 1 .. n + 1 : i # k => m_lstTimerSet'[i].id # timer.id
        BY <1>0, <1>5, <1>6, <1>7 DEF Ids
    <2>2. QED
        BY <2>1, <1>0, <1>5, <1>6 DEF TimerIdsDistinct
<1>10. InOrder => InOrder'
    <2> SUFFICES ASSUME InOrder PROVE InOrder'
        OBVIOUS
    <2>1. \A i \in 1 .. n + 1 : m_lstTimerSet'[i].age >= 0
        BY <1>0, <1>5, <1>6, <1>7 DEF InOrder
    <2>2. LeftTime(timer) = newTimeout /\ newTimeout \in Nat
        BY <1>7, ConstantsAssumption DEF LeftTime
    <2>3. ASSUME NEW i \in 1 .. n, i < k PROVE LeftTime(m_lstTimerSet[i]) <= newTimeout
        BY <2>3, <1>0, <1>3, <2>2, LeftTimeType DEF n
    <2>4. ASSUME NEW i \in 1 .. n, k <= i PROVE newTimeout <= LeftTime(m_lstTimerSet[i])
        <3>1. k \in 1 .. n /\ LeftTime(m_lstTimerSet[k]) > newTimeout
            BY <2>4, <1>0, <1>3
        <3>2. CASE k < i
            <4>1. LeftTime(m_lstTimerSet[k]) <= LeftTime(m_lstTimerSet[i])
                BY <3>1, <3>2, <1>0 DEF InOrder
            <4>2. QED
                BY <3>1, <4>1, <2>2, LeftTimeType DEF n
        <3>3. CASE k = i
            BY <3>1, <3>3, <2>2, LeftTimeType DEF n
        <3>4. QED
            BY <3>1, <3>2, <3>3, <2>4
    <2>5. ASSUME NEW i \in 1 .. n + 1, NEW j \in 1 .. n + 1, i < j
          PROVE  LeftTime(m_lstTimerSet'[i]) <= LeftTime(m_lstTimerSet'[j])
        <3>1. CASE i # k /\ j # k
            BY <3>1, <2>5, <1>0, <1>5, <1>6 DEF InOrder
        <3>2. CASE i = k
            <4>1. j # k /\ at(j) \in 1 .. n /\ k <= at(j)
                BY <3>2, <2>5, <1>0, <1>3, <1>6 DEF at
            <4>2. QED
                BY <4>1, <3>2, <2>2, <2>4, <1>5
        <3>3. CASE j = k
            <4>1. i # k /\ at(i) \in 1 .. n /\ at(i) < k
                BY <3>3, <2>5, <1>0, <1>3, <1>6 DEF at
            <4>2. QED
                BY <4>1, <3>3, <2>2, <2>3, <1>5
        <3>4. QED
            BY <3>1, <3>2, <3>3
    <2>6. QED
        BY <2>1, <2>5, <1>5 DEF InOrder, LeftTime
<1>11. QED
    BY <1>8, <1>9, <1>10

\* Time and settings of the clock change the ages only; time passes for all alike.
LEMMA AgingKeeps ==
    ASSUME TimerTypeOK, TimerIdsDistinct, NEW by \in Int,
           m_lstTimerSet' = Aged(by), UNCHANGED m_uiLastRegisteredTimerId
    PROVE  /\ TimerTypeOK' /\ TimerIdsDistinct'
           /\ InOrder /\ by = 1 =>
                /\ InOrder'
                /\ GetMinTimerWaitTimeMS(m_lstTimerSet)' =
                     IF GetMinTimerWaitTimeMS(m_lstTimerSet) > 0
                         THEN GetMinTimerWaitTimeMS(m_lstTimerSet) - 1
                         ELSE GetMinTimerWaitTimeMS(m_lstTimerSet)
<1> DEFINE n == Len(m_lstTimerSet)
           older(i) == IF m_lstTimerSet[i].age + by > m_lstTimerSet[i].timeout
                           THEN m_lstTimerSet[i].timeout ELSE m_lstTimerSet[i].age + by
<1>1. /\ n \in Nat /\ DOMAIN m_lstTimerSet = 1 .. n /\ n <= ALLOWED_MAX_TIMER_CNT
      /\ DOMAIN m_lstTimerSet' = 1 .. n
      /\ m_uiLastRegisteredTimerId \in TimerIds
    BY DEF TimerTypeOK, Aged
<1>2. ASSUME NEW i \in 1 .. n
      PROVE  /\ m_lstTimerSet[i].id \in TimerIds
             /\ m_lstTimerSet[i].timeout \in Nat /\ m_lstTimerSet[i].timeout \in Timeouts
             /\ m_lstTimerSet[i].age \in Int
             /\ m_lstTimerSet[i].age <= m_lstTimerSet[i].timeout
    BY LeftTimeType, ConstantsAssumption, <1>1 DEF Timer, TimerTypeOK
<1>3. ASSUME NEW i \in 1 .. n
      PROVE  older(i) \in Int /\ older(i) <= m_lstTimerSet[i].timeout
    BY <1>2
<1>4. ASSUME NEW i \in 1 .. n
      PROVE  /\ m_lstTimerSet'[i] \in Timer
             /\ m_lstTimerSet'[i].id = m_lstTimerSet[i].id
             /\ m_lstTimerSet'[i].timeout = m_lstTimerSet[i].timeout
             /\ m_lstTimerSet'[i].age = older(i)
    <2>1. m_lstTimerSet'[i] = [m_lstTimerSet[i] EXCEPT !.age = older(i)]
        BY <1>1 DEF Aged
    <2>2. m_lstTimerSet[i] \in Timer /\ older(i) \in Int
        BY LeftTimeType, <1>3
    <2> HIDE DEF older
    <2>3. QED
        BY <2>1, <2>2 DEF Timer
<1>5. m_lstTimerSet' \in Seq(Timer) /\ Len(m_lstTimerSet') = n
    <2>1. m_lstTimerSet' = [i \in 1 .. n |-> m_lstTimerSet'[i]]
        BY <1>1 DEF Aged
    <2>2. QED
        BY <2>1, <1>1, <1>4
<1> HIDE DEF older
<1>6. TimerTypeOK'
    BY <1>1, <1>3, <1>4, <1>5 DEF TimerTypeOK
<1>7. TimerIdsDistinct'
    BY <1>1, <1>4 DEF TimerIdsDistinct
<1>8. ASSUME InOrder, by = 1
      PROVE  /\ InOrder'
             /\ GetMinTimerWaitTimeMS(m_lstTimerSet)' =
                     IF GetMinTimerWaitTimeMS(m_lstTimerSet) > 0
                         THEN GetMinTimerWaitTimeMS(m_lstTimerSet) - 1
                         ELSE GetMinTimerWaitTimeMS(m_lstTimerSet)
    <2>1. ASSUME NEW i \in 1 .. n
          PROVE  /\ m_lstTimerSet'[i].age >= 0
                 /\ LeftTime(m_lstTimerSet[i]) \in Nat
                 /\ LeftTime(m_lstTimerSet'[i]) =
                      IF LeftTime(m_lstTimerSet[i]) > 0 THEN LeftTime(m_lstTimerSet[i]) - 1 ELSE 0
        <3>1. m_lstTimerSet[i].age >= 0
            BY <1>1, <1>8 DEF InOrder
        <3>2. m_lstTimerSet'[i].age = older(i) /\ m_lstTimerSet'[i].timeout = m_lstTimerSet[i].timeout
            BY <1>4
        <3>3. QED
            BY <3>1, <3>2, <1>2, <1>8 DEF LeftTime, older
    <2>2. InOrder'
        <3>1. ASSUME NEW i \in 1 .. n, NEW j \in 1 .. n, i < j
              PROVE  LeftTime(m_lstTimerSet'[i]) <= LeftTime(m_lstTimerSet'[j])
            <4>1. LeftTime(m_lstTimerSet[i]) <= LeftTime(m_lstTimerSet[j])
                BY <3>1, <1>1, <1>8 DEF InOrder
            <4>2. QED
                BY <4>1, <2>1
        <3>2. QED
            BY <3>1, <2>1, <1>1 DEF InOrder, LeftTime
    <2>3. CASE n = 0
        <3>1. m_lstTimerSet = <<>> /\ m_lstTimerSet' = <<>>
            BY <2>3, <1>5 DEF TimerTypeOK
        <3>2. QED
            BY <3>1, <2>2 DEF GetMinTimerWaitTimeMS, Forever
    <2>4. CASE n # 0
        <3>1. m_lstTimerSet # <<>> /\ m_lstTimerSet' # <<>> /\ 1 \in 1 .. n
            BY <2>4, <1>1, <1>5
        <3>2. /\ GetMinTimerWaitTimeMS(m_lstTimerSet) = LeftTime(m_lstTimerSet[1])
              /\ GetMinTimerWaitTimeMS(m_lstTimerSet)' = LeftTime(m_lstTimerSet'[1])
            BY <3>1 DEF GetMinTimerWaitTimeMS, LeftTime
        <3>3. QED
            BY <3>1, <3>2, <2>1, <2>2
    <2>5. QED
        BY <2>3, <2>4
<1>9. QED
    BY <1>6, <1>7, <1>8


\* A timer that starts in the future starts now; while the clock was not set there is none.
LEMMA StartingByNowKeeps ==
    ASSUME TimerTypeOK, TimerIdsDistinct,
           m_lstTimerSet' = StartedByNow(m_lstTimerSet), UNCHANGED m_uiLastRegisteredTimerId
    PROVE  /\ TimerTypeOK' /\ TimerIdsDistinct'
           /\ GetMinTimerWaitTimeMS(m_lstTimerSet)' \in {Forever} \union Nat
           /\ InOrder => InOrder'
<1> DEFINE n == Len(m_lstTimerSet)
<1>1. /\ n \in Nat /\ DOMAIN m_lstTimerSet = 1 .. n /\ n <= ALLOWED_MAX_TIMER_CNT
      /\ DOMAIN m_lstTimerSet' = 1 .. n
      /\ m_uiLastRegisteredTimerId \in TimerIds
    BY DEF TimerTypeOK, StartedByNow
<1>2. ASSUME NEW i \in 1 .. n
      PROVE  /\ m_lstTimerSet'[i] \in Timer
             /\ m_lstTimerSet'[i].id = m_lstTimerSet[i].id
             /\ m_lstTimerSet'[i].age <= m_lstTimerSet'[i].timeout
             /\ m_lstTimerSet[i].age >= 0 => m_lstTimerSet'[i] = m_lstTimerSet[i]
    <2>1. /\ m_lstTimerSet[i] \in Timer /\ m_lstTimerSet[i].age <= m_lstTimerSet[i].timeout
          /\ m_lstTimerSet[i].age \in Int
        BY <1>1, LeftTimeType DEF TimerTypeOK, Timer
    <2>2. CASE m_lstTimerSet[i].age < 0
        <3>1. m_lstTimerSet'[i] = [m_lstTimerSet[i] EXCEPT !.age = 0]
            BY <1>1, <2>2 DEF StartedByNow
        <3>2. m_lstTimerSet[i].timeout \in Nat
            BY <2>1, ConstantsAssumption DEF Timer
        <3>3. QED
            BY <3>1, <3>2, <2>1, <2>2 DEF Timer
    <2>3. CASE m_lstTimerSet[i].age >= 0
        <3>1. m_lstTimerSet'[i] = m_lstTimerSet[i]
            BY <1>1, <2>1, <2>3 DEF StartedByNow
        <3>2. QED
            BY <3>1, <2>1
    <2>4. QED
        BY <2>1, <2>2, <2>3
<1>3. m_lstTimerSet' \in Seq(Timer) /\ Len(m_lstTimerSet') = n
    <2>1. m_lstTimerSet' = [i \in 1 .. n |-> m_lstTimerSet'[i]]
        BY <1>1 DEF StartedByNow
    <2>2. QED
        BY <2>1, <1>1, <1>2
<1>4. TimerTypeOK'
    BY <1>1, <1>2, <1>3 DEF TimerTypeOK
<1>5. TimerIdsDistinct'
    BY <1>1, <1>2 DEF TimerIdsDistinct
<1>6. GetMinTimerWaitTimeMS(m_lstTimerSet)' \in {Forever} \union Nat
    <2>1. CASE m_lstTimerSet' = <<>>
        BY <2>1 DEF GetMinTimerWaitTimeMS
    <2>2. CASE m_lstTimerSet' # <<>>
        <3>1. 1 \in 1 .. n
            BY <2>2, <1>1, <1>3
        <3>2. /\ m_lstTimerSet'[1].timeout \in Nat /\ m_lstTimerSet'[1].age \in Int
              /\ m_lstTimerSet'[1].age <= m_lstTimerSet'[1].timeout
            BY <3>1, <1>2, ConstantsAssumption DEF Timer
        <3>3. QED
            BY <2>2, <3>2 DEF GetMinTimerWaitTimeMS, LeftTime
    <2>3. QED
        BY <2>1, <2>2
<1>7. InOrder => InOrder'
    <2> SUFFICES ASSUME InOrder PROVE InOrder'
        OBVIOUS
    <2>1. \A i \in 1 .. n : m_lstTimerSet'[i] = m_lstTimerSet[i]
        BY <1>1, <1>2 DEF InOrder
    <2>2. QED
        BY <2>1, <1>1 DEF InOrder, LeftTime
<1>8. QED
    BY <1>4, <1>5, <1>6, <1>7

\* Steps that leave timers and clock alone, and do not put the loop to sleep.
LEMMA OthersKeepTimers ==
    ASSUME TimerInv, UNCHANGED <<timerVars, clockWasSet>>, LoopTypeOK', WorldTypeOK',
           loop' = "select" => loop = "select" /\ timeout' = timeout
    PROVE  TimerInv'
BY DEF TimerInv, timerVars, TimerTypeOK, TimerIdsDistinct, InOrder, SleepsForTheFirst,
       GetMinTimerWaitTimeMS, LeftTime

\* The steps of the loop.
LEMMA LoopKeepsTimers ==
    ASSUME TimerInv, MessageTypeOK, DoEvtLoop
    PROVE  TimerInv'
<1> USE DEF messageVars, timerVars, worldVars
<1>a. TimerTypeOK /\ LoopTypeOK /\ WorldTypeOK /\ TimerIdsDistinct
    BY DEF TimerInv
<1>1. CASE GetMessage
    <2>1. Head(m_lstMsgQueue) \in Messages
        BY <1>1 DEF GetMessage, MessageTypeOK
    <2>2. LoopTypeOK' /\ WorldTypeOK'
        BY <1>1, <1>a, <2>1 DEF GetMessage, LoopTypeOK, WorldTypeOK
    <2>3. QED
        BY <1>1, <2>2, OthersKeepTimers DEF GetMessage
<1>2. CASE BeginSelect
    <2>1. /\ m_lstTimerSet' = StartedByNow(m_lstTimerSet)
          /\ timeout' = GetMinTimerWaitTimeMS(m_lstTimerSet)'
          /\ loop' = "select"
          /\ UNCHANGED <<m_uiLastRegisteredTimerId, item, worldVars>>
        BY <1>2 DEF BeginSelect, GetMinTimerWaitTimeMS, LeftTime
    <2>2. /\ TimerTypeOK' /\ TimerIdsDistinct' /\ (InOrder => InOrder')
          /\ timeout' \in {Forever} \union Nat
        BY <2>1, <1>a, StartingByNowKeeps
    <2>3. LoopTypeOK' /\ WorldTypeOK'
        BY <2>1, <2>2, <1>a DEF LoopTypeOK, WorldTypeOK
    <2>4. SleepsForTheFirst'
        BY <2>1 DEF SleepsForTheFirst
    <2>5. QED
        BY <2>1, <2>2, <2>3, <2>4 DEF TimerInv
<1>3. CASE SelectFd
    <2>1. /\ UNCHANGED <<timerVars, worldVars, timeout>> /\ loop' = "dispatch"
          /\ item' \in [kind : {"fd"}, of : Fds] \/ item' = [kind |-> "wakeup", of |-> 0]
        BY <1>3, <1>a DEF SelectFd, SelectReturns, WorldTypeOK
    <2>2. LoopTypeOK' /\ WorldTypeOK'
        BY <2>1, <1>a DEF LoopTypeOK, WorldTypeOK
    <2>3. QED
        BY <2>1, <2>2, OthersKeepTimers
<1>4. CASE GetTimerMessage
    <2> DEFINE Expired == {i \in 1 .. Len(m_lstTimerSet) : HasExpired(m_lstTimerSet[i])}
               k == SelectInSeq(m_lstTimerSet, HasExpired)
    <2>1. /\ k # 0 /\ m_lstTimerSet' = RemoveAt(m_lstTimerSet, k)
          /\ item' = [kind |-> "timer", of |-> m_lstTimerSet[k].id]
          /\ loop' = "dispatch"
          /\ UNCHANGED <<m_uiLastRegisteredTimerId, timeout, worldVars>>
        BY <1>4 DEF GetTimerMessage, SelectReturns
    <2>2. Expired # {} /\ k = Min(Expired)
        BY <2>1 DEF SelectInSeq
    <2>3. k \in 1 .. Len(m_lstTimerSet)
        <3>1. Expired \subseteq Nat /\ Expired \subseteq 1 .. Len(m_lstTimerSet)
            OBVIOUS
        <3> HIDE DEF Expired, k
        <3>2. QED
            BY <3>1, <2>2, MinIsLeast
    <2> HIDE DEF k
    <2>4. TimerTypeOK' /\ TimerIdsDistinct' /\ (InOrder => InOrder')
        BY <2>1, <2>3, <1>a, RemoveKeeps
    <2>5. m_lstTimerSet[k].id \in TimerIds
        BY <2>3, <1>a, LeftTimeType DEF Timer
    <2>6. LoopTypeOK' /\ WorldTypeOK'
        BY <2>1, <2>5, <1>a DEF LoopTypeOK, WorldTypeOK
    <2>7. QED
        BY <2>1, <2>4, <2>6 DEF TimerInv, SleepsForTheFirst
<1>5. CASE NoTimerMessage
    <2>1. LoopTypeOK' /\ WorldTypeOK'
        BY <1>5, <1>a DEF NoTimerMessage, LoopTypeOK, WorldTypeOK
    <2>2. QED
        BY <1>5, <2>1, OthersKeepTimers DEF NoTimerMessage
<1>6. CASE DispatchWakeup
    <2>1. LoopTypeOK' /\ WorldTypeOK'
        BY <1>6, <1>a DEF DispatchWakeup, LoopTypeOK, WorldTypeOK
    <2>2. QED
        BY <1>6, <2>1, OthersKeepTimers DEF DispatchWakeup
<1>7. CASE DispatchQuit
    <2>1. LoopTypeOK' /\ WorldTypeOK'
        BY <1>7, <1>a DEF DispatchQuit, LoopTypeOK, WorldTypeOK
    <2>2. QED
        BY <1>7, <2>1, OthersKeepTimers DEF DispatchQuit
<1>8. CASE DispatchMessage
    <2>1. LoopTypeOK' /\ WorldTypeOK'
        BY <1>8, <1>a DEF DispatchMessage, LoopTypeOK, WorldTypeOK
    <2>2. QED
        BY <1>8, <2>1, OthersKeepTimers DEF DispatchMessage
<1>9. CASE EventProcReturns
    <2>1. LoopTypeOK' /\ WorldTypeOK'
        BY <1>9, <1>a DEF EventProcReturns, LoopTypeOK, WorldTypeOK
    <2>2. QED
        BY <1>9, <2>1, OthersKeepTimers DEF EventProcReturns
<1>10. QED
    BY <1>1, <1>2, <1>3, <1>4, <1>5, <1>6, <1>7, <1>8, <1>9 DEF DoEvtLoop

\* A handler registers and unregisters timers.
LEMMA HandlersKeepTimers ==
    ASSUME TimerInv,
           \/ \E newTimeout \in Timeouts : RegisterTimer(newTimeout)
           \/ \E id \in TimerIds : UnregisterTimer(id)
    PROVE  TimerInv'
<1> USE DEF loopVars, worldVars
<1>a. TimerTypeOK /\ LoopTypeOK /\ WorldTypeOK /\ TimerIdsDistinct
    BY DEF TimerInv
<1>1. ASSUME NEW newTimeout \in Timeouts, RegisterTimer(newTimeout) PROVE TimerInv'
    <2>1. TimerTypeOK' /\ TimerIdsDistinct' /\ (InOrder => InOrder')
        BY <1>1, <1>a, RegisterKeeps
    <2>2. UNCHANGED <<loopVars, worldVars>> /\ loop = "handling"
        BY <1>1 DEF RegisterTimer
    <2>3. QED
        BY <2>1, <2>2, <1>a
           DEF TimerInv, LoopTypeOK, WorldTypeOK, SleepsForTheFirst
<1>2. ASSUME NEW id \in TimerIds, UnregisterTimer(id) PROVE TimerInv'
    <2> DEFINE Places == {i \in 1 .. Len(m_lstTimerSet) : m_lstTimerSet[i].id = id}
               k == SelectInSeq(m_lstTimerSet, LAMBDA timer : timer.id = id)
    <2>1. /\ id \in Ids /\ m_lstTimerSet' = RemoveAt(m_lstTimerSet, k)
          /\ loop = "handling"
          /\ UNCHANGED <<m_uiLastRegisteredTimerId, loopVars, worldVars>>
        BY <1>2 DEF UnregisterTimer
    <2>2. Places # {}
        BY <2>1, <1>a DEF Ids, TimerTypeOK
    <2>3. k = Min(Places)
        BY <2>2 DEF SelectInSeq
    <2>4. k \in 1 .. Len(m_lstTimerSet)
        <3>1. Places \subseteq Nat /\ Places \subseteq 1 .. Len(m_lstTimerSet)
            OBVIOUS
        <3> HIDE DEF Places, k
        <3>2. QED
            BY <3>1, <2>2, <2>3, MinIsLeast
    <2> HIDE DEF k
    <2>5. TimerTypeOK' /\ TimerIdsDistinct' /\ (InOrder => InOrder')
        BY <2>1, <2>4, <1>a, RemoveKeeps
    <2>6. QED
        BY <2>1, <2>5, <1>a
           DEF TimerInv, LoopTypeOK, WorldTypeOK, SleepsForTheFirst
<1>3. QED
    BY <1>1, <1>2

\* Time passes for the timers and for select alike; after a setting of the clock nothing is
\* claimed of the order.
LEMMA ClockKeepsTimers ==
    ASSUME TimerInv, Tick \/ \E by \in ClockSteps : SetClock(by)
    PROVE  TimerInv'
<1> USE DEF loopVars, worldVars
<1>a. TimerTypeOK /\ LoopTypeOK /\ WorldTypeOK /\ TimerIdsDistinct
    BY DEF TimerInv
<1>1. CASE Tick
    <2>1. /\ m_lstTimerSet' = Aged(1)
          /\ timeout' = IF timeout > 0 THEN timeout - 1 ELSE timeout
          /\ UNCHANGED <<m_uiLastRegisteredTimerId, loop, item, worldVars>>
        BY <1>1 DEF Tick
    <2>2. TimerTypeOK' /\ TimerIdsDistinct'
        BY <2>1, <1>a, AgingKeeps
    <2>3. LoopTypeOK' /\ WorldTypeOK'
        <3>1. timeout' \in {Forever} \union Nat
            BY <2>1, <1>a DEF LoopTypeOK, Forever
        <3>2. QED
            BY <3>1, <2>1, <1>a DEF LoopTypeOK, WorldTypeOK
    <2>4. ASSUME ~clockWasSet PROVE InOrder' /\ SleepsForTheFirst'
        <3>1. InOrder /\ SleepsForTheFirst
            BY <2>4 DEF TimerInv
        <3>2. /\ InOrder'
              /\ GetMinTimerWaitTimeMS(m_lstTimerSet)' =
                     IF GetMinTimerWaitTimeMS(m_lstTimerSet) > 0
                         THEN GetMinTimerWaitTimeMS(m_lstTimerSet) - 1
                         ELSE GetMinTimerWaitTimeMS(m_lstTimerSet)
            BY <2>1, <3>1, <1>a, AgingKeeps
        <3>3. QED
            BY <2>1, <3>1, <3>2 DEF SleepsForTheFirst
    <2>5. QED
        BY <2>1, <2>2, <2>3, <2>4 DEF TimerInv
<1>2. ASSUME NEW by \in ClockSteps, SetClock(by) PROVE TimerInv'
    <2>1. by \in Int
        BY ConstantsAssumption
    <2>2. /\ m_lstTimerSet' = Aged(by) /\ clockWasSet' = TRUE
          /\ UNCHANGED <<m_uiLastRegisteredTimerId, loopVars, readable, signalled, calm>>
        BY <1>2 DEF SetClock
    <2>3. TimerTypeOK' /\ TimerIdsDistinct'
        BY <2>1, <2>2, <1>a, AgingKeeps
    <2>4. QED
        BY <2>2, <2>3, <1>a DEF TimerInv, LoopTypeOK, WorldTypeOK
<1>3. QED
    BY <1>1, <1>2

\* The loop begins without timers.
LEMMA InitTimerInv == Init => TimerInv
<1> SUFFICES ASSUME Init PROVE TimerInv
    OBVIOUS
<1>1. m_lstTimerSet = <<>> /\ Len(m_lstTimerSet) = 0 /\ DOMAIN m_lstTimerSet = {}
    BY DEF Init
<1>2. TimerTypeOK
    BY <1>1, ConstantsAssumption DEF Init, TimerTypeOK, TimerIds
<1>3. LoopTypeOK /\ WorldTypeOK
    BY DEF Init, LoopTypeOK, WorldTypeOK, Forever
<1>4. TimerIdsDistinct /\ InOrder /\ SleepsForTheFirst
    BY <1>1 DEF Init, TimerIdsDistinct, InOrder, SleepsForTheFirst
<1>5. QED
    BY <1>2, <1>3, <1>4 DEF TimerInv

\* Every step of the loop and around it preserves the invariant.
LEMMA NextTimerInv == TimerInv /\ MessageTypeOK /\ [Next]_vars => TimerInv'
<1> SUFFICES ASSUME TimerInv, MessageTypeOK, [Next]_vars PROVE TimerInv'
    OBVIOUS
<1>a. LoopTypeOK /\ WorldTypeOK
    BY DEF TimerInv
<1>1. CASE DoEvtLoop
    BY <1>1, LoopKeepsTimers
<1>2. CASE \/ \E newTimeout \in Timeouts : RegisterTimer(newTimeout)
           \/ \E id \in TimerIds : UnregisterTimer(id)
    BY <1>2, HandlersKeepTimers
<1>3. CASE Tick \/ \E by \in ClockSteps : SetClock(by)
    BY <1>3, ClockKeepsTimers
<1>4. ASSUME NEW t \in Threads, PostMessage(t) PROVE TimerInv'
    BY <1>4, <1>a, OthersKeepTimers
       DEF PostMessage, LoopTypeOK, WorldTypeOK, loopVars, worldVars
<1>5. ASSUME NEW p \in Posters, SendTo(p) PROVE TimerInv'
    BY <1>5, <1>a, OthersKeepTimers
       DEF SendTo, LoopTypeOK, WorldTypeOK, loopVars, worldVars
<1>6. ASSUME NEW fd \in Fds, Input(fd) PROVE TimerInv'
    BY <1>6, <1>a, OthersKeepTimers DEF Input, LoopTypeOK, WorldTypeOK, loopVars
<1>7. CASE SigHandler
    BY <1>7, <1>a, OthersKeepTimers DEF SigHandler, LoopTypeOK, WorldTypeOK
<1>8. CASE BecomesCalm
    BY <1>8, <1>a, OthersKeepTimers DEF BecomesCalm, LoopTypeOK, WorldTypeOK, loopVars
<1>9. CASE UNCHANGED vars
    BY <1>9, <1>a, OthersKeepTimers
       DEF vars, LoopTypeOK, WorldTypeOK, loopVars, worldVars, timerVars
<1>10. QED
    BY <1>1, <1>2, <1>3, <1>4, <1>5, <1>6, <1>7, <1>8, <1>9 DEF Next

\* The first timer of the list is the one with the least time left.
LEMMA FirstIsLeast == TimerInv => SleepsUntilTheFirstTimer
<1> SUFFICES ASSUME TimerInv, loop = "select", ~clockWasSet,
                    NEW i \in DOMAIN m_lstTimerSet
             PROVE  timeout \in 0 .. LeftTime(m_lstTimerSet[i])
    BY DEF SleepsUntilTheFirstTimer
<1>1. TimerTypeOK /\ InOrder /\ SleepsForTheFirst
    BY DEF TimerInv
<1>2. i \in 1 .. Len(m_lstTimerSet) /\ 1 \in 1 .. Len(m_lstTimerSet) /\ m_lstTimerSet # <<>>
    BY <1>1 DEF TimerTypeOK
<1>3. timeout = LeftTime(m_lstTimerSet[1])
    BY <1>1, <1>2 DEF SleepsForTheFirst, GetMinTimerWaitTimeMS
<1>4. LeftTime(m_lstTimerSet[1]) \in Nat /\ LeftTime(m_lstTimerSet[i]) \in Nat
    BY <1>1, <1>2, LeftTimeType
<1>5. i = 1 \/ LeftTime(m_lstTimerSet[1]) <= LeftTime(m_lstTimerSet[i])
    BY <1>1, <1>2 DEF InOrder, TimerTypeOK
<1>6. QED
    BY <1>3, <1>4, <1>5

-----------------------------------------------------------------------------
(* The theorems.                                                           *)

\* The list has no limit of its own; the wakeup socket bounds it: there are never more
\* messages than bytes, threads about to send one, and the one message whose byte was just
\* read (EventCenter.cpp:447-476).
THEOREM MessagesAreBounded == Spec => []EveryMessageHasItsByte
<1>1. IInv => EveryMessageHasItsByte
    BY DEF IInv
<1>2. QED
    BY InitIInv, NextIInv, <1>1, PTL DEF Spec

\* The loop never waits in select on a message that nothing will wake it for: a byte is in
\* the socket, or its poster, which is not the sleeping loop, is about to send it.
THEOREM NoMessageIsLeftAsleep == Spec => []NoMessageIsSleptOn
<1>1. IInv => NoMessageIsSleptOn
    <2> SUFFICES ASSUME IInv, loop = "select", m_lstMsgQueue # <<>>, m_sckMsgQueueMonitor <= 0
                 PROVE  posting # {}
        BY ConstantsAssumption DEF NoMessageIsSleptOn, IInv, MessageTypeOK
    <2>1. Len(m_lstMsgQueue) > 0
        BY DEF IInv, MessageTypeOK
    <2>2. Cardinality(posting) > 0
        BY <2>1, PostingCounts, ConstantsAssumption
           DEF IInv, MessageTypeOK, EveryMessageHasItsByte
    <2>3. QED
        BY <2>2, PostingCounts DEF IInv
<1>2. QED
    BY InitIInv, NextIInv, <1>1, PTL DEF Spec

\* The loop's data keep their types, and the timers their number, whatever happens.
THEOREM TypeCorrect == Spec => []TypeOK
<1>1. IInv /\ TimerInv => TypeOK
    BY DEF IInv, TimerInv, TypeOK
<1>2. IInv => MessageTypeOK
    BY DEF IInv
<1>3. QED
    BY InitIInv, NextIInv, InitTimerInv, NextTimerInv, <1>1, <1>2, PTL DEF Spec

\* No two registered timers have the same identifier, also after the identifiers wrapped
\* (EventCenter.cpp:290-316).
THEOREM TimerIdsStayDistinct == Spec => []TimerIdsDistinct
<1>1. TimerInv => TimerIdsDistinct
    BY DEF TimerInv
<1>2. IInv => MessageTypeOK
    BY DEF IInv
<1>3. QED
    BY InitIInv, NextIInv, InitTimerInv, NextTimerInv, <1>1, <1>2, PTL DEF Spec

\* As long as the clock was not set select waits no longer than any timer has left, though only
\* the first of the list is looked at (EventCenter.cpp:351, 694).
THEOREM NoTimerIsSleptOn == Spec => []SleepsUntilTheFirstTimer
<1>1. IInv => MessageTypeOK
    BY DEF IInv
<1>2. QED
    BY InitIInv, NextIInv, InitTimerInv, NextTimerInv, FirstIsLeast, <1>1, PTL DEF Spec

=============================================================================
