------------------------ MODULE SysPropOpsClientProofs ------------------------
(***************************************************************************)
(* SysPropOpsClient for any threads, any number of calls and any faults.   *)
(***************************************************************************)
EXTENDS SysPropOpsClient, SequenceTheorems, TLAPS

-----------------------------------------------------------------------------
(* Types.                                                                  *)

\* What a return changes.
LEMMA ReturnForm ==
    ASSUME CallTypeOK, NEW t \in Threads, NEW ok \in BOOLEAN, NEW late \in BOOLEAN, Return(t, ok, late)
    PROVE  /\ call' \in [Threads -> [pc : {"idle", "packaged", "send", "recv"}, serial : Serials,
                                     moved : BOOLEAN, late : BOOLEAN]]
           /\ call'[t] = NoCall
           /\ \A u \in Threads \ {t} :
                 /\ call'[u].pc = call[u].pc /\ call'[u].serial = call[u].serial
                 /\ call'[u].moved = call[u].moved
                 /\ call[u].late => call'[u].late
                 /\ call'[u].late => call[u].late \/ late
                 /\ call'[u] = call[u] \/ call[u].pc = "packaged"
<1>1. call' = [u \in Threads |-> IF u = t THEN NoCall
                       ELSE [call[u] EXCEPT !.late = @ \/ (late /\ call[u].pc = "packaged")]]
    BY DEF Return, After
<1>2. NoCall \in [pc : {"idle", "packaged", "send", "recv"}, serial : Serials,
                  moved : BOOLEAN, late : BOOLEAN]
    BY ConstantsAssumption DEF NoCall, Serials
<1>3. ASSUME NEW u \in Threads \ {t}
      PROVE  /\ call'[u] \in [pc : {"idle", "packaged", "send", "recv"}, serial : Serials,
                              moved : BOOLEAN, late : BOOLEAN]
             /\ call'[u].pc = call[u].pc /\ call'[u].serial = call[u].serial
             /\ call'[u].moved = call[u].moved
             /\ call'[u].late = (call[u].late \/ (late /\ call[u].pc = "packaged"))
    <2>1. call[u] \in [pc : {"idle", "packaged", "send", "recv"}, serial : Serials,
                       moved : BOOLEAN, late : BOOLEAN]
        BY DEF CallTypeOK
    <2>2. call'[u] = [call[u] EXCEPT !.late = call[u].late \/ (late /\ call[u].pc = "packaged")]
        BY <1>1
    <2>3. QED
        BY <2>1, <2>2
<1>4. \A u \in Threads \ {t} : call'[u] = call[u] \/ call[u].pc = "packaged"
    <2> SUFFICES ASSUME NEW u \in Threads \ {t}, call[u].pc # "packaged" PROVE call'[u] = call[u]
        OBVIOUS
    <2>1. call'[u] = [call[u] EXCEPT !.late = call[u].late \/ FALSE] /\ call[u].late \in BOOLEAN
        BY <1>1 DEF CallTypeOK
    <2>2. QED
        BY <2>1 DEF CallTypeOK
<1>5. QED
    BY <1>1, <1>2, <1>3, <1>4

\* It keeps the types.
LEMMA ReturnType ==
    ASSUME TypeOK, NEW t \in Threads, NEW ok \in BOOLEAN, NEW late \in BOOLEAN, Return(t, ok, late),
           commSck' = commSck \/ (commSck # <<>> /\ commSck' = Tail(commSck))
    PROVE  TypeOK'
<1>a. CallTypeOK /\ SocketTypeOK /\ HistoryTypeOK
    BY DEF TypeOK
<1>1. CallTypeOK'
    BY <1>a, ReturnForm DEF CallTypeOK, Return
<1>2. SocketTypeOK'
    <2>1. commSck' \in Seq(Serials)
        BY <1>a, HeadTailProperties DEF SocketTypeOK
    <2>2. QED
        BY <1>a, <2>1 DEF SocketTypeOK, Return, serverVars
<1>3. HistoryTypeOK'
    <2>1. call[t].serial \in Serials /\ m_SendSerialNo \in Serials
        BY <1>a DEF CallTypeOK
    <2>2. answered' \subseteq Serials
        BY <1>a, <2>1 DEF Return, HistoryTypeOK
    <2>3. 1 .. m_SendSerialNo \subseteq Serials
        BY <2>1, ConstantsAssumption DEF Serials
    <2>4. settled' \subseteq Serials
        BY <1>a, <2>3 DEF Return, HistoryTypeOK
    <2>5. failures' \in Nat
        BY <1>a DEF Return, HistoryTypeOK
    <2>6. QED
        BY <1>a, <2>2, <2>4, <2>5 DEF HistoryTypeOK, Return, serverVars
<1>4. QED
    BY <1>1, <1>2, <1>3 DEF TypeOK

\* The steps of a transaction that end it.
Ends(t) == SendFails(t) \/ RecvReply(t) \/ RecvOtherLate(t) \/ RecvTimesOut(t) \/ RecvInterrupted(t)

\* They are returns, with an answer only when it is the first datagram.
LEMMA EndForm ==
    ASSUME NEW t \in Threads, Ends(t)
    PROVE  /\ call[t].pc \in {"send", "recv"}
           /\ \E ok, late \in BOOLEAN :
                 /\ Return(t, ok, late)
                 /\ ok => call[t].pc = "recv" /\ commSck # <<>> /\ Head(commSck) = m_SendSerialNo
           /\ commSck' = commSck \/ (commSck # <<>> /\ commSck' = Tail(commSck))
BY DEF Ends, SendFails, RecvReply, RecvOtherLate, RecvTimesOut, RecvInterrupted, IsReply

\* The steps of a call but its end.
LEMMA CallForm ==
    ASSUME TypeOK, NEW t \in Threads,
           PackageSendHeader(t) \/ DoMethodCallTransaction(t) \/ SendTo(t) \/ RecvOther(t)
    PROVE  /\ call' \in [Threads -> [pc : {"idle", "packaged", "send", "recv"}, serial : Serials,
                                     moved : BOOLEAN, late : BOOLEAN]]
           /\ \A u \in Threads \ {t} : call'[u] = call[u]
           /\ \/ /\ PackageSendHeader(t) /\ call[t].pc = "idle" /\ m_SendSerialNo' = m_SendSerialNo + 1
                 /\ call'[t] = [pc |-> "packaged", serial |-> m_SendSerialNo + 1, moved |-> FALSE,
                                late |-> FALSE]
              \/ /\ DoMethodCallTransaction(t) /\ m_SendSerialNo' = m_SendSerialNo
                 /\ call'[t].pc = "send" /\ call'[t].serial = call[t].serial
                 /\ call'[t].moved = call[t].moved /\ call'[t].late = call[t].late
              \/ /\ SendTo(t) /\ m_SendSerialNo' = m_SendSerialNo
                 /\ call'[t].pc = "recv" /\ call'[t].serial = call[t].serial
                 /\ call'[t].moved = call[t].moved /\ call'[t].late = call[t].late
              \/ /\ RecvOther(t) /\ m_SendSerialNo' = m_SendSerialNo
                 /\ call'[t].pc = "recv" /\ call'[t].serial = call[t].serial
                 /\ call'[t].moved /\ call'[t].late = call[t].late
<1>1. /\ call \in [Threads -> [pc : {"idle", "packaged", "send", "recv"}, serial : Serials,
                               moved : BOOLEAN, late : BOOLEAN]]
      /\ m_SendSerialNo \in Serials
    BY DEF TypeOK, CallTypeOK
<1>2. CASE PackageSendHeader(t)
    <2>1. call' = [call EXCEPT ![t] = [pc |-> "packaged", serial |-> m_SendSerialNo + 1,
                                       moved |-> FALSE, late |-> FALSE]]
        BY <1>2 DEF PackageSendHeader
    <2>2. m_SendSerialNo + 1 \in Serials
        BY <1>1, <1>2, ConstantsAssumption DEF PackageSendHeader, Serials
    <2>3. QED
        <3>1. [pc |-> "packaged", serial |-> m_SendSerialNo + 1, moved |-> FALSE, late |-> FALSE]
                  \in [pc : {"idle", "packaged", "send", "recv"}, serial : Serials,
                       moved : BOOLEAN, late : BOOLEAN]
            BY <2>2
        <3>2. call[t].pc = "idle" /\ m_SendSerialNo' = m_SendSerialNo + 1
            BY <1>2 DEF PackageSendHeader
        <3>3. QED
            BY <1>1, <1>2, <2>1, <3>1, <3>2
<1>3. CASE DoMethodCallTransaction(t)
    <2>1. call' = [call EXCEPT ![t].pc = "send"] /\ m_SendSerialNo' = m_SendSerialNo
        BY <1>3 DEF DoMethodCallTransaction
    <2>2. call'[t] = [call[t] EXCEPT !.pc = "send"]
        BY <1>1, <2>1
    <2>3. QED
        BY <1>1, <1>3, <2>1, <2>2
<1>4. CASE SendTo(t)
    <2>1. call' = [call EXCEPT ![t].pc = "recv"] /\ m_SendSerialNo' = m_SendSerialNo
        BY <1>4 DEF SendTo
    <2>2. call'[t] = [call[t] EXCEPT !.pc = "recv"]
        BY <1>1, <2>1
    <2>3. QED
        BY <1>1, <1>4, <2>1, <2>2
<1>5. CASE RecvOther(t)
    <2>1. call' = [call EXCEPT ![t].moved = TRUE] /\ m_SendSerialNo' = m_SendSerialNo /\ call[t].pc = "recv"
        BY <1>5 DEF RecvOther
    <2>2. call'[t] = [call[t] EXCEPT !.moved = TRUE]
        BY <1>1, <2>1
    <2>3. QED
        BY <1>1, <1>5, <2>1, <2>2
<1>6. QED
    BY <1>2, <1>3, <1>4, <1>5

\* Every step keeps the types.
LEMMA TypeStep ==
    ASSUME TypeOK, [Next]_vars
    PROVE  TypeOK'
<1>a. CallTypeOK /\ SocketTypeOK /\ HistoryTypeOK
    BY DEF TypeOK
<1> USE DEF clientVars, serverVars, historyVars
<1>1. ASSUME NEW t \in Threads, Ends(t) PROVE TypeOK'
    BY <1>1, EndForm, ReturnType
<1>2. ASSUME NEW t \in Threads,
             PackageSendHeader(t) \/ DoMethodCallTransaction(t) \/ SendTo(t) \/ RecvOther(t)
      PROVE  TypeOK'
    <2>1. CallTypeOK'
        <3>1. m_SendSerialNo' \in Serials
            BY <1>a, <1>2, ConstantsAssumption
               DEF PackageSendHeader, DoMethodCallTransaction, SendTo, RecvOther, CallTypeOK, Serials
        <3>2. m_SharedDataMutex' \in Threads \cup {Nobody}
            BY <1>a, <1>2 DEF PackageSendHeader, DoMethodCallTransaction, SendTo, RecvOther, CallTypeOK
        <3>3. QED
            BY <1>2, <3>1, <3>2, CallForm DEF CallTypeOK
    <2>2. SocketTypeOK'
        <3>1. srvSck' \in Seq(Serials)
            <4>1. call[t].serial \in Serials /\ srvSck \in Seq(Serials)
                BY <1>a DEF CallTypeOK, SocketTypeOK
            <4>2. Append(srvSck, call[t].serial) \in Seq(Serials)
                BY <4>1, AppendProperties
            <4>3. srvSck' = srvSck \/ srvSck' = Append(srvSck, call[t].serial)
                BY <1>2 DEF PackageSendHeader, DoMethodCallTransaction, SendTo, RecvOther
            <4>4. QED
                BY <4>1, <4>2, <4>3
        <3>2. commSck' \in Seq(Serials)
            <4>1. commSck' = commSck \/ (commSck # <<>> /\ commSck' = Tail(commSck))
                BY <1>2 DEF PackageSendHeader, DoMethodCallTransaction, SendTo, RecvOther
            <4>2. QED
                BY <1>a, <4>1, HeadTailProperties DEF SocketTypeOK
        <3>3. QED
            BY <1>a, <1>2, <3>1, <3>2 DEF PackageSendHeader, DoMethodCallTransaction, SendTo, RecvOther,
               SocketTypeOK
    <2>3. HistoryTypeOK'
        <3>1. UNCHANGED <<served, historyVars>>
            BY <1>2 DEF PackageSendHeader, DoMethodCallTransaction, SendTo, RecvOther
        <3>2. QED
            BY <1>a, <3>1 DEF HistoryTypeOK
    <2>4. QED
        BY <2>1, <2>2, <2>3 DEF TypeOK
<1>3. CASE OnSrvSckRead \/ OnMethodCall \/ SendReply \/ SrvDies \/ SrvStarts
    <2>1. srvSck' \in Seq(Serials) /\ serving' \in Serials
        <3>1. <<>> \in Seq(Serials) /\ 0 \in Serials
            BY EmptySeq, ConstantsAssumption DEF Serials
        <3>2. CASE OnSrvSckRead
            BY <1>a, <3>2, HeadTailProperties DEF OnSrvSckRead, SocketTypeOK
        <3>3. CASE OnMethodCall \/ SendReply \/ SrvDies \/ SrvStarts
            BY <1>a, <3>1, <3>3 DEF OnMethodCall, SendReply, SrvDies, SrvStarts, SocketTypeOK
        <3>4. QED
            BY <1>3, <3>2, <3>3
    <2>2. commSck' \in Seq(Serials)
        BY <1>a, <1>3, AppendProperties DEF OnSrvSckRead, OnMethodCall, SendReply, SrvDies, SrvStarts,
           SocketTypeOK
    <2>3. SocketTypeOK'
        BY <1>a, <1>3, <2>1, <2>2 DEF OnSrvSckRead, OnMethodCall, SendReply, SrvDies, SrvStarts,
           SocketTypeOK
    <2>4. CallTypeOK' /\ HistoryTypeOK'
        BY <1>a, <1>3 DEF OnSrvSckRead, OnMethodCall, SendReply, SrvDies, SrvStarts, CallTypeOK,
           HistoryTypeOK, SocketTypeOK
    <2>5. QED
        BY <2>3, <2>4 DEF TypeOK
<1>4. CASE Calms \/ UNCHANGED vars
    BY <1>a, <1>4 DEF Calms, vars, TypeOK, CallTypeOK, SocketTypeOK, HistoryTypeOK
<1>5. QED
    BY <1>1, <1>2, <1>3, <1>4 DEF Next, Transaction, Service, Ends

\* The client and the service begin with empty sockets.
LEMMA InitType == Init => TypeOK
<1> SUFFICES ASSUME Init PROVE TypeOK
    OBVIOUS
<1>1. 0 \in Serials
    BY ConstantsAssumption DEF Serials
<1>2. NoCall \in [pc : {"idle", "packaged", "send", "recv"}, serial : Serials,
                  moved : BOOLEAN, late : BOOLEAN]
    BY <1>1 DEF NoCall
<1>3. CallTypeOK
    BY <1>1, <1>2 DEF Init, CallTypeOK
<1>4. SocketTypeOK /\ HistoryTypeOK
    BY <1>1, EmptySeq DEF Init, SocketTypeOK, HistoryTypeOK
<1>5. QED
    BY <1>3, <1>4 DEF TypeOK

\* The sockets hold serial numbers of calls, and a call is in one of its places.
THEOREM TypeCorrect == Spec => []TypeOK
BY InitType, TypeStep, PTL DEF Spec

-----------------------------------------------------------------------------
(* One transaction at a time, and serial numbers that are used once.       *)

Items(s) == {s[i] : i \in DOMAIN s}

InTransaction(t) == call[t].pc \in {"send", "recv"}
NotSent(t) == call[t].pc \in {"packaged", "send"}

\* Whoever is in a transaction has the mutex.
OneTransaction == \A t \in Threads : InTransaction(t) => m_SharedDataMutex = t

\* Serial numbers that were given out; 0 is none.
Given == 1 .. m_SendSerialNo

\* The calls have serial numbers of their own.
OwnSerials ==
    /\ \A t \in Threads : call[t].pc # "idle" => call[t].serial \in Given
    /\ \A t, u \in Threads :
          t # u /\ call[t].pc # "idle" /\ call[u].pc # "idle" => call[t].serial # call[u].serial
    /\ \A t \in Threads : call[t].pc = "idle" => call[t] = NoCall

\* What is in the sockets was given out and sent.
OnTheWay == Items(srvSck) \cup Items(commSck) \cup ({serving} \ {0})
SentWasGiven ==
    /\ OnTheWay \subseteq Given /\ served \subseteq Given /\ settled \subseteq Given
    /\ 0 \notin Items(srvSck) /\ 0 \notin Items(commSck)
    /\ \A t \in Threads : NotSent(t) => call[t].serial \notin OnTheWay

\* A reply is the reply to what was carried out.
RepliesAreServed == Items(commSck) \subseteq served

CallInv == OneTransaction /\ OwnSerials /\ SentWasGiven /\ RepliesAreServed

\* What comes last in a queue, and what was first.
LEMMA QueueItems ==
    ASSUME NEW S, NEW s \in Seq(S)
    PROVE  /\ \A x \in S : Items(Append(s, x)) = Items(s) \cup {x}
           /\ s # <<>> => Items(s) = {Head(s)} \cup Items(Tail(s)) /\ Head(s) \in S
           /\ Items(<<>>) = {}
<1>1. Len(s) \in Nat /\ DOMAIN s = 1 .. Len(s)
    BY LenProperties
<1>2. ASSUME NEW x \in S PROVE Items(Append(s, x)) = Items(s) \cup {x}
    <2>1. /\ DOMAIN Append(s, x) = 1 .. Len(s) + 1
          /\ \A i \in 1 .. Len(s) : Append(s, x)[i] = s[i]
          /\ Append(s, x)[Len(s) + 1] = x
        BY <1>1, AppendProperties, LenProperties
    <2>2. /\ \A i \in 1 .. Len(s) + 1 : i \in 1 .. Len(s) \/ i = Len(s) + 1
          /\ 1 .. Len(s) \subseteq 1 .. Len(s) + 1 /\ Len(s) + 1 \in 1 .. Len(s) + 1
        BY <1>1
    <2>3. Items(Append(s, x)) \subseteq Items(s) \cup {x}
        BY <1>1, <2>1, <2>2 DEF Items
    <2>4. ASSUME NEW y \in Items(s) PROVE y \in Items(Append(s, x))
        <3>1. PICK i \in 1 .. Len(s) : y = s[i]
            BY <1>1 DEF Items
        <3>2. i \in DOMAIN Append(s, x) /\ Append(s, x)[i] = y
            BY <2>1, <2>2, <3>1
        <3>3. QED
            BY <3>2 DEF Items
    <2>5. x \in Items(Append(s, x))
        BY <2>1, <2>2 DEF Items
    <2>6. QED
        BY <2>3, <2>4, <2>5
<1>3. ASSUME s # <<>> PROVE Items(s) = {Head(s)} \cup Items(Tail(s)) /\ Head(s) \in S
    <2>1. /\ Len(s) # 0 /\ Head(s) \in S /\ Head(s) = s[1] /\ DOMAIN Tail(s) = 1 .. Len(s) - 1
          /\ \A i \in 1 .. Len(s) - 1 : Tail(s)[i] = s[i + 1]
        BY <1>1, <1>3, HeadTailProperties, LenProperties, EmptySeq
    <2>2. /\ \A i \in 1 .. Len(s) - 1 : i + 1 \in 1 .. Len(s)
          /\ \A i \in 1 .. Len(s) : i = 1 \/ (i - 1 \in 1 .. Len(s) - 1 /\ (i - 1) + 1 = i)
          /\ 1 \in 1 .. Len(s)
        BY <1>1, <2>1
    <2>3. ASSUME NEW y \in Items(s) PROVE y \in {Head(s)} \cup Items(Tail(s))
        <3>1. PICK i \in 1 .. Len(s) : y = s[i]
            BY <1>1 DEF Items
        <3>2. i = 1 \/ (i - 1 \in DOMAIN Tail(s) /\ Tail(s)[i - 1] = y)
            BY <2>1, <2>2, <3>1
        <3>3. QED
            BY <2>1, <3>1, <3>2 DEF Items
    <2>4. ASSUME NEW y \in Items(Tail(s)) PROVE y \in Items(s)
        <3>1. PICK i \in 1 .. Len(s) - 1 : y = Tail(s)[i]
            BY <2>1 DEF Items
        <3>2. i + 1 \in DOMAIN s /\ s[i + 1] = y
            BY <1>1, <2>1, <2>2, <3>1
        <3>3. QED
            BY <3>2 DEF Items
    <2>5. Head(s) \in Items(s)
        BY <1>1, <2>1, <2>2 DEF Items
    <2>6. QED
        BY <2>1, <2>3, <2>4, <2>5
<1>4. Items(<<>>) = {}
    BY DEF Items
<1>5. QED
    BY <1>2, <1>3, <1>4

\* Taking a datagram leaves the others.
LEMMA TakenItems ==
    ASSUME SocketTypeOK, commSck' = commSck \/ (commSck # <<>> /\ commSck' = Tail(commSck))
    PROVE  Items(commSck') \subseteq Items(commSck)
BY QueueItems DEF SocketTypeOK

\* A return takes nothing from the other calls.
LEMMA ReturnCall ==
    ASSUME TypeOK, CallInv, NEW t \in Threads, Ends(t)
    PROVE  CallInv'
<1>a. CallTypeOK /\ SocketTypeOK /\ HistoryTypeOK
    BY DEF TypeOK
<1>1. PICK ok \in BOOLEAN, late \in BOOLEAN : Return(t, ok, late)
    BY EndForm
<1>2. /\ UNCHANGED <<m_SendSerialNo, srvSck, serving, served>> /\ m_SharedDataMutex' = Nobody
      /\ settled' \subseteq settled \cup Given
    BY <1>1 DEF Return, serverVars, Given
<1>3. /\ call'[t] = NoCall
      /\ \A u \in Threads \ {t} :
            /\ call'[u].pc = call[u].pc /\ call'[u].serial = call[u].serial
            /\ call'[u] = call[u] \/ call[u].pc = "packaged"
    BY <1>a, <1>1, ReturnForm
<1>4. call'[t].pc = "idle"
    BY <1>3 DEF NoCall
<1>5. Items(commSck') \subseteq Items(commSck)
    BY <1>a, EndForm, TakenItems
<1>6. OneTransaction'
    <2>1. InTransaction(t)
        BY EndForm DEF InTransaction
    <2>2. \A u \in Threads \ {t} : ~InTransaction(u)
        BY <2>1 DEF CallInv, OneTransaction
    <2>3. QED
        BY <1>3, <1>4, <2>2 DEF OneTransaction, InTransaction
<1>7. OwnSerials'
    BY <1>2, <1>3, <1>4 DEF CallInv, OwnSerials, Given
<1>8. OnTheWay' \subseteq OnTheWay
    BY <1>2, <1>5 DEF OnTheWay, Items
<1>9. SentWasGiven'
    BY <1>2, <1>3, <1>4, <1>5, <1>8 DEF CallInv, SentWasGiven, NotSent, Given, Items
<1>10. RepliesAreServed'
    BY <1>2, <1>5 DEF CallInv, RepliesAreServed, Items
<1>11. QED
    BY <1>6, <1>7, <1>9, <1>10 DEF CallInv

\* The service moves what it was sent from one place to the next.
ServiceSteps == OnSrvSckRead \/ OnMethodCall \/ SendReply \/ SrvDies \/ SrvStarts

LEMMA ServiceForm ==
    ASSUME TypeOK, CallInv, ServiceSteps
    PROVE  /\ OnTheWay' \subseteq OnTheWay /\ served \subseteq served' /\ served' \subseteq Given
           /\ 0 \notin Items(srvSck') /\ 0 \notin Items(commSck') /\ Items(commSck') \subseteq served'
           /\ UNCHANGED <<clientVars, historyVars>>
<1>a. CallTypeOK /\ SocketTypeOK /\ HistoryTypeOK
    BY DEF TypeOK
<1>b. 0 \notin Items(srvSck) /\ 0 \notin Items(commSck) /\ Items(commSck) \subseteq served
    BY DEF CallInv, SentWasGiven, RepliesAreServed
<1> USE DEF clientVars, historyVars
<1>c. served' \subseteq Given
    BY DEF ServiceSteps, OnSrvSckRead, OnMethodCall, SendReply, SrvDies, SrvStarts, CallInv,
       SentWasGiven, OnTheWay
<1>1. CASE OnSrvSckRead
    <2>1. Items(srvSck) = {Head(srvSck)} \cup Items(srvSck')
        BY <1>a, <1>1, QueueItems DEF OnSrvSckRead, SocketTypeOK
    <2>2. QED
        BY <1>b, <1>c, <1>1, <2>1 DEF OnSrvSckRead, OnTheWay, Items
<1>2. CASE OnMethodCall \/ SrvStarts
    BY <1>b, <1>c, <1>2 DEF OnMethodCall, SrvStarts, OnTheWay, Items
<1>3. CASE SendReply
    <2>1. Items(commSck') = Items(commSck) \cup {serving}
        BY <1>a, <1>3, QueueItems DEF SendReply, SocketTypeOK
    <2>2. serving # 0
        BY <1>3 DEF SendReply, CallInv, SentWasGiven, Given
    <2>3. QED
        BY <1>b, <1>c, <1>3, <2>1, <2>2 DEF SendReply, OnTheWay, Items
<1>4. CASE SrvDies
    <2>1. Items(srvSck') = {}
        BY <1>4 DEF SrvDies, Items
    <2>2. QED
        BY <1>b, <1>c, <1>4, <2>1 DEF SrvDies, OnTheWay, Items
<1>5. QED
    BY <1>c, <1>1, <1>2, <1>3, <1>4 DEF ServiceSteps

\* The service keeps the invariant: it gives no serial number out.
LEMMA ServiceCall ==
    ASSUME TypeOK, CallInv, ServiceSteps
    PROVE  CallInv'
<1>1. UNCHANGED <<m_SendSerialNo, m_SharedDataMutex, call, settled>>
    BY ServiceForm DEF clientVars, historyVars
<1>2. OneTransaction' /\ OwnSerials'
    BY <1>1 DEF CallInv, OneTransaction, OwnSerials, InTransaction, Given
<1>3. SentWasGiven'
    BY <1>1, ServiceForm DEF CallInv, SentWasGiven, Given, NotSent, Items
<1>4. RepliesAreServed'
    BY ServiceForm DEF RepliesAreServed, Items
<1>5. QED
    BY <1>2, <1>3, <1>4 DEF CallInv

\* A call gets a serial number that no other has, and sends it once.
LEMMA CallerCall ==
    ASSUME TypeOK, CallInv, NEW t \in Threads,
           PackageSendHeader(t) \/ DoMethodCallTransaction(t) \/ SendTo(t) \/ RecvOther(t)
    PROVE  CallInv'
<1>a. CallTypeOK /\ SocketTypeOK /\ HistoryTypeOK
    BY DEF TypeOK
<1>b. OneTransaction /\ OwnSerials /\ SentWasGiven /\ RepliesAreServed
    BY DEF CallInv
<1>c. m_SendSerialNo \in Nat
    BY <1>a, ConstantsAssumption DEF CallTypeOK, Serials
<1>d. \A u \in Threads \ {t} : call'[u] = call[u]
    BY CallForm
<1>e. UNCHANGED <<served, settled, serving>>
    BY DEF PackageSendHeader, DoMethodCallTransaction, SendTo, RecvOther, serverVars, historyVars
<1>1. CASE PackageSendHeader(t)
    <2>1. /\ m_SendSerialNo' = m_SendSerialNo + 1 /\ call[t].pc = "idle"
          /\ call'[t].pc = "packaged" /\ call'[t].serial = m_SendSerialNo + 1
        BY <1>a, <1>1 DEF PackageSendHeader, CallTypeOK
    <2>2. UNCHANGED <<m_SharedDataMutex, srvSck, commSck>>
        BY <1>1 DEF PackageSendHeader, serverVars
    <2>3. Given \subseteq Given' /\ m_SendSerialNo + 1 \in Given' /\ m_SendSerialNo + 1 \notin Given
        BY <1>c, <2>1 DEF Given
    <2>4. OneTransaction'
        BY <1>b, <1>d, <2>1, <2>2 DEF OneTransaction, InTransaction
    <2>5. OwnSerials'
        BY <1>b, <1>d, <2>1, <2>3 DEF OwnSerials
    <2>6. OnTheWay' = OnTheWay /\ Items(srvSck)' = Items(srvSck) /\ Items(commSck)' = Items(commSck)
        BY <1>e, <2>2 DEF OnTheWay, Items
    <2>7. SentWasGiven'
        BY <1>b, <1>d, <1>e, <2>1, <2>3, <2>6 DEF SentWasGiven, NotSent
    <2>8. RepliesAreServed'
        BY <1>b, <1>e, <2>6 DEF RepliesAreServed
    <2>9. QED
        BY <2>4, <2>5, <2>7, <2>8 DEF CallInv
<1>2. CASE DoMethodCallTransaction(t)
    <2>1. /\ UNCHANGED <<m_SendSerialNo, srvSck, commSck>> /\ call[t].pc = "packaged"
          /\ m_SharedDataMutex = Nobody /\ m_SharedDataMutex' = t
        BY <1>2 DEF DoMethodCallTransaction, serverVars
    <2>2. call'[t].pc = "send" /\ call'[t].serial = call[t].serial
        BY <1>a, <1>2 DEF DoMethodCallTransaction, CallTypeOK
    <2>3. OneTransaction'
        BY <1>b, <1>d, <2>1, ConstantsAssumption DEF OneTransaction, InTransaction
    <2>4. OwnSerials'
        BY <1>b, <1>d, <2>1, <2>2 DEF OwnSerials, Given
    <2>5. OnTheWay' = OnTheWay /\ Items(srvSck)' = Items(srvSck) /\ Items(commSck)' = Items(commSck)
        BY <1>e, <2>1 DEF OnTheWay, Items
    <2>6. SentWasGiven'
        BY <1>b, <1>d, <1>e, <2>1, <2>2, <2>5 DEF SentWasGiven, NotSent, Given
    <2>7. RepliesAreServed'
        BY <1>b, <1>e, <2>5 DEF RepliesAreServed
    <2>8. QED
        BY <2>3, <2>4, <2>6, <2>7 DEF CallInv
<1>3. CASE SendTo(t)
    <2>1. /\ UNCHANGED <<m_SendSerialNo, commSck, m_SharedDataMutex>> /\ call[t].pc = "send"
          /\ srvSck' = Append(srvSck, call[t].serial)
        BY <1>3 DEF SendTo
    <2>2. call'[t].pc = "recv" /\ call'[t].serial = call[t].serial
        BY <1>a, <1>3 DEF SendTo, CallTypeOK
    <2>3. OneTransaction'
        BY <1>b, <1>d, <2>1, <2>2 DEF OneTransaction, InTransaction
    <2>4. OwnSerials'
        BY <1>b, <1>d, <2>1, <2>2 DEF OwnSerials, Given
    <2>5. Items(srvSck)' = Items(srvSck) \cup {call[t].serial}
        <3>1. call[t].serial \in Serials /\ srvSck \in Seq(Serials)
            BY <1>a DEF CallTypeOK, SocketTypeOK
        <3>2. Items(srvSck') = Items(srvSck) \cup {call[t].serial}
            BY <2>1, <3>1, QueueItems
        <3>3. QED
            BY <3>2 DEF Items
    <2>6. Items(commSck)' = Items(commSck) /\ OnTheWay' = OnTheWay \cup {call[t].serial}
        BY <1>e, <2>1, <2>5 DEF OnTheWay, Items
    <2>7. call[t].serial \in Given /\ call[t].serial # 0
        BY <1>b, <2>1 DEF OwnSerials, Given
    <2>8. SentWasGiven'
        BY <1>b, <1>d, <1>e, <2>1, <2>2, <2>5, <2>6, <2>7 DEF SentWasGiven, NotSent, Given, OwnSerials
    <2>9. RepliesAreServed'
        BY <1>b, <1>e, <2>6 DEF RepliesAreServed
    <2>10. QED
        BY <2>3, <2>4, <2>8, <2>9 DEF CallInv
<1>4. CASE RecvOther(t)
    <2>1. /\ UNCHANGED <<m_SendSerialNo, srvSck, m_SharedDataMutex>> /\ call[t].pc = "recv"
          /\ commSck # <<>> /\ commSck' = Tail(commSck)
        BY <1>4 DEF RecvOther, serverVars
    <2>2. call'[t].pc = "recv" /\ call'[t].serial = call[t].serial
        BY <1>a, <1>4 DEF RecvOther, CallTypeOK
    <2>3. OneTransaction'
        BY <1>b, <1>d, <2>1, <2>2 DEF OneTransaction, InTransaction
    <2>4. OwnSerials'
        BY <1>b, <1>d, <2>1, <2>2 DEF OwnSerials, Given
    <2>5. Items(commSck') \subseteq Items(commSck) /\ Items(srvSck)' = Items(srvSck)
        BY <1>a, <2>1, TakenItems DEF Items
    <2>6. OnTheWay' \subseteq OnTheWay
        BY <1>e, <2>5 DEF OnTheWay, Items
    <2>7. SentWasGiven'
        BY <1>b, <1>d, <1>e, <2>1, <2>2, <2>5, <2>6 DEF SentWasGiven, NotSent, Given, Items
    <2>8. RepliesAreServed'
        BY <1>b, <1>e, <2>5 DEF RepliesAreServed, Items
    <2>9. QED
        BY <2>3, <2>4, <2>7, <2>8 DEF CallInv
<1>5. QED
    BY <1>1, <1>2, <1>3, <1>4

\* Every step keeps the transactions apart.
LEMMA CallStep ==
    ASSUME TypeOK, CallInv, [Next]_vars
    PROVE  CallInv'
<1>1. CASE Calms \/ UNCHANGED vars
    <2>1. UNCHANGED <<clientVars, serverVars, commSck, settled>>
        BY <1>1 DEF Calms, vars, historyVars
    <2>2. OneTransaction' /\ OwnSerials'
        BY <2>1 DEF clientVars, serverVars, CallInv, OneTransaction, OwnSerials, InTransaction, NotSent,
                    Given
    <2>3. SentWasGiven' /\ RepliesAreServed'
        BY <2>1 DEF clientVars, serverVars, CallInv, SentWasGiven, RepliesAreServed, NotSent, Given,
                    OnTheWay, Items
    <2>4. QED
        BY <2>2, <2>3 DEF CallInv
<1>2. QED
    BY <1>1, ReturnCall, CallerCall, ServiceCall DEF Next, Transaction, Service, Ends, ServiceSteps

\* So they are apart in every state.
LEMMA CallsInv == Spec => [](TypeOK /\ CallInv)
<1>1. Init => CallInv
    <2> SUFFICES ASSUME Init PROVE CallInv
        OBVIOUS
    <2>1. Items(srvSck) = {} /\ Items(commSck) = {} /\ serving = 0 /\ settled = {} /\ served = {}
        BY DEF Init, Items
    <2>2. OnTheWay = {}
        BY <2>1 DEF OnTheWay
    <2>3. \A t \in Threads : call[t] = NoCall /\ call[t].pc = "idle"
        BY DEF Init, NoCall
    <2>4. QED
        BY <2>1, <2>2, <2>3 DEF CallInv, OneTransaction, OwnSerials, SentWasGiven, RepliesAreServed,
           InTransaction, NotSent
<1>2. QED
    BY <1>1, CallStep, InitType, TypeStep, PTL DEF Spec

-----------------------------------------------------------------------------
(* Whose answer a call returns with.                                       *)

\* The serial number packaged last is the call's own when no other thread packaged one since.
THEOREM AnswersAreServed == Spec => []AnswerWasServed
<1>1. Init => AnswerWasServed
    BY DEF Init, AnswerWasServed
<1>2. ASSUME TypeOK, CallInv, AnswerWasServed, [Next]_vars
      PROVE  AnswerWasServed'
    <2> USE DEF AnswerWasServed
    <2>1. ASSUME NEW t \in Threads, Ends(t)
          PROVE  AnswerWasServed'
        <3>1. PICK ok \in BOOLEAN, late \in BOOLEAN :
                  /\ Return(t, ok, late)
                  /\ ok => call[t].pc = "recv" /\ commSck # <<>> /\ Head(commSck) = m_SendSerialNo
            BY <2>1, EndForm
        <3>2. served' = served
            BY <3>1 DEF Return, serverVars
        <3>3. CASE ok /\ ~Disturbed(t)
            <4>1. call[t].serial \in Given /\ ~(call[t].serial < m_SendSerialNo)
                BY <1>2, <3>1, <3>3 DEF CallInv, OwnSerials, Disturbed
            <4>2. m_SendSerialNo \in Nat
                BY <1>2, ConstantsAssumption DEF TypeOK, CallTypeOK, Serials
            <4>3. call[t].serial = m_SendSerialNo
                BY <4>1, <4>2 DEF Given
            <4>4. m_SendSerialNo \in Items(commSck)
                BY <1>2, <3>1, <3>3, QueueItems DEF TypeOK, SocketTypeOK
            <4>5. QED
                BY <1>2, <3>1, <3>2, <3>3, <4>3, <4>4 DEF Return, CallInv, RepliesAreServed
        <3>4. CASE ~(ok /\ ~Disturbed(t))
            BY <1>2, <3>1, <3>2, <3>4 DEF Return
        <3>5. QED
            BY <3>3, <3>4
    <2>2. CASE ServiceSteps
        BY <1>2, <2>2, ServiceForm DEF historyVars
    <2>3. CASE Calms \/ UNCHANGED vars
        BY <1>2, <2>3 DEF Calms, vars, serverVars, historyVars
    <2>4. ASSUME NEW t \in Threads,
                 PackageSendHeader(t) \/ DoMethodCallTransaction(t) \/ SendTo(t) \/ RecvOther(t)
          PROVE  AnswerWasServed'
        BY <1>2, <2>4 DEF PackageSendHeader, DoMethodCallTransaction, SendTo, RecvOther, serverVars,
                          historyVars
    <2>5. QED
        BY <1>2, <2>1, <2>2, <2>3, <2>4 DEF Next, Transaction, Service, Ends, ServiceSteps
<1>3. QED
    BY <1>1, <1>2, CallsInv, PTL DEF Spec

-----------------------------------------------------------------------------
(* What was settled is not served any more.                                *)

\* The request of the call in a transaction was sent last: what comes after it in the sockets
\* is nothing.
Last(s, x) == \A i \in DOMAIN s : s[i] = x => i = Len(s)
SentLast ==
    \A t \in Threads : call[t].pc = "recv" =>
        /\ Last(srvSck, call[t].serial)
        /\ serving = call[t].serial => srvSck = <<>>
        /\ call[t].serial \in Items(commSck) => srvSck = <<>> /\ serving = 0

\* Requests that the service may still carry out, now or after they are sent.
Unserved ==
    Items(srvSck) \cup ({serving} \ served) \cup {call[t].serial : t \in {u \in Threads : NotSent(u)}}

\* Nothing that waits to be carried out was settled.
NothingSettledWaits == settled \cap Unserved = {}

\* A queue after its last item came.
LEMMA LastOfQueue ==
    ASSUME NEW S, NEW s \in Seq(S), NEW x \in S
    PROVE  /\ x \notin Items(s) => Last(Append(s, x), x)
           /\ s # <<>> /\ Last(s, x) => Last(Tail(s), x) /\ (Head(s) = x => Tail(s) = <<>>)
<1>1. Len(s) \in Nat /\ DOMAIN s = 1 .. Len(s)
    BY LenProperties
<1>2. ASSUME x \notin Items(s) PROVE Last(Append(s, x), x)
    <2>1. /\ DOMAIN Append(s, x) = 1 .. Len(s) + 1 /\ Len(Append(s, x)) = Len(s) + 1
          /\ \A i \in 1 .. Len(s) : Append(s, x)[i] = s[i]
        BY <1>1, AppendProperties, LenProperties
    <2>2. \A i \in 1 .. Len(s) : s[i] # x
        BY <1>1, <1>2 DEF Items
    <2>3. \A i \in 1 .. Len(s) + 1 : i \in 1 .. Len(s) \/ i = Len(s) + 1
        BY <1>1
    <2>4. QED
        BY <2>1, <2>2, <2>3 DEF Last
<1>3. ASSUME s # <<>>, Last(s, x)
      PROVE  Last(Tail(s), x) /\ (Head(s) = x => Tail(s) = <<>>)
    <2>1. /\ Len(s) # 0 /\ Head(s) = s[1] /\ DOMAIN Tail(s) = 1 .. Len(s) - 1
          /\ Len(Tail(s)) = Len(s) - 1 /\ Tail(s) \in Seq(S)
          /\ \A i \in 1 .. Len(s) - 1 : Tail(s)[i] = s[i + 1]
        BY <1>1, <1>3, HeadTailProperties, LenProperties, EmptySeq
    <2>2. ASSUME NEW i \in 1 .. Len(s) - 1, Tail(s)[i] = x PROVE i = Len(s) - 1
        <3>1. i + 1 \in DOMAIN s /\ s[i + 1] = x
            BY <1>1, <2>1, <2>2
        <3>2. i + 1 = Len(s)
            BY <1>3, <3>1 DEF Last
        <3>3. i \in Int /\ Len(s) \in Int
            BY <1>1, <2>2
        <3>4. QED
            BY <3>2, <3>3
    <2>3. ASSUME Head(s) = x PROVE Tail(s) = <<>>
        <3>1. 1 \in DOMAIN s /\ s[1] = x
            BY <1>1, <2>1, <2>3
        <3>2. Len(s) = 1
            BY <1>3, <3>1 DEF Last
        <3>3. QED
            BY <2>1, <3>2, EmptySeq
    <2>4. QED
        BY <2>1, <2>2, <2>3 DEF Last
<1>4. QED
    BY <1>2, <1>3

\* Only the call in the transaction sends, and it sends once.
LEMMA LastStep ==
    ASSUME TypeOK, CallInv, SentLast, [Next]_vars
    PROVE  SentLast'
<1>a. CallTypeOK /\ SocketTypeOK /\ HistoryTypeOK
    BY DEF TypeOK
<1>b. OneTransaction /\ OwnSerials /\ SentWasGiven
    BY DEF CallInv
<1>c. /\ srvSck \in Seq(Serials) /\ commSck \in Seq(Serials) /\ serving \in Serials
      /\ \A t \in Threads : call[t].serial \in Serials
    BY <1>a DEF CallTypeOK, SocketTypeOK
<1> USE DEF SentLast
<1>1. ASSUME NEW t \in Threads, Ends(t) PROVE SentLast'
    <2>1. UNCHANGED <<srvSck, serving>> /\ Items(commSck') \subseteq Items(commSck)
        BY <1>a, <1>1, EndForm, TakenItems DEF Return, serverVars
    <2>2. \A u \in Threads : call'[u].pc = "recv" => call[u].pc = "recv" /\ call'[u].serial = call[u].serial
        BY <1>a, <1>1, EndForm, ReturnForm DEF NoCall
    <2>3. QED
        BY <2>1, <2>2 DEF Items, Last
<1>2. ASSUME NEW t \in Threads, PackageSendHeader(t) \/ DoMethodCallTransaction(t) PROVE SentLast'
    <2>1. UNCHANGED <<srvSck, serving, commSck>>
        BY <1>2 DEF PackageSendHeader, DoMethodCallTransaction, serverVars
    <2>2. \A u \in Threads : call'[u].pc = "recv" => call[u].pc = "recv" /\ call'[u].serial = call[u].serial
        BY <1>2, CallForm DEF SendTo, RecvOther, PackageSendHeader, DoMethodCallTransaction
    <2>3. QED
        BY <2>1, <2>2 DEF Items, Last
<1>3. ASSUME NEW t \in Threads, SendTo(t) PROVE SentLast'
    <2>1. /\ UNCHANGED <<serving, commSck>> /\ call[t].pc = "send"
          /\ srvSck' = Append(srvSck, call[t].serial)
        BY <1>3 DEF SendTo
    <2>2. \A u \in Threads \ {t} : call'[u] = call[u] /\ call[u].pc # "recv"
        BY <1>3, <1>b, <2>1, CallForm DEF OneTransaction, InTransaction
    <2>3. call'[t].serial = call[t].serial
        BY <1>a, <1>3 DEF SendTo, CallTypeOK
    <2>4. call[t].serial \notin OnTheWay /\ call[t].serial # 0
        BY <1>b, <2>1 DEF SentWasGiven, NotSent, OwnSerials, Given
    <2>5. Last(srvSck', call[t].serial)
        BY <1>c, <2>1, <2>4, LastOfQueue DEF OnTheWay
    <2>6. serving # call[t].serial /\ call[t].serial \notin Items(commSck)
        BY <2>4 DEF OnTheWay
    <2>7. QED
        BY <2>1, <2>2, <2>3, <2>5, <2>6 DEF Items, Last
<1>4. ASSUME NEW t \in Threads, RecvOther(t) PROVE SentLast'
    <2>1. UNCHANGED <<srvSck, serving>> /\ Items(commSck') \subseteq Items(commSck)
        BY <1>a, <1>4, TakenItems DEF RecvOther, serverVars
    <2>2. \A u \in Threads : call'[u].pc = "recv" => call[u].pc = "recv" /\ call'[u].serial = call[u].serial
        BY <1>a, <1>4 DEF RecvOther, CallTypeOK
    <2>3. QED
        BY <2>1, <2>2 DEF Items, Last
<1>5. CASE OnSrvSckRead
    <2>1. /\ srvSck # <<>> /\ serving' = Head(srvSck) /\ srvSck' = Tail(srvSck) /\ serving = 0
          /\ UNCHANGED <<call, commSck>>
        BY <1>5 DEF OnSrvSckRead, clientVars
    <2>2. ASSUME NEW t \in Threads, call[t].pc = "recv"
          PROVE  /\ Last(Tail(srvSck), call[t].serial)
                 /\ Head(srvSck) = call[t].serial => Tail(srvSck) = <<>>
                 /\ call[t].serial \notin Items(commSck)
        BY <1>c, <2>1, <2>2, LastOfQueue
    <2>3. QED
        BY <2>1, <2>2 DEF Items, Last
<1>6. CASE SendReply
    <2>1. UNCHANGED <<srvSck, call>> /\ serving' = 0 /\ commSck' = Append(commSck, serving)
        BY <1>6 DEF SendReply, clientVars
    <2>2. Items(commSck') = Items(commSck) \cup {serving}
        BY <1>c, <2>1, QueueItems
    <2>3. \A t \in Threads : call[t].pc = "recv" => call[t].serial # 0
        BY <1>b DEF OwnSerials, Given
    <2>4. QED
        BY <2>1, <2>2, <2>3 DEF Items, Last
<1>7. CASE SrvDies
    <2>1. srvSck' = <<>> /\ serving' = 0 /\ UNCHANGED <<call, commSck>> /\ DOMAIN srvSck' = {}
        BY <1>7 DEF SrvDies, clientVars
    <2>2. QED
        BY <2>1 DEF Items, Last
<1>8. CASE OnMethodCall \/ SrvStarts \/ Calms \/ UNCHANGED vars
    BY <1>8 DEF OnMethodCall, SrvStarts, Calms, vars, clientVars, serverVars, Items, Last
<1>9. QED
    BY <1>1, <1>2, <1>3, <1>4, <1>5, <1>6, <1>7, <1>8 DEF Next, Transaction, Service, Ends

\* An undisturbed answer comes after everything that was sent: only calls in progress remain.
LEMMA SettledStep ==
    ASSUME TypeOK, CallInv, SentLast, NothingSettledWaits, [Next]_vars
    PROVE  NothingSettledWaits'
<1>a. CallTypeOK /\ SocketTypeOK /\ HistoryTypeOK
    BY DEF TypeOK
<1>b. OneTransaction /\ OwnSerials /\ SentWasGiven
    BY DEF CallInv
<1>c. /\ srvSck \in Seq(Serials) /\ commSck \in Seq(Serials) /\ serving \in Serials
      /\ m_SendSerialNo \in Nat
    BY <1>a, ConstantsAssumption DEF CallTypeOK, SocketTypeOK, Serials
<1> USE DEF NothingSettledWaits
<1>1. ASSUME Unserved' \subseteq Unserved, settled' = settled PROVE NothingSettledWaits'
    BY <1>1
<1>2. ASSUME NEW t \in Threads, Ends(t) PROVE NothingSettledWaits'
    <2>1. PICK ok \in BOOLEAN, late \in BOOLEAN :
              /\ Return(t, ok, late)
              /\ ok => call[t].pc = "recv" /\ commSck # <<>> /\ Head(commSck) = m_SendSerialNo
        BY <1>2, EndForm
    <2>2. UNCHANGED <<srvSck, serving, served>>
        BY <2>1 DEF Return, serverVars
    <2>3. /\ \A u \in Threads : NotSent(u)' => NotSent(u) /\ u # t /\ call'[u].serial = call[u].serial
        BY <1>a, <2>1, ReturnForm DEF NotSent, NoCall
    <2>4. Unserved' \subseteq Unserved
        BY <2>2, <2>3 DEF Unserved, Items
    <2>5. CASE ~(ok /\ ~Disturbed(t))
        BY <1>1, <2>1, <2>4, <2>5 DEF Return
    <2>6. CASE ok /\ ~Disturbed(t)
        <3>1. settled' = 1 .. m_SendSerialNo \ {call[u].serial : u \in Threads \ {t}}
            BY <2>1, <2>6 DEF Return
        <3>2. call[t].serial = m_SendSerialNo
            BY <1>b, <1>c, <2>1, <2>6 DEF OwnSerials, Given, Disturbed
        <3>3. m_SendSerialNo \in Items(commSck)
            BY <1>c, <2>1, <2>6, QueueItems
        <3>4. srvSck = <<>> /\ serving = 0
            BY <2>1, <2>6, <3>2, <3>3 DEF SentLast
        <3>5. Items(srvSck') = {} /\ serving' = 0
            BY <2>2, <3>4 DEF Items
        <3>6. \A x \in Unserved' : x = 0 \/ x \in {call[u].serial : u \in Threads \ {t}}
            BY <2>3, <3>5 DEF Unserved, Items
        <3>7. QED
            BY <3>1, <3>6
    <2>7. QED
        BY <2>5, <2>6
<1>3. ASSUME NEW t \in Threads, PackageSendHeader(t) PROVE NothingSettledWaits'
    <2>1. UNCHANGED <<srvSck, serving, served, settled>>
        BY <1>3 DEF PackageSendHeader, serverVars, historyVars
    <2>2. /\ \A u \in Threads \ {t} : call'[u] = call[u]
          /\ call'[t].serial = m_SendSerialNo + 1
        BY <1>3, CallForm DEF PackageSendHeader, DoMethodCallTransaction, SendTo, RecvOther
    <2>3. Unserved' \subseteq Unserved \cup {m_SendSerialNo + 1}
        BY <2>1, <2>2 DEF Unserved, NotSent, Items
    <2>4. m_SendSerialNo + 1 \notin settled
        BY <1>b, <1>c DEF SentWasGiven, Given
    <2>5. QED
        BY <2>1, <2>3, <2>4
<1>4. ASSUME NEW t \in Threads, DoMethodCallTransaction(t) \/ RecvOther(t) PROVE NothingSettledWaits'
    <2>1. UNCHANGED <<srvSck, serving, served, settled>>
        BY <1>4 DEF DoMethodCallTransaction, RecvOther, serverVars, historyVars
    <2>2. \A u \in Threads : NotSent(u)' => NotSent(u) /\ call'[u].serial = call[u].serial
        BY <1>a, <1>4 DEF DoMethodCallTransaction, RecvOther, CallTypeOK, NotSent
    <2>3. Unserved' \subseteq Unserved
        BY <2>1, <2>2 DEF Unserved, Items
    <2>4. QED
        BY <1>1, <2>1, <2>3
<1>5. ASSUME NEW t \in Threads, SendTo(t) PROVE NothingSettledWaits'
    <2>1. /\ UNCHANGED <<serving, served, settled>> /\ NotSent(t)
          /\ srvSck' = Append(srvSck, call[t].serial)
        BY <1>5 DEF SendTo, historyVars, NotSent
    <2>2. \A u \in Threads : NotSent(u)' => NotSent(u) /\ call'[u].serial = call[u].serial
        BY <1>a, <1>5 DEF SendTo, CallTypeOK, NotSent
    <2>3. Items(srvSck') = Items(srvSck) \cup {call[t].serial}
        BY <1>a, <1>c, <2>1, QueueItems DEF CallTypeOK
    <2>4. Unserved' \subseteq Unserved
        BY <2>1, <2>2, <2>3 DEF Unserved, Items
    <2>5. QED
        BY <1>1, <2>1, <2>4
<1>6. CASE OnSrvSckRead
    <2>1. /\ srvSck # <<>> /\ serving' = Head(srvSck) /\ srvSck' = Tail(srvSck)
          /\ UNCHANGED <<call, served, settled>>
        BY <1>6 DEF OnSrvSckRead, clientVars, historyVars
    <2>2. Items(srvSck) = {Head(srvSck)} \cup Items(srvSck')
        BY <1>c, <2>1, QueueItems
    <2>3. Unserved' \subseteq Unserved
        BY <2>1, <2>2 DEF Unserved, NotSent, Items
    <2>4. QED
        BY <1>1, <2>1, <2>3
<1>7. CASE OnMethodCall \/ SrvStarts \/ Calms \/ UNCHANGED vars
    <2>1. /\ UNCHANGED <<srvSck, serving, call, settled>> /\ served \subseteq served'
        BY <1>7 DEF OnMethodCall, SrvStarts, Calms, vars, clientVars, serverVars, historyVars
    <2>2. Unserved' \subseteq Unserved
        BY <2>1 DEF Unserved, NotSent, Items
    <2>3. QED
        BY <1>1, <2>1, <2>2
<1>8. CASE SendReply \/ SrvDies
    <2>1. /\ UNCHANGED <<served, call, settled>> /\ serving' = 0 /\ Items(srvSck') \subseteq Items(srvSck)
        BY <1>8 DEF SendReply, SrvDies, clientVars, historyVars, Items
    <2>2. Unserved' \subseteq Unserved \cup {0} /\ 0 \notin settled
        BY <1>b, <2>1 DEF Unserved, NotSent, Items, SentWasGiven, Given
    <2>3. QED
        BY <2>1, <2>2
<1>9. QED
    BY <1>2, <1>3, <1>4, <1>5, <1>6, <1>7, <1>8 DEF Next, Transaction, Service, Ends

\* A value that was set is not overwritten later by a set that its caller had given up.
THEOREM NothingIsServedAfterwards == Spec => NothingIsServedLate
<1>1. Init => SentLast /\ NothingSettledWaits
    BY DEF Init, SentLast, NothingSettledWaits, NoCall
<1>2. TypeOK /\ NothingSettledWaits /\ [Next]_vars => ((served' \ served) \cap settled = {})
    <2> SUFFICES ASSUME TypeOK, NothingSettledWaits, [Next]_vars PROVE (served' \ served) \cap settled = {}
        OBVIOUS
    <2>1. CASE OnMethodCall
        BY <2>1 DEF OnMethodCall, NothingSettledWaits, Unserved
    <2>2. ASSUME NEW t \in Threads, Transaction(t) \/ PackageSendHeader(t) PROVE served' = served
        BY <2>2 DEF Transaction, PackageSendHeader, DoMethodCallTransaction, SendTo, SendFails, RecvReply,
           RecvOther, RecvOtherLate, RecvTimesOut, RecvInterrupted, Return, serverVars
    <2>3. CASE OnSrvSckRead \/ SendReply \/ SrvDies \/ SrvStarts \/ Calms \/ UNCHANGED vars
        BY <2>3 DEF OnSrvSckRead, SendReply, SrvDies, SrvStarts, Calms, vars, serverVars
    <2>4. QED
        BY <2>1, <2>2, <2>3 DEF Next, Service
<1>3. QED
    BY <1>1, <1>2, CallsInv, LastStep, SettledStep, PTL DEF Spec, NothingIsServedLate


-----------------------------------------------------------------------------
(* Failures in the calm.                                                   *)

\* Nothing is on its way to or from the service.
NothingOnTheWay == srvSck = <<>> /\ serving = 0 /\ commSck = <<>>

\* One message is, and no other.
OnlyOnTheWay(x) ==
    \/ srvSck = <<x>> /\ serving = 0 /\ commSck = <<>>
    \/ srvSck = <<>> /\ serving = x /\ commSck = <<>>
    \/ srvSck = <<>> /\ serving = 0 /\ commSck = <<x>>

\* The sockets hold what the call that waits sent and nothing else; a call whose reply is gone
\* was disturbed.
Clean ==
    /\ (\A t \in Threads : call[t].pc # "recv") => NothingOnTheWay
    /\ \A t \in Threads : call[t].pc = "recv" =>
          \/ OnlyOnTheWay(call[t].serial) /\ ~call[t].moved
          \/ NothingOnTheWay /\ Disturbed(t)

\* No call has failed yet, and none has been kept waiting.
NoneFailed == failures = 0 /\ \A t \in Threads : ~call[t].late

\* The first failure in the calm finds the sockets empty, and leaves them clean.
CalmInv ==
    /\ ~calm => failures = 0
    /\ calm => srvUp /\ (NoneFailed \/ (failures <= 1 /\ Clean))
    /\ \A t \in Threads : call[t].moved => call[t].pc = "recv"

\* A queue of one.
LEMMA OneInQueue ==
    ASSUME NEW x
    PROVE  Append(<<>>, x) = <<x>> /\ Head(<<x>>) = x /\ Tail(<<x>>) = <<>> /\ <<x>> # <<>>
OBVIOUS

\* A call that returns leaves the sockets as clean as it found them, and a first failure does.
LEMMA CalmReturn ==
    ASSUME TypeOK, CallInv, CalmInv, NEW t \in Threads, Ends(t)
    PROVE  CalmInv'
<1>a. CallTypeOK /\ SocketTypeOK /\ HistoryTypeOK
    BY DEF TypeOK
<1>1. PICK ok \in BOOLEAN, late \in BOOLEAN : Return(t, ok, late)
    BY EndForm
<1>2. /\ UNCHANGED <<m_SendSerialNo, srvSck, serving, srvUp, calm>>
      /\ failures' = IF ok \/ ~calm \/ Disturbed(t) THEN failures ELSE failures + 1
    BY <1>1 DEF Return, serverVars
<1>3. /\ call'[t] = NoCall
      /\ \A u \in Threads \ {t} :
            /\ call'[u].pc = call[u].pc /\ call'[u].serial = call[u].serial
            /\ call'[u].moved = call[u].moved
            /\ call'[u].late => call[u].late \/ late
            /\ call[u].late => call'[u].late
    BY <1>a, <1>1, ReturnForm
<1>4. call'[t].pc = "idle" /\ ~call'[t].moved /\ ~call'[t].late
    BY <1>3 DEF NoCall
<1>5. \A u \in Threads \ {t} : call[u].pc # "recv"
    BY EndForm DEF CallInv, OneTransaction, InTransaction
<1>6. \A u \in Threads : call'[u].pc # "recv" /\ ~call'[u].moved
    BY <1>3, <1>4, <1>5 DEF CalmInv
<1>7. (~calm => failures = 0)'
    BY <1>2 DEF CalmInv
<1>8. ASSUME calm PROVE (srvUp /\ (NoneFailed \/ (failures <= 1 /\ Clean)))'
    <2>1. srvUp /\ failures \in Nat /\ (NoneFailed \/ (failures <= 1 /\ Clean))
        BY <1>a, <1>8 DEF CalmInv, HistoryTypeOK
    <2>2. RecvReply(t) \/ RecvOtherLate(t) \/ RecvTimesOut(t)
        BY <1>8, <2>1 DEF Ends, SendFails, RecvInterrupted, May
    <2>3. Clean' <=> NothingOnTheWay'
        BY <1>6 DEF Clean
    <2>4. CASE RecvTimesOut(t)
        <3>1. NothingOnTheWay'
            BY <1>2, <1>8, <2>4 DEF RecvTimesOut, Outstanding, May, NothingOnTheWay
        <3>2. Clean => Disturbed(t)
            <4>1. call[t].pc = "recv" /\ srvSck = <<>> /\ serving = 0 /\ commSck = <<>>
                BY <1>8, <2>4 DEF RecvTimesOut, Outstanding, May
            <4>2. call[t].serial # 0
                BY <4>1 DEF CallInv, OwnSerials, Given
            <4>3. ~OnlyOnTheWay(call[t].serial)
                BY <4>1, <4>2, OneInQueue DEF OnlyOnTheWay
            <4>4. QED
                BY <4>1, <4>3 DEF Clean
        <3>3. failures' <= 1
            BY <1>2, <2>1, <3>2 DEF NoneFailed
        <3>4. QED
            BY <1>2, <2>1, <2>3, <3>1, <3>3
    <2>5. CASE RecvReply(t) \/ RecvOtherLate(t)
        <3>1. call[t].pc = "recv" /\ commSck # <<>> /\ commSck' = Tail(commSck)
            BY <2>5 DEF RecvReply, RecvOtherLate
        <3>2. RecvReply(t) => Return(t, TRUE, FALSE)
            BY DEF RecvReply
        <3>3. RecvOtherLate(t) => Return(t, FALSE, FALSE) /\ Disturbed(t) /\ call[t].late
            BY <1>8 DEF RecvOtherLate, May, Disturbed
        <3>4. failures' = failures
            BY <2>5, <3>2, <3>3 DEF Return
        <3>5. CASE Clean
            <4>1. OnlyOnTheWay(call[t].serial)
                BY <3>1, <3>5 DEF Clean, NothingOnTheWay
            <4>2. srvSck = <<>> /\ serving = 0 /\ commSck = <<call[t].serial>>
                BY <3>1, <4>1 DEF OnlyOnTheWay
            <4>3. NothingOnTheWay'
                BY <1>2, <3>1, <4>2, OneInQueue DEF NothingOnTheWay
            <4>4. failures <= 1
                BY <2>1 DEF NoneFailed
            <4>5. QED
                BY <1>2, <2>1, <2>3, <3>4, <4>3, <4>4
        <3>6. CASE NoneFailed
            <4>1. RecvReply(t)
                BY <2>5, <3>3, <3>6 DEF NoneFailed
            <4>2. \A u \in Threads \ {t} : call'[u].late => call[u].late
                BY <1>a, <3>2, <4>1, ReturnForm
            <4>3. NoneFailed'
                BY <1>4, <3>4, <3>6, <4>2 DEF NoneFailed
            <4>4. QED
                BY <1>2, <2>1, <4>3
        <3>7. QED
            BY <2>1, <3>5, <3>6
    <2>6. QED
        BY <2>2, <2>4, <2>5
<1>9. QED
    BY <1>2, <1>6, <1>7, <1>8 DEF CalmInv

\* The other steps of a call: what it sends is the only thing on its way, and it reads past a
\* reply only when another thread packaged a call since.
LEMMA CalmCaller ==
    ASSUME TypeOK, CallInv, CalmInv, NEW t \in Threads,
           PackageSendHeader(t) \/ DoMethodCallTransaction(t) \/ SendTo(t) \/ RecvOther(t)
    PROVE  CalmInv'
<1>a. CallTypeOK /\ SocketTypeOK /\ HistoryTypeOK
    BY DEF TypeOK
<1>b. OneTransaction /\ OwnSerials
    BY DEF CallInv
<1>c. m_SendSerialNo \in Nat /\ \A u \in Threads : call[u].serial \in Nat
    BY <1>a, ConstantsAssumption DEF CallTypeOK, Serials
<1>d. UNCHANGED <<srvUp, calm, failures, serving>>
    BY DEF PackageSendHeader, DoMethodCallTransaction, SendTo, RecvOther, serverVars, historyVars
<1>e. \A u \in Threads \ {t} : call'[u] = call[u]
    BY CallForm
<1>1. \A u \in Threads : call'[u].moved => call'[u].pc = "recv"
    <2>1. \A u \in Threads : call[u].moved => call[u].pc = "recv"
        BY DEF CalmInv
    <2>2. (DoMethodCallTransaction(t) => call[t].pc = "packaged") /\ (SendTo(t) => call[t].pc = "send")
        BY DEF DoMethodCallTransaction, SendTo
    <2>3. call'[t].moved => call'[t].pc = "recv"
        BY <2>1, <2>2, CallForm
    <2>4. QED
        BY <1>e, <2>1, <2>3
<1>2. NoneFailed => NoneFailed'
    BY <1>a, <1>d, <1>e, CallForm DEF NoneFailed
<1>3. m_SendSerialNo \in Nat /\ m_SendSerialNo' \in Nat /\ m_SendSerialNo <= m_SendSerialNo'
    BY <1>c, CallForm
<1>4. ASSUME NEW u \in Threads, call[u].pc # "idle", Disturbed(u) PROVE Disturbed(u)'
    <2>1. call'[u].serial = call[u].serial /\ (call[u].late => call'[u].late)
        BY <1>4, <1>e, CallForm
    <2>2. QED
        BY <1>3, <1>4, <1>c, <2>1 DEF Disturbed
<1>5. ASSUME Clean PROVE Clean'
    <2>1. CASE PackageSendHeader(t) \/ DoMethodCallTransaction(t)
        <3>1. UNCHANGED <<srvSck, commSck>>
            BY <2>1 DEF PackageSendHeader, DoMethodCallTransaction, serverVars
        <3>2. call[t].pc # "recv" /\ call'[t].pc # "recv"
            BY <1>a, <2>1, CallForm DEF PackageSendHeader, DoMethodCallTransaction, CallTypeOK
        <3>3. NothingOnTheWay' = NothingOnTheWay /\ \A u \in Threads : OnlyOnTheWay(call[u].serial)
                  => (call'[u].serial = call[u].serial => OnlyOnTheWay(call[u].serial)')
            BY <1>d, <3>1 DEF NothingOnTheWay, OnlyOnTheWay
        <3>4. QED
            BY <1>4, <1>5, <1>d, <1>e, <3>1, <3>2 DEF Clean, NothingOnTheWay, OnlyOnTheWay
    <2>2. CASE SendTo(t)
        <3>1. \A u \in Threads : call[u].pc # "recv"
            BY <1>b, <2>2 DEF SendTo, OneTransaction, InTransaction
        <3>2. NothingOnTheWay
            BY <1>5, <3>1 DEF Clean
        <3>3. srvSck' = <<call[t].serial>> /\ commSck' = <<>> /\ serving' = 0
            BY <1>d, <2>2, <3>2, OneInQueue DEF SendTo, NothingOnTheWay
        <3>4. call[t].pc = "send" /\ call' = [call EXCEPT ![t].pc = "recv"] /\ ~call[t].moved
            BY <2>2 DEF SendTo, CalmInv
        <3>5. call'[t] = [call[t] EXCEPT !.pc = "recv"]
            BY <1>a, <3>4 DEF CallTypeOK
        <3>6. call'[t].pc = "recv" /\ call'[t].serial = call[t].serial /\ ~call'[t].moved
            BY <1>a, <3>4, <3>5 DEF CallTypeOK
        <3>7. QED
            BY <1>e, <3>1, <3>3, <3>6 DEF Clean, OnlyOnTheWay
    <2>3. CASE RecvOther(t)
        <3>1. /\ call[t].pc = "recv" /\ commSck # <<>> /\ commSck' = Tail(commSck) /\ srvSck' = srvSck
              /\ ~IsReply(t, Head(commSck))
            BY <2>3 DEF RecvOther, serverVars
        <3>2. call'[t].pc = "recv" /\ call'[t].serial = call[t].serial
            BY <1>a, <2>3, CallForm DEF RecvOther
        <3>3. \A u \in Threads \ {t} : call[u].pc # "recv"
            BY <1>b, <3>1 DEF OneTransaction, InTransaction
        <3>4. OnlyOnTheWay(call[t].serial) /\ ~call[t].moved
            BY <1>5, <3>1 DEF Clean, NothingOnTheWay
        <3>5. srvSck = <<>> /\ serving = 0 /\ commSck = <<call[t].serial>>
            BY <3>1, <3>4 DEF OnlyOnTheWay
        <3>6. NothingOnTheWay'
            BY <1>d, <3>1, <3>5, OneInQueue DEF NothingOnTheWay
        <3>7. call[t].serial # m_SendSerialNo
            BY <3>1, <3>4, <3>5, OneInQueue DEF IsReply
        <3>8. call[t].serial \in Given
            BY <1>b, <3>1 DEF OwnSerials
        <3>9. Disturbed(t)
            BY <1>c, <3>7, <3>8 DEF Given, Disturbed
        <3>10. Disturbed(t)'
            BY <1>4, <3>1, <3>9
        <3>11. QED
            BY <1>e, <3>2, <3>3, <3>6, <3>10 DEF Clean
    <2>4. QED
        BY <2>1, <2>2, <2>3
<1>6. QED
    BY <1>1, <1>2, <1>5, <1>d DEF CalmInv

\* What is on its way moves on; nothing is lost in the calm.
LEMMA CalmService ==
    ASSUME TypeOK, CallInv, CalmInv, ServiceSteps
    PROVE  CalmInv'
<1>1. UNCHANGED <<m_SendSerialNo, call, calm, failures>>
    BY ServiceForm DEF clientVars, historyVars
<1>2. NoneFailed => NoneFailed'
    BY <1>1 DEF NoneFailed
<1>3. ASSUME calm PROVE srvUp' /\ ~SrvDies /\ ~SrvStarts
    BY <1>3 DEF CalmInv, ServiceSteps, OnSrvSckRead, OnMethodCall, SendReply, SrvDies, SrvStarts, May
<1>4. ASSUME calm, Clean PROVE Clean'
    <2>1. OnSrvSckRead \/ OnMethodCall \/ SendReply
        BY <1>3, <1>4 DEF ServiceSteps
    <2>2. ~NothingOnTheWay
        <3>1. serving \in served => serving # 0
            BY DEF CallInv, SentWasGiven, Given
        <3>2. QED
            BY <2>1, <3>1 DEF OnSrvSckRead, OnMethodCall, SendReply, NothingOnTheWay
    <2>3. ASSUME NEW x, OnlyOnTheWay(x) PROVE OnlyOnTheWay(x)'
        <3>1. CASE OnSrvSckRead
            BY <2>3, <3>1, OneInQueue DEF OnSrvSckRead, OnlyOnTheWay
        <3>2. CASE OnMethodCall
            BY <2>3, <3>2 DEF OnMethodCall, OnlyOnTheWay
        <3>3. CASE SendReply
            <4>1. serving # 0
                BY <3>3 DEF SendReply, CallInv, SentWasGiven, Given
            <4>2. srvSck = <<>> /\ serving = x /\ commSck = <<>>
                BY <2>3, <4>1 DEF OnlyOnTheWay
            <4>3. srvSck' = <<>> /\ serving' = 0 /\ commSck' = <<x>>
                BY <3>3, <4>2, OneInQueue DEF SendReply
            <4>4. QED
                BY <4>3 DEF OnlyOnTheWay
        <3>4. QED
            BY <2>1, <3>1, <3>2, <3>3
    <2>4. PICK t \in Threads : call[t].pc = "recv"
        BY <1>4, <2>2 DEF Clean
    <2>5. \A u \in Threads : call[u].pc = "recv" => OnlyOnTheWay(call[u].serial) /\ ~call[u].moved
        BY <1>4, <2>2 DEF Clean
    <2>6. \A u \in Threads : call'[u].pc = "recv" => OnlyOnTheWay(call[u].serial)' /\ ~call'[u].moved
        BY <1>1, <2>3, <2>5 DEF OnlyOnTheWay
    <2>7. QED
        BY <1>1, <2>4, <2>6 DEF Clean, OnlyOnTheWay
<1>5. QED
    BY <1>1, <1>2, <1>3, <1>4 DEF CalmInv

\* Once nothing goes wrong any more, the calls fail at most once for what earlier ones left behind.
THEOREM OneFailureInTheCalm == Spec => []OneFailureAfterCalm
<1>1. Init => CalmInv
    <2> SUFFICES ASSUME Init PROVE CalmInv
        OBVIOUS
    <2>1. ~calm /\ failures = 0 /\ \A t \in Threads : call[t] = NoCall
        BY DEF Init
    <2>2. QED
        BY <2>1 DEF CalmInv, NoCall
<1>2. ASSUME TypeOK, CallInv, CalmInv, [Next]_vars PROVE CalmInv'
    <2>1. CASE Calms
        <3>1. /\ \A t \in Threads : call[t] = NoCall
              /\ UNCHANGED <<call, failures, srvUp>> /\ srvUp /\ failures = 0 /\ ~calm /\ calm'
            BY <1>2, <2>1 DEF Calms, CallInv, OwnSerials, clientVars, serverVars, CalmInv
        <3>2. NoneFailed'
            BY <3>1 DEF NoneFailed, NoCall
        <3>3. QED
            BY <3>1, <3>2 DEF CalmInv, NoCall
    <2>2. CASE UNCHANGED vars
        <3>1. UNCHANGED <<m_SendSerialNo, call, srvSck, serving, srvUp, commSck, calm, failures>>
            BY <2>2 DEF vars, clientVars, serverVars, historyVars
        <3>2. QED
            BY <1>2, <3>1 DEF CalmInv, NoneFailed, Clean, NothingOnTheWay, OnlyOnTheWay, Disturbed
    <2>3. QED
        BY <1>2, <2>1, <2>2, CalmReturn, CalmCaller, CalmService
           DEF Next, Transaction, Service, Ends, ServiceSteps
<1>3. TypeOK /\ CalmInv => OneFailureAfterCalm
    BY DEF TypeOK, HistoryTypeOK, CalmInv, NoneFailed, OneFailureAfterCalm
<1>4. QED
    BY <1>1, <1>2, <1>3, CallsInv, PTL DEF Spec


-----------------------------------------------------------------------------
(* Every step of client and service is a step of the abstract service, or  *)
(* none.                                                                   *)

\* A request is in one place, and is not carried out before it gets there.
RequestsOnce ==
    /\ Items(srvSck) \cap served = {}
    /\ serving \notin Items(srvSck)
    /\ \A i, j \in DOMAIN srvSck : srvSck[i] = srvSck[j] => i = j
    /\ \A t \in Threads : NotSent(t) => call[t].serial \notin served

\* A queue whose items differ keeps them different.
LEMMA QueueOnce ==
    ASSUME NEW S, NEW s \in Seq(S), NEW x \in S, \A i, j \in DOMAIN s : s[i] = s[j] => i = j
    PROVE  /\ x \notin Items(s) => \A i, j \in DOMAIN Append(s, x) :
                                      Append(s, x)[i] = Append(s, x)[j] => i = j
           /\ s # <<>> => /\ \A i, j \in DOMAIN Tail(s) : Tail(s)[i] = Tail(s)[j] => i = j
                          /\ Head(s) \notin Items(Tail(s))
<1>1. Len(s) \in Nat /\ DOMAIN s = 1 .. Len(s)
    BY LenProperties
<1>2. ASSUME x \notin Items(s), NEW i \in DOMAIN Append(s, x), NEW j \in DOMAIN Append(s, x),
             Append(s, x)[i] = Append(s, x)[j]
      PROVE  i = j
    <2>1. /\ DOMAIN Append(s, x) = 1 .. Len(s) + 1 /\ Append(s, x)[Len(s) + 1] = x
          /\ \A k \in 1 .. Len(s) : Append(s, x)[k] = s[k]
        BY <1>1, AppendProperties, LenProperties
    <2>2. \A k \in 1 .. Len(s) : s[k] # x
        BY <1>1, <1>2 DEF Items
    <2>3. \A k \in 1 .. Len(s) + 1 : k \in 1 .. Len(s) \/ k = Len(s) + 1
        BY <1>1
    <2>4. QED
        BY <1>1, <1>2, <2>1, <2>2, <2>3
<1>3. ASSUME s # <<>>
      PROVE  /\ \A i, j \in DOMAIN Tail(s) : Tail(s)[i] = Tail(s)[j] => i = j
             /\ Head(s) \notin Items(Tail(s))
    <2>1. /\ Len(s) # 0 /\ Head(s) = s[1] /\ DOMAIN Tail(s) = 1 .. Len(s) - 1
          /\ \A i \in 1 .. Len(s) - 1 : Tail(s)[i] = s[i + 1]
        BY <1>1, <1>3, HeadTailProperties, LenProperties, EmptySeq
    <2>2. \A i \in 1 .. Len(s) - 1 : i + 1 \in DOMAIN s /\ i + 1 # 1 /\ i \in Int
        BY <1>1
    <2>3. 1 \in DOMAIN s
        BY <1>1, <2>1
    <2>4. \A i, j \in DOMAIN Tail(s) : Tail(s)[i] = Tail(s)[j] => i + 1 = j + 1
        BY <2>1, <2>2
    <2>5. \A i, j \in DOMAIN Tail(s) : i + 1 = j + 1 => i = j
        BY <2>1, <2>2
    <2>6. \A i \in DOMAIN Tail(s) : Tail(s)[i] # Head(s)
        BY <2>1, <2>2, <2>3
    <2>7. QED
        BY <2>4, <2>5, <2>6 DEF Items
<1>4. QED
    BY <1>2, <1>3

\* A call sends its request once, and the service takes it once.
LEMMA OnceStep ==
    ASSUME TypeOK, CallInv, RequestsOnce, [Next]_vars
    PROVE  RequestsOnce'
<1>a. CallTypeOK /\ SocketTypeOK /\ HistoryTypeOK
    BY DEF TypeOK
<1>b. OwnSerials /\ SentWasGiven
    BY DEF CallInv
<1>c. /\ srvSck \in Seq(Serials) /\ m_SendSerialNo \in Nat
      /\ \A t \in Threads : call[t].serial \in Serials
    BY <1>a, ConstantsAssumption DEF CallTypeOK, SocketTypeOK, Serials
<1> USE DEF RequestsOnce
<1>1. ASSUME NEW t \in Threads, Ends(t) PROVE RequestsOnce'
    <2>1. UNCHANGED <<srvSck, serving, served>>
        BY <1>1, EndForm DEF Return, serverVars
    <2>2. \A u \in Threads : NotSent(u)' => NotSent(u) /\ call'[u].serial = call[u].serial
        BY <1>a, <1>1, EndForm, ReturnForm DEF NotSent, NoCall
    <2>3. QED
        BY <2>1, <2>2 DEF Items
<1>2. ASSUME NEW t \in Threads, PackageSendHeader(t) PROVE RequestsOnce'
    <2>1. UNCHANGED <<srvSck, serving, served>>
        BY <1>2 DEF PackageSendHeader, serverVars
    <2>2. /\ \A u \in Threads \ {t} : call'[u] = call[u]
          /\ call'[t].serial = m_SendSerialNo + 1
        BY <1>2, CallForm DEF PackageSendHeader, DoMethodCallTransaction, SendTo, RecvOther
    <2>3. m_SendSerialNo + 1 \notin served
        BY <1>b, <1>c DEF SentWasGiven, Given
    <2>4. QED
        BY <2>1, <2>2, <2>3 DEF Items, NotSent
<1>3. ASSUME NEW t \in Threads, DoMethodCallTransaction(t) \/ RecvOther(t) PROVE RequestsOnce'
    <2>1. UNCHANGED <<srvSck, serving, served>>
        BY <1>3 DEF DoMethodCallTransaction, RecvOther, serverVars
    <2>2. \A u \in Threads : NotSent(u)' => NotSent(u) /\ call'[u].serial = call[u].serial
        BY <1>a, <1>3 DEF DoMethodCallTransaction, RecvOther, CallTypeOK, NotSent
    <2>3. QED
        BY <2>1, <2>2 DEF Items
<1>4. ASSUME NEW t \in Threads, SendTo(t) PROVE RequestsOnce'
    <2>1. /\ UNCHANGED <<serving, served>> /\ NotSent(t) /\ srvSck' = Append(srvSck, call[t].serial)
        BY <1>4 DEF SendTo, NotSent
    <2>2. \A u \in Threads : NotSent(u)' => NotSent(u) /\ call'[u].serial = call[u].serial
        BY <1>a, <1>4 DEF SendTo, CallTypeOK, NotSent
    <2>3. call[t].serial \notin OnTheWay /\ call[t].serial # 0
        BY <1>b, <2>1 DEF SentWasGiven, OwnSerials, NotSent, Given
    <2>4. /\ Items(srvSck') = Items(srvSck) \cup {call[t].serial}
          /\ \A i, j \in DOMAIN srvSck' : srvSck'[i] = srvSck'[j] => i = j
        BY <1>c, <2>1, <2>3, QueueItems, QueueOnce DEF OnTheWay
    <2>5. serving # call[t].serial /\ call[t].serial \notin served
        BY <2>1, <2>3 DEF OnTheWay
    <2>6. QED
        BY <2>1, <2>2, <2>4, <2>5 DEF Items
<1>5. CASE OnSrvSckRead
    <2>1. /\ srvSck # <<>> /\ serving' = Head(srvSck) /\ srvSck' = Tail(srvSck)
          /\ UNCHANGED <<call, served>>
        BY <1>5 DEF OnSrvSckRead, clientVars
    <2>2. /\ Items(srvSck) = {Head(srvSck)} \cup Items(srvSck') /\ Head(srvSck) \in Serials
        BY <1>c, <2>1, QueueItems
    <2>3. /\ \A i, j \in DOMAIN srvSck' : srvSck'[i] = srvSck'[j] => i = j
          /\ serving' \notin Items(srvSck')
        BY <1>c, <2>1, <2>2, QueueOnce
    <2>4. QED
        BY <2>1, <2>2, <2>3 DEF Items, NotSent
<1>6. CASE OnMethodCall
    <2>1. /\ served' = served \cup {serving} /\ serving # 0 /\ UNCHANGED <<srvSck, serving, call>>
        BY <1>6 DEF OnMethodCall, clientVars
    <2>2. \A t \in Threads : NotSent(t) => call[t].serial # serving
        BY <1>b, <2>1 DEF SentWasGiven, OnTheWay
    <2>3. QED
        BY <2>1, <2>2 DEF Items, NotSent
<1>7. CASE SendReply \/ SrvDies
    <2>1. /\ UNCHANGED <<served, call>> /\ serving' = 0 /\ (srvSck' = srvSck \/ srvSck' = <<>>)
        BY <1>7 DEF SendReply, SrvDies, clientVars
    <2>2. 0 \notin Items(srvSck) /\ DOMAIN <<>> = {}
        BY <1>b DEF SentWasGiven
    <2>3. QED
        BY <2>1, <2>2 DEF Items, NotSent
<1>8. CASE SrvStarts \/ Calms \/ UNCHANGED vars
    BY <1>8 DEF SrvStarts, Calms, vars, clientVars, serverVars, Items, NotSent
<1>9. QED
    BY <1>1, <1>2, <1>3, <1>4, <1>5, <1>6, <1>7, <1>8 DEF Next, Transaction, Service, Ends

\* Where the abstract call is, by the place of the call of the thread.
Place(t) ==
    IF call[t].pc = "idle" THEN "over" ELSE IF call[t].pc = "recv" THEN "sent" ELSE "open"

StagesAre ==
    /\ \A t \in Threads : call[t].pc # "idle" => StageOf(call[t].serial) = Place(t)
    /\ \A n \in Nat : n > m_SendSerialNo => StageOf(n) = "new"
    /\ \A n \in Given : (\A t \in Threads : call[t].pc # "idle" => call[t].serial # n) => StageOf(n) = "over"

\* A serial number belongs to one call, and the stage is that of its thread.
LEMMA StageIs == TypeOK /\ CallInv => StagesAre
<1> SUFFICES ASSUME TypeOK, CallInv PROVE StagesAre
    OBVIOUS
<1>1. /\ m_SendSerialNo \in Nat
      /\ \A t \in Threads : call[t].pc \in {"idle", "packaged", "send", "recv"}
    BY ConstantsAssumption DEF TypeOK, CallTypeOK, Serials
<1>2. \A n \in Given : ~(n > m_SendSerialNo)
    BY <1>1 DEF Given
<1>3. ASSUME NEW t \in Threads, call[t].pc # "idle" PROVE StageOf(call[t].serial) = Place(t)
    <2>1. call[t].serial \in Given
          /\ \A u \in Threads : call[u].pc # "idle" /\ call[u].serial = call[t].serial => u = t
        BY <1>3 DEF CallInv, OwnSerials
    <2>2. ~(call[t].serial > m_SendSerialNo)
        BY <1>2, <2>1
    <2>3. call[t].serial \in Calling({"recv"}) <=> call[t].pc = "recv"
        BY <1>3, <2>1 DEF Calling
    <2>4. call[t].serial \in Calling({"packaged", "send"}) <=> call[t].pc \in {"packaged", "send"}
        BY <1>3, <2>1 DEF Calling
    <2>5. QED
        BY <1>1, <1>3, <2>2, <2>3, <2>4 DEF StageOf, Place
<1>4. ASSUME NEW n \in Given, \A t \in Threads : call[t].pc # "idle" => call[t].serial # n
      PROVE  StageOf(n) = "over"
    BY <1>2, <1>4 DEF StageOf, Calling
<1>5. QED
    BY <1>3, <1>4 DEF StagesAre, StageOf

stages == [n \in 1 .. MaxCalls |-> StageOf(n)]

\* A step of a call moves the stage of that call and of no other.
LEMMA StageMoves ==
    ASSUME TypeOK, CallInv, StagesAre, StagesAre', NEW t \in Threads, call[t].pc # "idle",
           m_SendSerialNo' = m_SendSerialNo,
           call'[t].pc # "idle" => call'[t].serial = call[t].serial,
           \A u \in Threads \ {t} : call'[u].pc = call[u].pc /\ call'[u].serial = call[u].serial
    PROVE  /\ call[t].serial \in 1 .. MaxCalls
           /\ stages[call[t].serial] = Place(t)
           /\ stages' = [stages EXCEPT ![call[t].serial] = Place(t)']
<1>1. m_SendSerialNo \in 0 .. MaxCalls /\ MaxCalls \in Nat
    BY ConstantsAssumption DEF TypeOK, CallTypeOK, Serials
<1>2. /\ call[t].serial \in Given
      /\ \A u \in Threads \ {t} : call[u].pc # "idle" => call[u].serial # call[t].serial
    BY DEF CallInv, OwnSerials
<1>3. call[t].serial \in 1 .. MaxCalls
    BY <1>1, <1>2 DEF Given
<1>4. stages[call[t].serial] = Place(t)
    BY <1>3 DEF stages, StagesAre
<1>5. ASSUME NEW n, n = call[t].serial PROVE StageOf(n)' = Place(t)'
    <2>1. CASE call'[t].pc # "idle"
        BY <1>5, <2>1 DEF StagesAre
    <2>2. CASE call'[t].pc = "idle"
        <3>1. n \in Given' /\ \A u \in Threads : call'[u].pc # "idle" => call'[u].serial # n
            BY <1>2, <1>5, <2>2 DEF Given
        <3>2. QED
            BY <2>2, <3>1 DEF StagesAre, Place
    <2>3. QED
        BY <2>1, <2>2
<1>6. ASSUME NEW n \in 1 .. MaxCalls, n # call[t].serial PROVE StageOf(n)' = StageOf(n)
    <2>1. CASE n > m_SendSerialNo
        BY <1>1, <2>1 DEF StagesAre
    <2>2. CASE ~(n > m_SendSerialNo)
        <3>1. n \in Given /\ n \in Given'
            BY <1>1, <2>2 DEF Given
        <3>2. CASE \E u \in Threads : call[u].pc # "idle" /\ call[u].serial = n
            <4>1. PICK u \in Threads : call[u].pc # "idle" /\ call[u].serial = n
                BY <3>2
            <4>2. u # t /\ call'[u].pc = call[u].pc /\ call'[u].serial = n
                BY <1>6, <4>1
            <4>3. StageOf(n) = Place(u) /\ StageOf(n)' = Place(u)'
                BY <4>1, <4>2 DEF StagesAre
            <4>4. QED
                BY <4>2, <4>3 DEF Place
        <3>3. CASE ~ \E u \in Threads : call[u].pc # "idle" /\ call[u].serial = n
            <4>1. \A u \in Threads : call'[u].pc # "idle" => call'[u].serial # n
                BY <1>6, <3>3
            <4>2. QED
                BY <3>1, <3>3, <4>1 DEF StagesAre
        <3>4. QED
            BY <3>2, <3>3
    <2>3. QED
        BY <2>1, <2>2
<1>7. QED
    BY <1>3, <1>4, <1>5, <1>6 DEF stages

hand == {serving} \ (served \cup {0})

\* A return is the answer to the call, or its end without one.
LEMMA EndImplements ==
    ASSUME TypeOK, CallInv, SentLast, StagesAre, StagesAre', NEW t \in Threads, Ends(t)
    PROVE  AbstractService!Next
<1>a. CallTypeOK /\ SocketTypeOK
    BY DEF TypeOK
<1> DEFINE n == call[t].serial
<1>1. PICK ok \in BOOLEAN, late \in BOOLEAN :
          /\ Return(t, ok, late)
          /\ ok => call[t].pc = "recv" /\ commSck # <<>> /\ Head(commSck) = m_SendSerialNo
    BY EndForm
<1>2. UNCHANGED <<m_SendSerialNo, srvSck, serving, served>>
    BY <1>1 DEF Return, serverVars
<1>3. /\ call[t].pc \in {"send", "recv"} /\ call'[t].pc = "idle"
      /\ \A u \in Threads \ {t} : call'[u].pc = call[u].pc /\ call'[u].serial = call[u].serial
    BY <1>a, <1>1, EndForm, ReturnForm DEF NoCall
<1>4. n \in 1 .. MaxCalls /\ stages[n] = Place(t) /\ stages' = [stages EXCEPT ![n] = Place(t)']
    BY <1>2, <1>3, StageMoves
<1>5. Place(t)' = "over" /\ Place(t) \in {"open", "sent"} /\ (ok => Place(t) = "sent")
    BY <1>1, <1>3 DEF Place
<1>6. stages' = [stages EXCEPT ![n] = "over"]
    BY <1>4, <1>5
<1>7. hand' = hand
    BY <1>2 DEF hand
<1>8. CASE ok /\ ~Disturbed(t)
    <2>1. answered' = answered \cup {n}
        BY <1>1, <1>8 DEF Return
    <2>2. n \in Given /\ ~(n < m_SendSerialNo) /\ m_SendSerialNo \in Nat
        BY <1>a, <1>3, <1>8, ConstantsAssumption DEF CallInv, OwnSerials, Disturbed, CallTypeOK, Serials
    <2>3. n = m_SendSerialNo
        BY <2>2 DEF Given
    <2>4. n \in Items(commSck)
        BY <1>a, <1>1, <1>8, <2>3, QueueItems DEF SocketTypeOK
    <2>5. n \in served
        BY <2>4 DEF CallInv, RepliesAreServed
    <2>6. srvSck = <<>> /\ hand = {}
        BY <1>1, <1>8, <2>4 DEF SentLast, hand
    <2>7. AbstractService!Answer(n)
        BY <1>2, <1>4, <1>5, <1>6, <1>7, <1>8, <2>1, <2>5, <2>6
           DEF AbstractService!Answer, stages, hand
    <2>8. QED
        BY <1>4, <2>7 DEF AbstractService!Next
<1>9. CASE ~(ok /\ ~Disturbed(t))
    <2>1. answered' = answered
        BY <1>1, <1>9 DEF Return
    <2>2. AbstractService!GiveUp(n)
        BY <1>2, <1>4, <1>5, <1>6, <1>7, <2>1 DEF AbstractService!GiveUp, stages, hand
    <2>3. QED
        BY <1>4, <2>2 DEF AbstractService!Next
<1>10. QED
    BY <1>8, <1>9

\* The other steps of a call begin it and send it, or are nothing to the abstract service.
LEMMA CallerImplements ==
    ASSUME TypeOK, CallInv, StagesAre, StagesAre', NEW t \in Threads,
           PackageSendHeader(t) \/ DoMethodCallTransaction(t) \/ SendTo(t) \/ RecvOther(t)
    PROVE  [AbstractService!Next]_(AbstractService!vars)
<1>a. CallTypeOK /\ SocketTypeOK
    BY DEF TypeOK
<1>b. m_SendSerialNo \in 0 .. MaxCalls /\ MaxCalls \in Nat
    BY <1>a, ConstantsAssumption DEF CallTypeOK, Serials
<1>c. UNCHANGED <<serving, served, answered>> /\ hand' = hand
    BY DEF PackageSendHeader, DoMethodCallTransaction, SendTo, RecvOther, serverVars, historyVars, hand
<1>d. \A u \in Threads \ {t} : call'[u] = call[u]
    BY CallForm
<1>1. CASE PackageSendHeader(t)
    <2> DEFINE n == m_SendSerialNo + 1
    <2>1. /\ m_SendSerialNo' = n /\ n \in 1 .. MaxCalls /\ srvSck' = srvSck /\ call[t].pc = "idle"
        BY <1>b, <1>1 DEF PackageSendHeader, serverVars
    <2>2. call'[t].pc = "packaged" /\ call'[t].serial = n
        BY <1>a, <1>1 DEF PackageSendHeader, CallTypeOK
    <2>3. stages[n] = "new"
        BY <1>b, <2>1 DEF StagesAre, stages
    <2>4. ASSUME NEW k, k = n PROVE StageOf(k)' = "open"
        BY <2>2, <2>4 DEF StagesAre, Place
    <2>5. ASSUME NEW k \in 1 .. MaxCalls, k # n PROVE StageOf(k)' = StageOf(k)
        <3>1. CASE k > m_SendSerialNo
            <4>1. k > m_SendSerialNo' /\ k \in Nat
                BY <1>b, <2>1, <2>5, <3>1
            <4>2. QED
                BY <3>1, <4>1 DEF StagesAre
        <3>2. CASE ~(k > m_SendSerialNo)
            <4>1. k \in Given /\ k \in Given'
                BY <1>b, <2>1, <3>2 DEF Given
            <4>2. CASE \E u \in Threads : call[u].pc # "idle" /\ call[u].serial = k
                <5>1. PICK u \in Threads : call[u].pc # "idle" /\ call[u].serial = k
                    BY <4>2
                <5>2. u # t /\ call'[u] = call[u]
                    BY <1>d, <2>1, <5>1
                <5>3. StageOf(k) = Place(u) /\ StageOf(k)' = Place(u)'
                    BY <5>1, <5>2 DEF StagesAre
                <5>4. QED
                    BY <5>2, <5>3 DEF Place
            <4>3. CASE ~ \E u \in Threads : call[u].pc # "idle" /\ call[u].serial = k
                <5>1. \A u \in Threads : call'[u].pc # "idle" => call'[u].serial # k
                    BY <1>d, <2>2, <2>5, <4>3
                <5>2. QED
                    BY <4>1, <4>3, <5>1 DEF StagesAre
            <4>4. QED
                BY <4>2, <4>3
        <3>3. QED
            BY <3>1, <3>2
    <2>6. stages' = [stages EXCEPT ![n] = "open"]
        BY <2>1, <2>4, <2>5 DEF stages
    <2>7. AbstractService!Begin(n)
        BY <1>c, <2>1, <2>3, <2>6 DEF AbstractService!Begin, stages, hand
    <2>8. QED
        BY <2>1, <2>7 DEF AbstractService!Next
<1>2. CASE ~PackageSendHeader(t)
    <2> DEFINE n == call[t].serial
    <2>1. /\ call[t].pc # "idle" /\ m_SendSerialNo' = m_SendSerialNo
          /\ call'[t].pc # "idle" /\ call'[t].serial = n
        BY <1>2, CallForm DEF DoMethodCallTransaction, SendTo, RecvOther
    <2>2. /\ n \in 1 .. MaxCalls /\ stages[n] = Place(t)
          /\ stages' = [stages EXCEPT ![n] = Place(t)']
        BY <1>d, <2>1, StageMoves
    <2>3. CASE SendTo(t)
        <3>1. call[t].pc = "send" /\ srvSck' = Append(srvSck, n)
            BY <2>3 DEF SendTo
        <3>2. call'[t].pc = "recv"
            BY <1>a, <2>3 DEF SendTo, CallTypeOK
        <3>3. stages[n] = "open" /\ stages' = [stages EXCEPT ![n] = "sent"]
            BY <2>2, <3>1, <3>2 DEF Place
        <3>4. \A u \in Threads : call[u].pc # "recv"
            BY <3>1 DEF CallInv, OneTransaction, InTransaction
        <3>5. \A k \in 1 .. MaxCalls : stages[k] # "sent"
            BY <3>4 DEF stages, StageOf, Calling
        <3>6. AbstractService!Send(n)
            BY <1>c, <3>1, <3>3, <3>5 DEF AbstractService!Send, stages, hand
        <3>7. QED
            BY <2>2, <3>6 DEF AbstractService!Next
    <2>4. CASE DoMethodCallTransaction(t) \/ RecvOther(t)
        <3>1. srvSck' = srvSck
            BY <2>4 DEF DoMethodCallTransaction, RecvOther, serverVars
        <3>2. Place(t)' = Place(t)
            BY <1>a, <2>4 DEF DoMethodCallTransaction, RecvOther, CallTypeOK, Place
        <3>3. stages' = stages
            BY <2>2, <3>2 DEF stages
        <3>4. QED
            BY <1>c, <3>1, <3>3 DEF AbstractService!vars, stages, hand
    <2>5. QED
        BY <1>2, <2>3, <2>4
<1>3. QED
    BY <1>1, <1>2

\* The service takes, carries out and loses requests; a reply is nothing new.
LEMMA ServiceImplements ==
    ASSUME TypeOK, CallInv, RequestsOnce, ServiceSteps
    PROVE  [AbstractService!Next]_(AbstractService!vars)
<1>a. SocketTypeOK
    BY DEF TypeOK
<1>b. UNCHANGED <<m_SendSerialNo, call, answered>>
    BY ServiceForm DEF clientVars, historyVars
<1>c. stages' = stages
    BY <1>b DEF stages, StageOf, Calling
<1>1. CASE OnSrvSckRead
    <2>1. /\ srvSck # <<>> /\ serving = 0 /\ serving' = Head(srvSck) /\ srvSck' = Tail(srvSck)
          /\ served' = served
        BY <1>1 DEF OnSrvSckRead
    <2>2. Head(srvSck) \in Items(srvSck)
        BY <1>a, <2>1, QueueItems DEF SocketTypeOK
    <2>3. Head(srvSck) \notin served \cup {0}
        BY <2>2 DEF RequestsOnce, CallInv, SentWasGiven
    <2>4. hand = {} /\ hand' = {Head(srvSck)}
        BY <2>1, <2>3 DEF hand
    <2>5. AbstractService!Take
        BY <1>b, <1>c, <2>1, <2>4 DEF AbstractService!Take, stages, hand
    <2>6. QED
        BY <2>5 DEF AbstractService!Next
<1>2. CASE OnMethodCall
    <2>1. /\ serving \notin served \cup {0} /\ served' = served \cup {serving}
          /\ UNCHANGED <<serving, srvSck>>
        BY <1>2 DEF OnMethodCall
    <2>2. hand = {serving} /\ hand' = {}
        BY <2>1 DEF hand
    <2>3. serving \in 1 .. MaxCalls
        BY <1>a, <2>1, ConstantsAssumption DEF SocketTypeOK, Serials
    <2>4. AbstractService!Execute(serving)
        BY <1>b, <1>c, <2>1, <2>2 DEF AbstractService!Execute, stages, hand
    <2>5. QED
        BY <2>3, <2>4 DEF AbstractService!Next
<1>3. CASE SendReply \/ SrvStarts
    <2>1. UNCHANGED <<srvSck, served>>
        BY <1>3 DEF SendReply, SrvStarts
    <2>2. hand' = hand
        BY <1>3 DEF SendReply, SrvStarts, hand
    <2>3. QED
        BY <1>b, <1>c, <2>1, <2>2 DEF AbstractService!vars, stages, hand
<1>4. CASE SrvDies
    <2>1. srvSck' = <<>> /\ hand' = {} /\ served' = served
        BY <1>4 DEF SrvDies, hand
    <2>2. AbstractService!Crash
        BY <1>b, <1>c, <2>1 DEF AbstractService!Crash, stages, hand
    <2>3. QED
        BY <2>2 DEF AbstractService!Next
<1>5. QED
    BY <1>1, <1>2, <1>3, <1>4 DEF ServiceSteps

\* Client and service, with their sockets, mutex and serial numbers, are the service that
\* carries out one request at a time, each once and in order or never.
THEOREM CallsImplementService == Spec => ImplementsCallService
<1>1. Init => AbstractService!Init
    <2> SUFFICES ASSUME Init PROVE AbstractService!Init
        OBVIOUS
    <2>1. TypeOK /\ m_SendSerialNo = 0 /\ srvSck = <<>> /\ serving = 0 /\ served = {} /\ answered = {}
        BY InitType DEF Init
    <2>2. \A n \in 1 .. MaxCalls : StageOf(n) = "new"
        BY <2>1, ConstantsAssumption DEF StageOf
    <2>3. QED
        BY <2>1, <2>2 DEF AbstractService!Init
<1>2. Init => RequestsOnce /\ SentLast
    BY DEF Init, RequestsOnce, SentLast, Items, NotSent, NoCall
<1>3. ASSUME TypeOK, CallInv, TypeOK', CallInv', SentLast, RequestsOnce, [Next]_vars
      PROVE  [AbstractService!Next]_(AbstractService!vars)
    <2>1. StagesAre /\ StagesAre'
        BY <1>3, StageIs, PTL
    <2>2. CASE Calms \/ UNCHANGED vars
        <3>1. UNCHANGED <<m_SendSerialNo, call, srvSck, serving, served, answered>>
            BY <2>2 DEF Calms, vars, clientVars, serverVars, historyVars
        <3>2. QED
            BY <3>1 DEF AbstractService!vars, StageOf, Calling
    <2>3. ASSUME NEW t \in Threads, Ends(t) PROVE AbstractService!Next
        BY <1>3, <2>1, <2>3, EndImplements
    <2>4. ASSUME NEW t \in Threads,
                 PackageSendHeader(t) \/ DoMethodCallTransaction(t) \/ SendTo(t) \/ RecvOther(t)
          PROVE  [AbstractService!Next]_(AbstractService!vars)
        BY <1>3, <2>1, <2>4, CallerImplements
    <2>5. CASE ServiceSteps
        BY <1>3, <2>5, ServiceImplements
    <2>6. QED
        BY <1>3, <2>2, <2>3, <2>4, <2>5 DEF Next, Transaction, Service, Ends, ServiceSteps
<1>4. QED
    BY <1>1, <1>2, <1>3, CallsInv, LastStep, OnceStep, PTL
       DEF Spec, ImplementsCallService, AbstractService!Spec

=============================================================================
