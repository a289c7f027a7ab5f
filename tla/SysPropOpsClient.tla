-------------------------- MODULE SysPropOpsClient --------------------------
(***************************************************************************)
(* The calls of the property service (SysBaseSrv/SysPropOpsClient.cpp and  *)
(* the datagram side of SysBaseSrv.cpp).                                   *)
(*                                                                         *)
(* The threads of a process share one client object: one socket, one       *)
(* serial number, one mutex.  A call packages its header, with the mutex   *)
(* held only while the serial number is taken; takes the mutex again for   *)
(* the transaction; sends its datagram and waits for the reply.  The       *)
(* service handles one datagram at a time.  A call that gives up leaves    *)
(* its request or its reply behind, for the next call to find.             *)
(*                                                                         *)
(* A request and its reply are the serial number they carry, which names   *)
(* the call; it does not wrap within MaxCalls.                             *)
(***************************************************************************)
EXTENDS Naturals, Sequences

CONSTANTS
    Threads,    \* threads of one process that use the client object
    Nobody,
    MaxCalls,   \* bound on the calls of all threads
    Faults      \* what goes wrong before the system calms down

ASSUME ConstantsAssumption ==
    /\ Nobody \notin Threads
    /\ MaxCalls \in Nat
    /\ Faults \subseteq {"slow", "signal", "restart"}

Serials == 0 .. MaxCalls

VARIABLES
    m_SendSerialNo,
    m_SharedDataMutex,  \* the thread in a transaction, or Nobody
    call,       \* of each thread: where it is, its serial number, whether a datagram that
                \* was not the reply moved the read offset of its buffer, and whether it may
                \* have waited four seconds for the mutex
    srvSck,     \* requests in the socket of the service
    serving,    \* the request the service has taken, 0 when it waits for one
    srvUp,      \* the service runs
    commSck,    \* replies in the socket of the process
    served,     \* requests that were carried out
    answered,   \* the calls that returned with a reply, undisturbed by another thread
    settled,    \* the calls that had returned when the last of these did
    calm,       \* nothing goes wrong any more
    failures    \* calls that failed in the calm, and not because of another thread

clientVars == <<m_SendSerialNo, m_SharedDataMutex, call>>
serverVars == <<srvSck, serving, srvUp, served>>
historyVars == <<answered, settled, calm, failures>>
vars == <<clientVars, serverVars, commSck, historyVars>>

NoCall == [pc |-> "idle", serial |-> 0, moved |-> FALSE, late |-> FALSE]

Init ==
    /\ m_SendSerialNo = 0
    /\ m_SharedDataMutex = Nobody
    /\ call = [t \in Threads |-> NoCall]
    /\ srvSck = <<>>
    /\ serving = 0
    /\ srvUp = TRUE
    /\ commSck = <<>>
    /\ served = {}
    /\ answered = {}
    /\ settled = {}
    /\ calm = FALSE
    /\ failures = 0

May(fault) == fault \in Faults /\ ~calm

-----------------------------------------------------------------------------
(* A call: set, get, del or getCount.                                      *)

PackageSendHeader(t) ==
    /\ call[t].pc = "idle"
    /\ m_SendSerialNo < MaxCalls
    /\ m_SharedDataMutex = Nobody
    /\ m_SendSerialNo' = m_SendSerialNo + 1
    /\ call' = [call EXCEPT ![t] = [pc |-> "packaged", serial |-> m_SendSerialNo + 1,
                                    moved |-> FALSE, late |-> FALSE]]
    /\ UNCHANGED <<m_SharedDataMutex, serverVars, commSck, historyVars>>

\* Mutant of DoMethodCallTransaction: the mutex is not taken again for the transaction.
DoMethodCallUnlocked(t) ==
    /\ call[t].pc = "packaged"
    /\ m_SharedDataMutex' = t
    /\ call' = [call EXCEPT ![t].pc = "send"]
    /\ UNCHANGED <<m_SendSerialNo, serverVars, commSck, historyVars>>

DoMethodCallTransaction(t) ==
    /\ call[t].pc = "packaged"
    /\ m_SharedDataMutex = Nobody
    /\ m_SharedDataMutex' = t
    /\ call' = [call EXCEPT ![t].pc = "send"]
    /\ UNCHANGED <<m_SendSerialNo, serverVars, commSck, historyVars>>

\* A call that returns late kept the others waiting, whose four seconds had begun.
After(t, late) ==
    [u \in Threads |-> IF u = t THEN NoCall
                       ELSE [call[u] EXCEPT !.late = @ \/ (late /\ call[u].pc = "packaged")]]

\* Another thread packaged a call since, or made this one wait behind its own late call.
Disturbed(t) == call[t].serial < m_SendSerialNo \/ call[t].late

\* Mutant of Return: the mutex is kept when the call fails.
ReturnLocked(t, ok, late) ==
    /\ m_SharedDataMutex' = IF ok THEN Nobody ELSE m_SharedDataMutex
    /\ call' = After(t, late)
    /\ answered' = IF ok /\ ~Disturbed(t) THEN answered \cup {call[t].serial} ELSE answered
    /\ settled' = IF ok /\ ~Disturbed(t)
                     THEN 1 .. m_SendSerialNo \ {call[u].serial : u \in Threads \ {t}} ELSE settled
    /\ failures' = IF ok \/ ~calm \/ Disturbed(t) THEN failures ELSE failures + 1
    /\ UNCHANGED <<m_SendSerialNo, serverVars, calm>>

\* The call returns and its buffer with it.
Return(t, ok, late) ==
    /\ m_SharedDataMutex' = Nobody
    /\ call' = After(t, late)
    /\ answered' = IF ok /\ ~Disturbed(t) THEN answered \cup {call[t].serial} ELSE answered
    /\ settled' = IF ok /\ ~Disturbed(t)
                     THEN 1 .. m_SendSerialNo \ {call[u].serial : u \in Threads \ {t}} ELSE settled
    /\ failures' = IF ok \/ ~calm \/ Disturbed(t) THEN failures ELSE failures + 1
    /\ UNCHANGED <<m_SendSerialNo, serverVars, calm>>

SendTo(t) ==
    /\ call[t].pc = "send"
    /\ srvUp
    /\ srvSck' = Append(srvSck, call[t].serial)
    /\ call' = [call EXCEPT ![t].pc = "recv"]
    /\ UNCHANGED <<m_SendSerialNo, m_SharedDataMutex, serving, srvUp, served, commSck, historyVars>>

\* No service, a socket of the service that stays full for three seconds, or a signal.
SendFails(t) ==
    /\ call[t].pc = "send"
    /\ ~srvUp \/ May("slow") \/ May("signal")
    /\ Return(t, FALSE, FALSE)
    /\ UNCHANGED commSck

\* Mutant of IsReply: the serial number is not compared.
IsAnyReply(t, serial) == ~call[t].moved

\* The bytes read for the type and the serial number of a datagram that is not the reply are
\* not given back: whatever comes after it is read at the wrong offset.  The serial number
\* is compared with that of the call packaged last.
IsReply(t, serial) == ~call[t].moved /\ serial = m_SendSerialNo

RecvReply(t) ==
    /\ call[t].pc = "recv"
    /\ commSck # <<>>
    /\ IsReply(t, Head(commSck))
    /\ commSck' = Tail(commSck)
    /\ Return(t, TRUE, FALSE)

\* Mutant of RecvOther: the first datagram that is not the reply ends the call.
RecvOtherGivesUp(t) ==
    /\ call[t].pc = "recv"
    /\ commSck # <<>>
    /\ ~IsReply(t, Head(commSck))
    /\ commSck' = Tail(commSck)
    /\ Return(t, FALSE, FALSE)

RecvOther(t) ==
    /\ call[t].pc = "recv"
    /\ commSck # <<>>
    /\ ~IsReply(t, Head(commSck))
    /\ commSck' = Tail(commSck)
    /\ call' = [call EXCEPT ![t].moved = TRUE]
    /\ UNCHANGED <<m_SendSerialNo, m_SharedDataMutex, serverVars, historyVars>>

\* Four seconds after the call began to wait for the mutex, a datagram that is not the reply ends it.
RecvOtherLate(t) ==
    /\ call[t].pc = "recv"
    /\ May("slow") \/ call[t].late
    /\ commSck # <<>>
    /\ ~IsReply(t, Head(commSck))
    /\ commSck' = Tail(commSck)
    /\ Return(t, FALSE, FALSE)

\* A service that is not slow answers everything it was sent within four seconds.
Outstanding == srvSck # <<>> \/ serving # 0

RecvTimesOut(t) ==
    /\ call[t].pc = "recv"
    /\ commSck = <<>>
    /\ Outstanding => May("slow")
    /\ Return(t, FALSE, TRUE)
    /\ UNCHANGED commSck

\* A socket with a timeout is not read on after a signal: QMediaSrv::Stop sends one to the
\* thread of the player, which may be in a call.
RecvInterrupted(t) ==
    /\ call[t].pc = "recv"
    /\ May("signal")
    /\ Return(t, FALSE, FALSE)
    /\ UNCHANGED commSck

-----------------------------------------------------------------------------
(* The service.                                                            *)

OnSrvSckRead ==
    /\ srvUp
    /\ serving = 0
    /\ srvSck # <<>>
    /\ serving' = Head(srvSck)
    /\ srvSck' = Tail(srvSck)
    /\ UNCHANGED <<clientVars, srvUp, served, commSck, historyVars>>

\* The property is set, read or deleted, and the reply is sent.
OnMethodCall ==
    /\ serving \notin served \cup {0}
    /\ served' = served \cup {serving}
    /\ UNCHANGED <<clientVars, serving, srvSck, srvUp, commSck, historyVars>>

\* Mutant of SendReply: the reply carries another serial number.
SendReplyNext ==
    /\ serving \in served
    /\ commSck' = Append(commSck, serving + 1)
    /\ serving' = 0
    /\ UNCHANGED <<clientVars, srvSck, srvUp, served, historyVars>>

SendReply ==
    /\ serving \in served
    /\ commSck' = Append(commSck, serving)
    /\ serving' = 0
    /\ UNCHANGED <<clientVars, srvSck, srvUp, served, historyVars>>

\* The service stops or dies with what is in its socket, and is started again.
SrvDies ==
    /\ May("restart")
    /\ srvUp
    /\ srvUp' = FALSE
    /\ srvSck' = <<>>
    /\ serving' = 0
    /\ UNCHANGED <<clientVars, served, commSck, historyVars>>

SrvStarts ==
    /\ ~srvUp
    /\ srvUp' = TRUE
    /\ UNCHANGED <<clientVars, srvSck, serving, served, commSck, historyVars>>

\* From here on the service is up and prompt and no signal comes.  What earlier calls left
\* behind is still there.
Calms ==
    /\ ~calm
    /\ srvUp
    /\ \A t \in Threads : call[t].pc = "idle"
    /\ calm' = TRUE
    /\ UNCHANGED <<clientVars, serverVars, commSck, answered, settled, failures>>

-----------------------------------------------------------------------------
Transaction(t) ==
    \/ DoMethodCallTransaction(t)
    \/ SendTo(t) \/ SendFails(t)
    \/ RecvReply(t) \/ RecvOther(t) \/ RecvOtherLate(t) \/ RecvTimesOut(t) \/ RecvInterrupted(t)
Service == OnSrvSckRead \/ OnMethodCall \/ SendReply

Next ==
    \/ \E t \in Threads : PackageSendHeader(t) \/ Transaction(t)
    \/ Service
    \/ SrvDies \/ SrvStarts
    \/ Calms

Spec == Init /\ [][Next]_vars

\* A thread in a call and a service that is up take their steps.  A service that is down is
\* not assumed to come back.
FairSpec ==
    /\ Spec
    /\ \A t \in Threads : SF_vars(Transaction(t))
    /\ WF_vars(Service)

-----------------------------------------------------------------------------
(* Properties.                                                             *)

CallTypeOK ==
    /\ m_SendSerialNo \in Serials
    /\ m_SharedDataMutex \in Threads \cup {Nobody}
    /\ call \in [Threads -> [pc : {"idle", "packaged", "send", "recv"}, serial : Serials,
                             moved : BOOLEAN, late : BOOLEAN]]

SocketTypeOK ==
    /\ srvSck \in Seq(Serials)
    /\ serving \in Serials
    /\ srvUp \in BOOLEAN
    /\ commSck \in Seq(Serials)

HistoryTypeOK ==
    /\ served \subseteq Serials
    /\ answered \subseteq Serials
    /\ settled \subseteq Serials
    /\ calm \in BOOLEAN
    /\ failures \in Nat

\* Types: the sockets hold serial numbers of calls, and a call is in one of its places.
TypeOK == CallTypeOK /\ SocketTypeOK /\ HistoryTypeOK

\* A call that returned with an answer was carried out by the service: a reply that an earlier
\* call left behind is not taken for its own.  (A call that another thread overtook takes
\* the late reply to that thread's call for its own.)
AnswerWasServed == answered \subseteq served

\* Once a call was answered, no call that had failed before is carried out any more: a value
\* that was set is not overwritten by a set that its caller had given up.
NothingIsServedLate == [][(served' \ served) \cap settled = {}]_vars

\* When nothing goes wrong any more, at most one call of the process fails for what its
\* earlier calls left behind in the sockets.  All other failures are those of a call that
\* another thread overtook (the reply is compared with the serial number packaged last,
\* not with the call's own) or kept waiting.
OneFailureAfterCalm == failures <= 1

-----------------------------------------------------------------------------
(* The abstract service.                                                   *)

Calling(places) == {call[t].serial : t \in {u \in Threads : call[u].pc \in places}}

\* A call is sent until it returns, and open until it is sent.
StageOf(n) ==
    IF n > m_SendSerialNo THEN "new"
    ELSE IF n \in Calling({"recv"}) THEN "sent"
    ELSE IF n \in Calling({"packaged", "send"}) THEN "open"
    ELSE "over"

AbstractService == INSTANCE CallService WITH
    Calls <- 1 .. MaxCalls,
    stage <- [n \in 1 .. MaxCalls |-> StageOf(n)],
    todo <- srvSck,
    hand <- {serving} \ (served \cup {0})

\* The datagrams carry calls to a service: one request at a time is waited for, each is carried
\* out once and in order or never, and a call that no other thread disturbed has its answer
\* when its request was carried out and none is left behind it (lines 685-781).
ImplementsCallService == AbstractService!Spec

-----------------------------------------------------------------------------
(* Liveness, under FairSpec.                                               *)

\* Every call returns, whatever happens to the service.
CallsReturn == \A t \in Threads : call[t].pc # "idle" ~> call[t].pc = "idle"

=============================================================================
