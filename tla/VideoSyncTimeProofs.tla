------------------------- MODULE VideoSyncTimeProofs --------------------------
(***************************************************************************)
(* VideoSyncTime for any number of slaves, of rounds and of faults.        *)
(***************************************************************************)
EXTENDS VideoSyncTime, TLAPS

-----------------------------------------------------------------------------
(* Types.                                                                  *)

\* What a slave keeps.
LEMMA StateType ==
    ASSUME NEW sync \in BOOLEAN, NEW followUp \in BOOLEAN, NEW req \in BOOLEAN,
           NEW t \in [A : Times, B : Times, C : Times, D : {Zero}]
    PROVE  State(sync, followUp, req, t) \in SlaveState
BY DEF State, SlaveState

\* What a message is made of.
LEMMA MessageHas ==
    ASSUME NEW m \in Messages
    PROVE  /\ m.cmd \in {"Sync", "Follow_Up", "Delay_Req", "Resp"} /\ m.slave \in Slaves
           /\ m.exchange \in Exchanges /\ m.time \in Times
           /\ m.exchange \in Times /\ m.exchange # Zero
<1>1. m.exchange.round # 0 /\ m.exchange \in Exchanges
    BY DEF Messages, Exchanges
<1>2. m.exchange # Zero
    BY <1>1 DEF Zero
<1>3. QED
    BY <1>1, <1>2 DEF Messages, Times

LEMMA MessageIs ==
    ASSUME NEW cmd \in {"Sync", "Follow_Up", "Delay_Req", "Resp"}, NEW s \in Slaves,
           NEW e \in Exchanges, NEW t \in Times
    PROVE  /\ Message(cmd, s, e, t) \in Messages
           /\ Message(cmd, s, e, t).cmd = cmd /\ Message(cmd, s, e, t).slave = s
           /\ Message(cmd, s, e, t).exchange = e /\ Message(cmd, s, e, t).time = t
BY DEF Message, Messages

\* The exchange the thread is at.
LEMMA ThisIs ==
    ASSUME round \in 1 .. MaxRounds, NEW s \in Slaves
    PROVE  ThisExchange(s) \in Exchanges /\ ThisExchange(s) \in Times
           /\ ThisExchange(s).round = round /\ ThisExchange(s).slave = s
BY DEF ThisExchange, Exchanges, Times

\* What is there before the first exchange.
LEMMA ZeroIs ==
    /\ Zero \in Times /\ NoTimes \in [A : Times, B : Times, C : Times, D : {Zero}]
    /\ NoTimes \in [A : Times, B : Times, C : Times, D : Times]
    /\ Idle \in SlaveState /\ 1 \in Slaves
<1>1. Zero \in Times
    BY DEF Times
<1>2. NoTimes \in [A : Times, B : Times, C : Times, D : {Zero}]
    BY <1>1 DEF NoTimes
<1>3. NoTimes \in [A : Times, B : Times, C : Times, D : Times]
    BY <1>1 DEF NoTimes
<1>4. 1 \in Slaves
    BY ConstantsAssumption DEF Slaves
<1>5. QED
    BY <1>1, <1>2, <1>3, <1>4, StateType DEF Idle

\* Something that goes wrong is counted.
LEMMA MishapType ==
    ASSUME HistoryTypeOK, NEW s \in Slaves, Mishap(s)
    PROVE  /\ mishaps' \in [Slaves -> 0 .. 2] /\ mishaps'[s] # 0
           /\ \A x \in Slaves : mishaps'[x] = 0 => mishaps[x] = 0
           /\ calm' \in BOOLEAN /\ faults' \in 0 .. MaxFaults
<1>1. /\ mishaps \in [Slaves -> 0 .. 2] /\ faults \in 0 .. MaxFaults
      /\ mishaps' = [mishaps EXCEPT ![s] = OneMore(mishaps[s])]
      /\ calm' = FALSE /\ faults < MaxFaults /\ faults' = faults + 1
    BY DEF Mishap, Fault, HistoryTypeOK
<1>2. OneMore(mishaps[s]) \in 1 .. 2
    BY <1>1 DEF OneMore
<1>3. mishaps' \in [Slaves -> 0 .. 2] /\ mishaps'[s] = OneMore(mishaps[s])
    BY <1>1, <1>2
<1>4. \A x \in Slaves : x # s => mishaps'[x] = mishaps[x]
    BY <1>1
<1>5. mishaps'[s] # 0
    BY <1>2, <1>3
<1>6. faults' \in 0 .. MaxFaults
    BY <1>1, ConstantsAssumption
<1>7. QED
    BY <1>1, <1>3, <1>4, <1>5, <1>6

\* The thread of the master.
LEMMA ProtocolType ==
    ASSUME TypeOK, Protocol
    PROVE  TypeOK'
<1>a. MasterTypeOK /\ SlaveTypeOK /\ net \subseteq Messages /\ HistoryTypeOK
    BY DEF TypeOK
<1>b. /\ round \in Nat /\ round \in 0 .. MaxRounds /\ thread.slave \in Slaves
      /\ thread \in [at : {"idle", "sync", "followUp"}, slave : Slaves]
    BY <1>a, ConstantsAssumption DEF MasterTypeOK
<1> USE DEF masterVars, slaveVars, history
<1>1. CASE PrecisionSync
    <2>1. round' \in 0 .. MaxRounds /\ round' > 0
        BY <1>1, <1>b, ConstantsAssumption DEF PrecisionSync
    <2>2. thread' \in [at : {"idle", "sync", "followUp"}, slave : Slaves]
        BY <1>1, ZeroIs DEF PrecisionSync
    <2>3. MasterTypeOK'
        BY <1>1, <1>a, <2>1, <2>2 DEF PrecisionSync, MasterTypeOK
    <2>4. SlaveTypeOK' /\ net' \subseteq Messages
        BY <1>1, <1>a DEF PrecisionSync, SlaveTypeOK
    <2>5. HistoryTypeOK'
        BY <1>1, <1>a DEF PrecisionSync, HistoryTypeOK
    <2>6. QED
        BY <2>3, <2>4, <2>5 DEF TypeOK
<1>c. thread.at # "idle" => round \in 1 .. MaxRounds
    BY <1>a, <1>b, ConstantsAssumption DEF MasterTypeOK
<1>d. ThreadAfter(thread.slave) \in [at : {"idle", "sync", "followUp"}, slave : Slaves]
    BY <1>b, ConstantsAssumption DEF ThreadAfter, Slaves
<1>e. Fault => faults' \in 0 .. MaxFaults
    BY <1>a, ConstantsAssumption DEF Fault, HistoryTypeOK
<1>2. CASE SendSync
    <2>1. ThisExchange(thread.slave) \in Exchanges /\ ThisExchange(thread.slave) \in Times
        BY <1>2, <1>b, <1>c, ThisIs DEF SendSync
    <2>2. thread' \in [at : {"idle", "sync", "followUp"}, slave : Slaves]
        BY <1>2, <1>b DEF SendSync
    <2>3. MasterTypeOK'
        BY <1>2, <1>a, <1>c, <2>1, <2>2, <1>b DEF SendSync, MasterTypeOK
    <2>4. net' \subseteq Messages
        BY <1>2, <1>a, <1>b, <2>1, ZeroIs, MessageIs DEF SendSync
    <2>5. QED
        BY <1>2, <1>a, <2>3, <2>4 DEF SendSync, TypeOK, SlaveTypeOK, HistoryTypeOK
<1>3. CASE SendFollowUp
    <2>1. ThisExchange(thread.slave) \in Exchanges
        BY <1>3, <1>b, <1>c, ThisIs DEF SendFollowUp
    <2>2. uTimestampA \in Times
        BY <1>a DEF MasterTypeOK
    <2>3. MasterTypeOK'
        BY <1>3, <1>a, <1>b, <1>c, <1>d, ZeroIs DEF SendFollowUp, MasterTypeOK
    <2>4. net' \subseteq Messages
        BY <1>3, <1>a, <1>b, <2>1, <2>2, MessageIs DEF SendFollowUp
    <2>5. HistoryTypeOK'
        BY <1>3, <1>a, <1>e DEF SendFollowUp, HistoryTypeOK
    <2>6. QED
        BY <1>3, <1>a, <2>3, <2>4, <2>5 DEF SendFollowUp, TypeOK, SlaveTypeOK
<1>4. CASE ThreadBreaks
    <2>1. thread' \in [at : {"idle", "sync", "followUp"}, slave : Slaves] /\ thread'.at = "idle"
        BY <1>4, ZeroIs DEF ThreadBreaks, ThreadGivesUp
    <2>2. uTimestampA' \in Times
        BY <1>4, <1>a, <1>b, <1>c, ThisIs, ZeroIs DEF ThreadBreaks, MasterTypeOK
    <2>3. MasterTypeOK'
        BY <1>4, <1>a, <2>1, <2>2 DEF ThreadBreaks, MasterTypeOK
    <2>4. HistoryTypeOK'
        BY <1>4, <1>a, <1>b, MishapType DEF ThreadBreaks, HistoryTypeOK
    <2>5. QED
        BY <1>4, <1>a, <2>3, <2>4 DEF ThreadBreaks, TypeOK, SlaveTypeOK
<1>5. QED
    BY <1>1, <1>2, <1>3, <1>4 DEF Protocol

\* What a datagram that is received does: which are taken and which are sent, whether something goes
\* wrong, and what becomes of the slave.
LEMMA OnDelayReqForm ==
    ASSUME NEW m, OnDelayReq(m)
    PROVE  /\ m.cmd = "Delay_Req"
           /\ \/ /\ net' = (net \ {m}) \union {Message("Resp", s, m.exchange, m.exchange) : s \in Slaves}
                 /\ answering' = m.exchange
                 /\ UNCHANGED <<mishaps, calm, faults>>
              \/ net' = net \ {m} /\ UNCHANGED answering /\ Mishap(m.slave)
           /\ UNCHANGED <<round, thread, uTimestampA, slave, offset, seeking, done, late>>
BY DEF OnDelayReq, slaveVars

LEMMA OnSyncForm ==
    ASSUME NEW m, OnSync(m)
    PROVE  /\ m.cmd = "Sync" /\ net' = net \ {m}
           /\ \/ /\ slave' = [slave EXCEPT ![m.slave] =
                        State(TRUE, slave[m.slave].followUp, slave[m.slave].req,
                              [slave[m.slave].t EXCEPT !.B = m.exchange])]
                 /\ UNCHANGED <<mishaps, calm, faults>>
              \/ /\ slave' = [slave EXCEPT ![m.slave] =
                        State(FALSE, slave[m.slave].followUp, slave[m.slave].req,
                              [slave[m.slave].t EXCEPT !.B = Zero])]
                 /\ Mishap(m.slave)
           /\ UNCHANGED <<round, thread, uTimestampA, answering, offset, seeking, done, late>>
BY DEF OnSync, masterVars

LEMMA OnFollowUpForm ==
    ASSUME NEW m, OnFollowUp(m)
    PROVE  /\ m.cmd = "Follow_Up" /\ slave[m.slave].sync /\ m.time # Zero
           /\ \/ /\ slave' = [slave EXCEPT ![m.slave] = State(TRUE, TRUE, TRUE,
                        [A |-> m.time, B |-> slave[m.slave].t.B, C |-> m.exchange, D |-> Zero])]
                 /\ net' = (net \ {m}) \union {Message("Delay_Req", m.slave, m.exchange, Zero)}
                 /\ UNCHANGED <<mishaps, calm, faults>>
              \/ /\ slave' = [slave EXCEPT ![m.slave] = State(TRUE, TRUE, TRUE,
                        [A |-> m.time, B |-> slave[m.slave].t.B, C |-> m.exchange, D |-> Zero])]
                 /\ net' = net \ {m} /\ Mishap(m.slave)
              \/ /\ slave' = [slave EXCEPT ![m.slave] = State(FALSE, FALSE, FALSE,
                        [A |-> m.time, B |-> slave[m.slave].t.B, C |-> Zero, D |-> Zero])]
                 /\ net' = net \ {m} /\ Mishap(m.slave)
           /\ UNCHANGED <<round, thread, uTimestampA, answering, offset, seeking, done, late>>
BY DEF OnFollowUp, masterVars

LEMMA OnFollowUpIgnoredForm ==
    ASSUME NEW m, OnFollowUpIgnored(m)
    PROVE  /\ m.cmd = "Follow_Up" /\ net' = net \ {m}
           /\ \/ UNCHANGED slave
              \/ slave' = [slave EXCEPT ![m.slave] = State(FALSE, FALSE, slave[m.slave].req,
                               [slave[m.slave].t EXCEPT !.A = Zero])]
           /\ UNCHANGED <<round, thread, uTimestampA, answering, offset, seeking, history>>
BY DEF OnFollowUpIgnored, masterVars

LEMMA OnRespForm ==
    ASSUME NEW m, OnResp(m)
    PROVE  /\ m.cmd = "Resp" /\ net' = net \ {m}
           /\ \/ /\ ~slave[m.slave].req /\ UNCHANGED <<slave, offset, seeking, done, mishaps, faults>>
              \/ /\ slave[m.slave].req
                 /\ slave' = [slave EXCEPT ![m.slave] = Idle]
                 /\ \/ offset' = [offset EXCEPT ![m.slave] = [slave[m.slave].t EXCEPT !.D = m.time]]
                    \/ offset' = offset
                 /\ seeking' \in {seeking, [seeking EXCEPT ![m.slave] = "seeking"]}
                 /\ mishaps' = [mishaps EXCEPT ![m.slave] = 0]
                 /\ done' \in {done, done \union {m.slave}}
                 /\ faults' = faults \/ Fault
           /\ UNCHANGED <<round, thread, uTimestampA, answering, calm, late>>
BY DEF OnResp, SyncTimeCalculate, masterVars

\* The datagrams.
LEMMA ReceiveType ==
    ASSUME TypeOK, NEW m \in net, Receive(m)
    PROVE  TypeOK'
<1>a. MasterTypeOK /\ SlaveTypeOK /\ net \subseteq Messages /\ HistoryTypeOK
    BY DEF TypeOK
<1>b. /\ m \in Messages /\ m.slave \in Slaves /\ m.exchange \in Exchanges
      /\ m.time \in Times /\ m.exchange \in Times
    BY <1>a, MessageHas
<1>c. slave[m.slave] \in SlaveState
    BY <1>a, <1>b DEF SlaveTypeOK
<1>d. /\ slave[m.slave].sync \in BOOLEAN /\ slave[m.slave].followUp \in BOOLEAN
      /\ slave[m.slave].req \in BOOLEAN
      /\ slave[m.slave].t \in [A : Times, B : Times, C : Times, D : {Zero}]
    BY <1>c DEF SlaveState
<1> USE DEF history
<1>1. CASE OnDelayReq(m)
    <2>1. MasterTypeOK'
        BY <1>a, <1>b, <1>1, OnDelayReqForm DEF MasterTypeOK
    <2>2. SlaveTypeOK'
        BY <1>a, <1>1, OnDelayReqForm DEF SlaveTypeOK
    <2>3. net' \subseteq Messages
        BY <1>a, <1>b, <1>1, OnDelayReqForm, MessageIs
    <2>4. HistoryTypeOK'
        BY <1>a, <1>b, <1>1, OnDelayReqForm, MishapType DEF HistoryTypeOK
    <2>5. QED
        BY <2>1, <2>2, <2>3, <2>4 DEF TypeOK
<1>2. CASE OnSync(m)
    <2>1. MasterTypeOK' /\ net' \subseteq Messages
        BY <1>a, <1>2, OnSyncForm DEF MasterTypeOK
    <2>2. \A time \in Times :
              [slave[m.slave].t EXCEPT !.B = time] \in [A : Times, B : Times, C : Times, D : {Zero}]
        BY <1>d
    <2>3. \A time \in Times, sync \in BOOLEAN :
              State(sync, slave[m.slave].followUp, slave[m.slave].req,
                    [slave[m.slave].t EXCEPT !.B = time]) \in SlaveState
        BY <1>d, <2>2, StateType
    <2>4. SlaveTypeOK'
        <3>1. PICK st \in SlaveState : slave' = [slave EXCEPT ![m.slave] = st]
            BY <1>b, <1>2, <2>3, ZeroIs, OnSyncForm
        <3>2. UNCHANGED <<offset, seeking>>
            BY <1>2, OnSyncForm
        <3>3. QED
            BY <1>a, <1>b, <3>1, <3>2 DEF SlaveTypeOK
    <2>5. HistoryTypeOK'
        BY <1>a, <1>b, <1>2, OnSyncForm, MishapType DEF HistoryTypeOK
    <2>6. QED
        BY <2>1, <2>4, <2>5 DEF TypeOK
<1>3. CASE OnFollowUpIgnored(m)
    <2>1. MasterTypeOK' /\ net' \subseteq Messages /\ HistoryTypeOK'
        BY <1>a, <1>3, OnFollowUpIgnoredForm DEF MasterTypeOK, HistoryTypeOK
    <2>2. [slave[m.slave].t EXCEPT !.A = Zero] \in [A : Times, B : Times, C : Times, D : {Zero}]
        BY <1>d, ZeroIs
    <2>3. State(FALSE, FALSE, slave[m.slave].req, [slave[m.slave].t EXCEPT !.A = Zero]) \in SlaveState
        BY <1>d, <2>2, StateType
    <2>4. SlaveTypeOK'
        <3>1. UNCHANGED <<offset, seeking>>
            BY <1>3, OnFollowUpIgnoredForm
        <3>2. slave' \in [Slaves -> SlaveState]
            BY <1>a, <1>b, <1>3, <2>3, OnFollowUpIgnoredForm, ZenonT(40) DEF SlaveTypeOK
        <3>3. QED
            BY <1>a, <3>1, <3>2 DEF SlaveTypeOK
    <2>5. QED
        BY <2>1, <2>4 DEF TypeOK
<1>4. CASE OnFollowUp(m)
    <2>1. MasterTypeOK'
        BY <1>a, <1>4, OnFollowUpForm DEF MasterTypeOK
    <2>2. net' \subseteq Messages
        <3>1. Message("Delay_Req", m.slave, m.exchange, Zero) \in Messages
            BY <1>b, MessageIs, ZeroIs
        <3>2. QED
            BY <1>a, <1>4, <3>1, OnFollowUpForm
    <2>3. \A C \in Times : [A |-> m.time, B |-> slave[m.slave].t.B, C |-> C, D |-> Zero]
                               \in [A : Times, B : Times, C : Times, D : {Zero}]
        BY <1>b, <1>d
    <2>4. \A C \in Times, b \in BOOLEAN :
              State(b, b, b, [A |-> m.time, B |-> slave[m.slave].t.B, C |-> C, D |-> Zero]) \in SlaveState
        BY <2>3, StateType
    <2>5. SlaveTypeOK'
        <3>1. PICK st \in SlaveState : slave' = [slave EXCEPT ![m.slave] = st]
            BY <1>b, <1>4, <2>4, ZeroIs, OnFollowUpForm
        <3>2. UNCHANGED <<offset, seeking>>
            BY <1>4, OnFollowUpForm
        <3>3. QED
            BY <1>a, <1>b, <3>1, <3>2 DEF SlaveTypeOK
    <2>6. HistoryTypeOK'
        BY <1>a, <1>b, <1>4, OnFollowUpForm, MishapType DEF HistoryTypeOK
    <2>7. QED
        BY <2>1, <2>2, <2>5, <2>6 DEF TypeOK
<1>5. CASE OnResp(m)
    <2>1. MasterTypeOK' /\ net' \subseteq Messages
        BY <1>a, <1>5, OnRespForm DEF MasterTypeOK
    <2>2. [slave[m.slave].t EXCEPT !.D = m.time] \in [A : Times, B : Times, C : Times, D : Times]
        BY <1>b, <1>d
    <2>3. SlaveTypeOK'
        <3>1. slave' \in [Slaves -> SlaveState]
            BY <1>a, <1>b, <1>5, ZeroIs, OnRespForm DEF SlaveTypeOK
        <3>2. offset' \in [Slaves -> [A : Times, B : Times, C : Times, D : Times]]
            BY <1>a, <1>b, <1>5, <2>2, OnRespForm DEF SlaveTypeOK
        <3>3. seeking' \in [Slaves -> {"waiting", "seeking", "failed"}]
            BY <1>a, <1>b, <1>5, OnRespForm DEF SlaveTypeOK
        <3>4. QED
            BY <3>1, <3>2, <3>3 DEF SlaveTypeOK
    <2>4. HistoryTypeOK'
        <3>1. faults' \in 0 .. MaxFaults
            <4>1. faults' = faults \/ Fault
                BY <1>5, OnRespForm
            <4>2. QED
                BY <1>a, <4>1, ConstantsAssumption DEF Fault, HistoryTypeOK
        <3>2. mishaps' \in [Slaves -> 0 .. 2]
            <4>1. mishaps' = mishaps \/ mishaps' = [mishaps EXCEPT ![m.slave] = 0]
                BY <1>5, OnRespForm
            <4>2. QED
                BY <1>a, <4>1 DEF HistoryTypeOK
        <3>3. done' \subseteq Slaves /\ UNCHANGED <<calm, late>>
            <4>1. UNCHANGED <<calm, late>> /\ (done' = done \/ done' \in {done, done \union {m.slave}})
                BY <1>5, OnRespForm
            <4>2. QED
                BY <1>a, <1>b, <4>1 DEF HistoryTypeOK
        <3>4. QED
            BY <1>a, <3>1, <3>2, <3>3 DEF HistoryTypeOK
    <2>5. QED
        BY <2>1, <2>3, <2>4 DEF TypeOK
<1>6. QED
    BY <1>1, <1>2, <1>3, <1>4, <1>5 DEF Receive

\* What becomes of a datagram that is lost.
LEMMA LoseForm ==
    ASSUME NEW m, Lose(m)
    PROVE  /\ net' = net \ {m}
           /\ \/ m.cmd = "Resp" /\ m.exchange.slave # m.slave /\ UNCHANGED <<mishaps, calm, faults>>
              \/ Mishap(m.slave)
           /\ UNCHANGED <<round, thread, uTimestampA, answering, slave, offset, seeking, done, late>>
BY DEF Lose, masterVars, slaveVars

\* Every step keeps the types.
LEMMA TypeStep ==
    ASSUME TypeOK, [Next]_vars
    PROVE  TypeOK'
<1>a. MasterTypeOK /\ SlaveTypeOK /\ net \subseteq Messages /\ HistoryTypeOK
    BY DEF TypeOK
<1>1. CASE MasterForgets
    BY <1>1, <1>a, ZeroIs DEF MasterForgets, TypeOK, MasterTypeOK, SlaveTypeOK, HistoryTypeOK, slaveVars, history
<1>2. ASSUME NEW m \in net, Lose(m) PROVE TypeOK'
    <2>1. m.slave \in Slaves
        BY <1>a, MessageHas
    <2>2. HistoryTypeOK'
        BY <1>2, <1>a, <2>1, LoseForm, MishapType DEF HistoryTypeOK
    <2>3. QED
        BY <1>2, <1>a, <2>2, LoseForm DEF TypeOK, MasterTypeOK, SlaveTypeOK
<1>3. ASSUME NEW s \in Slaves, SeekEnds(s) PROVE TypeOK'
    <2>1. /\ seeking' \in [Slaves -> {"waiting", "seeking", "failed"}]
          /\ UNCHANGED <<slave, offset, round, thread, uTimestampA, answering, net, done, mishaps, calm, late>>
        BY <1>3, <1>a DEF SeekEnds, SlaveTypeOK, masterVars
    <2>2. faults' \in 0 .. MaxFaults
        BY <1>3, <1>a, ConstantsAssumption DEF SeekEnds, Fault, HistoryTypeOK
    <2>3. QED
        BY <1>a, <2>1, <2>2 DEF TypeOK, MasterTypeOK, SlaveTypeOK, HistoryTypeOK
<1>4. CASE UNCHANGED vars
    BY <1>4, <1>a DEF vars, masterVars, slaveVars, history, TypeOK, MasterTypeOK, SlaveTypeOK, HistoryTypeOK
<1>5. QED
    BY <1>1, <1>2, <1>3, <1>4, ProtocolType, ReceiveType DEF Next

\* The time of a Delay_Req is in D only while it is computed with.
THEOREM TypeCorrect == Spec => []TypeOK
<1>1. Init => TypeOK
    <2> SUFFICES ASSUME Init PROVE TypeOK
        OBVIOUS
    <2>1. MasterTypeOK
        BY ZeroIs, ConstantsAssumption DEF Init, MasterTypeOK
    <2>2. State(FALSE, FALSE, TRUE, NoTimes) \in SlaveState
        BY ZeroIs, StateType
    <2>3. SlaveTypeOK
        BY <2>2, ZeroIs DEF Init, SlaveTypeOK
    <2>4. HistoryTypeOK
        <3>1. mishaps \in [Slaves -> 0 .. 2]
            BY DEF Init
        <3>2. 0 \in 0 .. MaxFaults
            BY ConstantsAssumption
        <3>3. QED
            BY <3>1, <3>2 DEF Init, HistoryTypeOK
    <2>5. QED
        BY <2>1, <2>3, <2>4 DEF Init, TypeOK
<1>2. QED
    BY <1>1, TypeStep, PTL DEF Spec

-----------------------------------------------------------------------------
(* What is on the way.                                                     *)

\* The datagrams that come after a Sync.
Later == {m \in net : m.cmd # "Sync"}

\* They are of this round; each carries the time of its exchange, or a Follow_Up none.
NetInv ==
    \A m \in net :
        /\ m.exchange.round = round
        /\ m.cmd # "Resp" => m.exchange.slave = m.slave
        /\ m.cmd = "Resp" => m.time = m.exchange
        /\ m.cmd = "Follow_Up" => m.time \in {Zero, m.exchange}

MasterInv == thread.at = "followUp" => uTimestampA \in {Zero, ThisExchange(thread.slave)}

\* A slave that waits for a Resp, and for which nothing went wrong, will be sent one of its own.
Asked(s) ==
    \E m \in net : m.slave = s /\ m.exchange.slave = s /\ m.cmd \in {"Delay_Req", "Resp"}
AskedInv == \A s \in Slaves : slave[s].req /\ mishaps[s] = 0 => Asked(s)

\* Unless the network is slow: there is one exchange after its Sync, and the Sync of a later one.
OneExchange ==
    /\ \A m, n \in Later :
          m.exchange = n.exchange /\ (m.cmd = "Follow_Up" /\ n.cmd = "Follow_Up" => m = n)
    /\ \A m \in Later : thread.at # "idle" => m.exchange.slave < thread.slave
    /\ \A m \in net : m.cmd = "Sync" =>
          /\ thread.at = "idle" \/ (thread.at = "followUp" /\ thread.slave = m.slave)
          /\ \A n \in Later : n.exchange.slave # m.slave

\* Who reads the Follow_Up has the time of its Sync and waits for no Resp.
BeforeFollowUp ==
    \A m \in net : m.cmd = "Follow_Up" /\ mishaps[m.slave] = 0 =>
        /\ ~slave[m.slave].req
        /\ slave[m.slave].sync => slave[m.slave].t.B = m.exchange

\* So has the slave that the thread is at, once it has read Sync.
AfterSync ==
    LET s == thread.slave IN
    thread.at = "followUp" /\ mishaps[s] = 0 /\ slave[s].sync
      /\ (\A m \in net : m.cmd = "Sync" => m.slave # s) => slave[s].t.B = ThisExchange(s)

\* Who waits for a Resp has the times of its exchange.
BeforeResp ==
    \A s \in Slaves : \A m \in Later : slave[s].req /\ mishaps[s] = 0 =>
        slave[s].t.A = m.exchange /\ slave[s].t.B = m.exchange /\ slave[s].t.C = m.exchange

Prompt == OneExchange /\ BeforeFollowUp /\ AfterSync /\ BeforeResp

TimeInv == NetInv /\ MasterInv /\ AskedInv /\ (~late => Prompt)

\* When nothing is on the way, no undisturbed slave waits for a Resp.
LEMMA NobodyWaits ==
    ASSUME AskedInv, net = {}
    PROVE  \A s \in Slaves : ~(slave[s].req /\ mishaps[s] = 0)
BY DEF AskedInv, Asked

\* The thread of the master.
LEMMA ProtocolTime ==
    ASSUME TypeOK, TypeOK', TimeInv, Protocol
    PROVE  TimeInv'
<1>a. MasterTypeOK /\ SlaveTypeOK /\ net \subseteq Messages /\ HistoryTypeOK
    BY DEF TypeOK
<1>b. thread.slave \in Slaves /\ (thread.at # "idle" => round \in 1 .. MaxRounds)
    BY <1>a, ConstantsAssumption DEF MasterTypeOK
<1>c. NetInv /\ MasterInv /\ AskedInv /\ (~late => Prompt)
    BY DEF TimeInv
<1> USE DEF masterVars, slaveVars, history
<1>1. CASE PrecisionSync
    <2>1. net = {} /\ net' = {} /\ thread'.at = "sync" /\ UNCHANGED <<slave, mishaps>>
        BY <1>1 DEF PrecisionSync, Quiet
    <2>2. AskedInv'
        BY <1>c, <2>1, NobodyWaits DEF AskedInv
    <2>3. QED
        BY <2>1, <2>2 DEF TimeInv, NetInv, MasterInv, Prompt, OneExchange, BeforeFollowUp, AfterSync,
           BeforeResp, Later
<1>2. CASE SendSync
    <2> DEFINE s == thread.slave
               new == Message("Sync", s, ThisExchange(s), Zero)
    <2>1. /\ thread.at = "sync" /\ thread' = [thread EXCEPT !.at = "followUp"]
          /\ uTimestampA' = ThisExchange(s) /\ net' = net \union {new}
          /\ UNCHANGED <<round, slave, mishaps, late>>
        BY <1>2 DEF SendSync
    <2>2. thread'.at = "followUp" /\ thread'.slave = s
        BY <1>a, <2>1 DEF MasterTypeOK
    <2>3. /\ new.cmd = "Sync" /\ new.slave = s /\ new.exchange = ThisExchange(s)
          /\ ThisExchange(s).round = round /\ ThisExchange(s).slave = s
        BY <1>b, <2>1, ThisIs, ZeroIs, MessageIs
    <2>4. Later' = Later
        BY <2>1, <2>3 DEF Later
    <2>5. NetInv'
        BY <1>c, <2>1, <2>3 DEF NetInv
    <2>6. MasterInv'
        BY <2>1, <2>2 DEF MasterInv, ThisExchange
    <2>7. AskedInv'
        BY <1>c, <2>1 DEF AskedInv, Asked
    <2>8. ASSUME ~late PROVE Prompt'
        <3>1. OneExchange /\ BeforeFollowUp /\ BeforeResp
            BY <1>c, <2>8 DEF Prompt
        <3>2. OneExchange'
            <4>1. \A m \in Later : m.exchange.slave < s
                BY <2>1, <3>1 DEF OneExchange
            <4>2. \A m \in Later : m.exchange.slave # s
                <5>1. \A m \in Later : m.exchange.slave \in Nat /\ s \in Nat
                    BY <1>a, <1>b, MessageHas DEF Later, Exchanges, Slaves
                <5>2. QED
                    BY <4>1, <5>1
            <4>3. \A m \in net : m.cmd # "Sync"
                BY <2>1, <3>1 DEF OneExchange
            <4>4. QED
                BY <2>1, <2>2, <2>3, <2>4, <3>1, <4>1, <4>2, <4>3 DEF OneExchange
        <3>3. BeforeFollowUp'
            BY <2>1, <2>3, <3>1 DEF BeforeFollowUp
        <3>4. AfterSync'
            BY <2>1, <2>2, <2>3 DEF AfterSync
        <3>5. BeforeResp'
            BY <2>1, <2>4, <3>1 DEF BeforeResp
        <3>6. QED
            BY <3>2, <3>3, <3>4, <3>5 DEF Prompt
    <2>9. QED
        BY <2>1, <2>5, <2>6, <2>7, <2>8 DEF TimeInv
<1>3. CASE SendFollowUp
    <2> DEFINE s == thread.slave
               new == Message("Follow_Up", s, ThisExchange(s), uTimestampA)
    <2>1. /\ thread.at = "followUp" /\ thread' = ThreadAfter(s) /\ uTimestampA' = Zero
          /\ net' = net \union {new} /\ (late' \/ (late' = late /\ Quiet))
          /\ UNCHANGED <<round, slave, mishaps>>
        BY <1>3 DEF SendFollowUp
    <2>2. /\ new.cmd = "Follow_Up" /\ new.slave = s /\ new.exchange = ThisExchange(s)
          /\ new.time = uTimestampA
          /\ ThisExchange(s).round = round /\ ThisExchange(s).slave = s
        BY <1>a, <1>b, <2>1, ThisIs, MessageIs DEF MasterTypeOK
    <2>3. thread'.at # "followUp" /\ (thread'.at # "idle" => thread'.slave = s + 1)
        BY <2>1 DEF ThreadAfter
    <2>4. NetInv'
        BY <1>c, <2>1, <2>2 DEF NetInv, MasterInv
    <2>5. MasterInv'
        BY <2>3 DEF MasterInv
    <2>6. AskedInv'
        BY <1>c, <2>1 DEF AskedInv, Asked
    <2>7. ASSUME ~late' PROVE Prompt'
        <3>1. ~late /\ net = {} /\ net' = {new} /\ Later' = {new}
            BY <2>1, <2>2, <2>7 DEF Quiet, Later
        <3>2. AfterSync
            BY <1>c, <3>1 DEF Prompt
        <3>3. ~(slave[s].req /\ mishaps[s] = 0)
            BY <1>b, <1>c, <3>1, NobodyWaits
        <3>4. OneExchange'
            <4>1. s \in Nat
                BY <1>b DEF Slaves
            <4>2. QED
                BY <2>2, <2>3, <3>1, <4>1 DEF OneExchange
        <3>5. BeforeFollowUp'
            BY <2>1, <2>2, <3>1, <3>2, <3>3 DEF BeforeFollowUp, AfterSync
        <3>6. AfterSync'
            BY <2>3 DEF AfterSync
        <3>7. BeforeResp'
            BY <1>c, <2>1, <3>1, NobodyWaits DEF BeforeResp
        <3>8. QED
            BY <3>4, <3>5, <3>6, <3>7 DEF Prompt
    <2>8. QED
        BY <2>4, <2>5, <2>6, <2>7 DEF TimeInv
<1>4. CASE ThreadBreaks
    <2>1. thread'.at = "idle" /\ UNCHANGED <<round, slave, net, late>>
        BY <1>4 DEF ThreadBreaks, ThreadGivesUp
    <2>2. \A x \in Slaves : mishaps'[x] = 0 => mishaps[x] = 0
        BY <1>4, <1>a, <1>b, MishapType DEF ThreadBreaks
    <2>3. NetInv' /\ MasterInv' /\ Later' = Later
        BY <1>c, <2>1 DEF NetInv, MasterInv, Later
    <2>4. AskedInv'
        BY <1>c, <2>1, <2>2 DEF AskedInv, Asked
    <2>5. ASSUME ~late PROVE Prompt'
        <3>1. OneExchange /\ BeforeFollowUp /\ BeforeResp
            BY <1>c, <2>5 DEF Prompt
        <3>2. OneExchange' /\ AfterSync'
            BY <2>1, <2>3, <3>1 DEF OneExchange, AfterSync
        <3>3. BeforeFollowUp'
            BY <1>a, <2>1, <2>2, <3>1, MessageHas DEF BeforeFollowUp
        <3>4. BeforeResp'
            BY <2>1, <2>2, <2>3, <3>1 DEF BeforeResp
        <3>5. QED
            BY <3>2, <3>3, <3>4 DEF Prompt
    <2>6. QED
        BY <2>1, <2>3, <2>4, <2>5 DEF TimeInv
<1>5. QED
    BY <1>1, <1>2, <1>3, <1>4 DEF Protocol

\* Datagrams that are taken change nothing of what holds for the others.
LEMMA NetShrinks ==
    ASSUME NetInv, net' \subseteq net, UNCHANGED <<round, thread>>
    PROVE  NetInv' /\ Later' \subseteq Later /\ (OneExchange => OneExchange')
<1>1. NetInv' /\ Later' \subseteq Later
    BY DEF NetInv, Later
<1>2. QED
    BY <1>1 DEF OneExchange

\* A datagram that is gone, with something going wrong for its slave or not.
LEMMA GoneTime ==
    ASSUME TypeOK, TimeInv, NEW m \in net, net' = net \ {m},
           UNCHANGED <<round, thread, uTimestampA, slave, late>>,
           \A x \in Slaves : mishaps'[x] = 0 => mishaps[x] = 0,
           \/ mishaps'[m.slave] # 0
           \/ m.cmd = "Follow_Up"
           \/ m.cmd = "Resp" /\ (m.exchange.slave # m.slave \/ ~slave[m.slave].req)
    PROVE  TimeInv'
<1>a. net \subseteq Messages /\ \A k \in net : k.slave \in Slaves
    BY MessageHas DEF TypeOK
<1>b. thread.slave \in Slaves
    BY DEF TypeOK, MasterTypeOK
<1>c. NetInv /\ MasterInv /\ AskedInv /\ (~late => Prompt)
    BY DEF TimeInv
<1>1. NetInv' /\ Later' \subseteq Later /\ (OneExchange => OneExchange')
    BY <1>c, NetShrinks
<1>2. MasterInv'
    BY <1>c DEF MasterInv, ThisExchange
<1>3. ASSUME NEW x \in Slaves, slave'[x].req, mishaps'[x] = 0 PROVE Asked(x)'
    <2>1. PICK k \in net : k.slave = x /\ k.exchange.slave = x /\ k.cmd \in {"Delay_Req", "Resp"}
        BY <1>c, <1>3 DEF AskedInv, Asked
    <2>2. k # m
        BY <1>3, <2>1
    <2>3. QED
        BY <2>1, <2>2 DEF Asked
<1>4. ASSUME ~late PROVE Prompt'
    <2>1. OneExchange /\ BeforeFollowUp /\ AfterSync /\ BeforeResp
        BY <1>c, <1>4 DEF Prompt
    <2>2. BeforeFollowUp'
        BY <1>a, <2>1 DEF BeforeFollowUp
    <2>3. AfterSync'
        <3>1. m.cmd = "Sync" => mishaps'[m.slave] # 0
            OBVIOUS
        <3>2. QED
            BY <1>b, <2>1, <3>1 DEF AfterSync, ThisExchange
    <2>4. BeforeResp'
        BY <1>1, <2>1 DEF BeforeResp
    <2>5. QED
        BY <1>1, <2>1, <2>2, <2>3, <2>4 DEF Prompt
<1>5. QED
    BY <1>1, <1>2, <1>3, <1>4 DEF TimeInv, AskedInv

\* A Delay_Req that is answered.
LEMMA AnswerTime ==
    ASSUME TypeOK, TimeInv, NEW m \in net, m.cmd = "Delay_Req",
           net' = (net \ {m}) \union {Message("Resp", s, m.exchange, m.exchange) : s \in Slaves},
           UNCHANGED <<round, thread, uTimestampA, slave, mishaps, late>>
    PROVE  TimeInv'
<1>a. net \subseteq Messages /\ m.exchange \in Exchanges /\ m.exchange \in Times
    BY MessageHas DEF TypeOK
<1>b. NetInv /\ MasterInv /\ AskedInv /\ (~late => Prompt)
    BY DEF TimeInv
<1> DEFINE resps == {Message("Resp", s, m.exchange, m.exchange) : s \in Slaves}
<1>1. \A k \in resps : k.cmd = "Resp" /\ k.exchange = m.exchange /\ k.time = m.exchange
    BY <1>a, MessageIs
<1>2. NetInv'
    BY <1>b, <1>1 DEF NetInv
<1>3. MasterInv'
    BY <1>b DEF MasterInv, ThisExchange
<1>4. ASSUME NEW x \in Slaves, slave'[x].req, mishaps'[x] = 0 PROVE Asked(x)'
    <2>1. PICK k \in net : k.slave = x /\ k.exchange.slave = x /\ k.cmd \in {"Delay_Req", "Resp"}
        BY <1>b, <1>4 DEF AskedInv, Asked
    <2>2. CASE k # m
        BY <2>1, <2>2 DEF Asked
    <2>3. CASE k = m
        <3>1. Message("Resp", x, m.exchange, m.exchange) \in net'
            BY <1>4
        <3>2. QED
            BY <1>a, <1>4, <2>1, <2>3, <3>1, MessageIs DEF Asked
    <2>4. QED
        BY <2>2, <2>3
<1>5. ASSUME ~late PROVE Prompt'
    <2>1. OneExchange /\ BeforeFollowUp /\ AfterSync /\ BeforeResp
        BY <1>b, <1>5 DEF Prompt
    <2>2. \A k \in Later' : k \in Later \/ (k \in resps /\ k.exchange = m.exchange)
        BY <1>1 DEF Later
    <2>3. m \in Later /\ (\A k \in net' : k.cmd # "Resp" => k \in net)
        BY <1>1 DEF Later
    <2>4. OneExchange'
        <3>1. \A k \in Later' : \E n \in Later : k.exchange = n.exchange
            BY <2>2, <2>3
        <3>2. \A k \in Later' : k.cmd = "Follow_Up" => k \in Later
            BY <1>1, <2>2
        <3>3. QED
            BY <2>1, <2>3, <3>1, <3>2 DEF OneExchange
    <2>5. BeforeFollowUp'
        BY <2>1, <2>3 DEF BeforeFollowUp
    <2>6. AfterSync'
        BY <2>1 DEF AfterSync, ThisExchange
    <2>7. BeforeResp'
        BY <2>1, <2>2, <2>3 DEF BeforeResp
    <2>8. QED
        BY <2>4, <2>5, <2>6, <2>7 DEF Prompt
<1>6. QED
    BY <1>2, <1>3, <1>4, <1>5 DEF TimeInv, AskedInv

\* A Sync.
LEMMA SyncTime ==
    ASSUME TypeOK, TimeInv, NEW m \in net, OnSync(m)
    PROVE  TimeInv'
<1> DEFINE s == m.slave
<1>a. net \subseteq Messages /\ s \in Slaves /\ m.exchange \in Exchanges /\ m.exchange.slave = s
      /\ m.exchange.round = round /\ m.cmd = "Sync"
    BY MessageHas, OnSyncForm DEF TypeOK, TimeInv, NetInv
<1>b. NetInv /\ MasterInv /\ AskedInv /\ (~late => Prompt)
    BY DEF TimeInv
<1>c. slave \in [Slaves -> SlaveState] /\ mishaps \in [Slaves -> 0 .. 2]
    BY DEF TypeOK, SlaveTypeOK, HistoryTypeOK
<1>1. net' = net \ {m} /\ UNCHANGED <<round, thread, uTimestampA, late>>
    BY OnSyncForm
<1>2. /\ slave'[s].req = slave[s].req
      /\ (slave'[s].sync /\ slave'[s].t.B = m.exchange) \/ mishaps'[s] # 0
      /\ \A x \in Slaves : mishaps'[x] = 0 => mishaps[x] = 0
      /\ \A x \in Slaves \ {s} : slave'[x] = slave[x]
    <2>1. CASE slave' = [slave EXCEPT ![s] = State(TRUE, slave[s].followUp, slave[s].req,
                                                   [slave[s].t EXCEPT !.B = m.exchange])]
               /\ UNCHANGED mishaps
        <3>1. slave[s].t \in [A : Times, B : Times, C : Times, D : {Zero}]
            BY <1>a, <1>c DEF SlaveState
        <3>2. slave'[s] = State(TRUE, slave[s].followUp, slave[s].req, [slave[s].t EXCEPT !.B = m.exchange])
            BY <1>a, <1>c, <2>1
        <3>3. [slave[s].t EXCEPT !.B = m.exchange].B = m.exchange
            BY <3>1
        <3>4. /\ slave'[s].sync /\ slave'[s].req = slave[s].req
              /\ slave'[s].t = [slave[s].t EXCEPT !.B = m.exchange]
            BY <3>2 DEF State
        <3>5. slave'[s].t.B = m.exchange
            BY <3>3, <3>4
        <3>6. mishaps' = mishaps /\ \A x \in Slaves \ {s} : slave'[x] = slave[x]
            BY <1>c, <2>1
        <3>7. QED
            BY <3>4, <3>5, <3>6
    <2>2. CASE slave' = [slave EXCEPT ![s] = State(FALSE, slave[s].followUp, slave[s].req,
                                                   [slave[s].t EXCEPT !.B = Zero])]
               /\ Mishap(s)
        <3>1. mishaps'[s] # 0 /\ \A x \in Slaves : mishaps'[x] = 0 => mishaps[x] = 0
            BY <1>a, <2>2, MishapType DEF TypeOK
        <3>2. slave'[s] = State(FALSE, slave[s].followUp, slave[s].req, [slave[s].t EXCEPT !.B = Zero])
            BY <1>a, <1>c, <2>2
        <3>3. QED
            BY <1>c, <2>2, <3>1, <3>2 DEF State
    <2>3. QED
        BY <2>1, <2>2, OnSyncForm
<1>3. NetInv' /\ Later' = Later /\ (OneExchange => OneExchange')
    BY <1>a, <1>b, <1>1, NetShrinks DEF Later
<1>4. MasterInv'
    BY <1>b, <1>1 DEF MasterInv, ThisExchange
<1>5. ASSUME NEW x \in Slaves, slave'[x].req, mishaps'[x] = 0 PROVE Asked(x)'
    <2>1. PICK k \in net : k.slave = x /\ k.exchange.slave = x /\ k.cmd \in {"Delay_Req", "Resp"}
        BY <1>b, <1>2, <1>5 DEF AskedInv, Asked
    <2>2. QED
        BY <1>a, <1>1, <2>1 DEF Asked
<1>6. ASSUME ~late PROVE Prompt'
    <2>1. OneExchange /\ BeforeFollowUp /\ AfterSync /\ BeforeResp
        BY <1>b, <1>6 DEF Prompt
    <2>2. \A n \in Later : n.exchange.slave # s
        BY <1>a, <2>1 DEF OneExchange
    <2>3. BeforeFollowUp'
        <3>1. \A n \in net : n.cmd = "Follow_Up" => n.slave # s /\ n.slave \in Slaves
            BY <1>a, <1>b, <2>2, MessageHas DEF NetInv, Later
        <3>2. QED
            BY <1>1, <1>2, <2>1, <3>1 DEF BeforeFollowUp
    <2>4. AfterSync'
        <3>1. thread.at = "followUp" => thread.slave = s
            BY <1>a, <2>1 DEF OneExchange
        <3>2. m.exchange = ThisExchange(s)
            BY <1>a DEF ThisExchange, Exchanges
        <3>3. QED
            BY <1>1, <1>2, <3>1, <3>2 DEF AfterSync, ThisExchange
    <2>5. BeforeResp'
        <3>1. ~(slave[s].req /\ mishaps[s] = 0)
            BY <1>a, <1>b, <2>2 DEF AskedInv, Asked, Later
        <3>2. QED
            BY <1>a, <1>2, <1>3, <2>1, <3>1 DEF BeforeResp
    <2>6. QED
        BY <1>3, <2>1, <2>3, <2>4, <2>5 DEF Prompt
<1>7. QED
    BY <1>1, <1>3, <1>4, <1>5, <1>6 DEF TimeInv, AskedInv

\* A Follow_Up that says nothing: the only one on the way.
LEMMA IgnoredTime ==
    ASSUME TypeOK, TimeInv, NEW m \in net, OnFollowUpIgnored(m)
    PROVE  TimeInv'
<1> DEFINE s == m.slave
<1>a. net \subseteq Messages /\ s \in Slaves /\ m.cmd = "Follow_Up" /\ net' = net \ {m}
    BY MessageHas, OnFollowUpIgnoredForm DEF TypeOK
<1>b. NetInv /\ MasterInv /\ AskedInv /\ (~late => Prompt)
    BY DEF TimeInv
<1>c. slave \in [Slaves -> SlaveState]
    BY DEF TypeOK, SlaveTypeOK
<1>1. UNCHANGED <<round, thread, uTimestampA, mishaps, late>>
    BY OnFollowUpIgnoredForm DEF history
<1>2. CASE slave' = slave
    BY <1>1, <1>2, <1>a, GoneTime
<1>3. CASE slave' = [slave EXCEPT ![s] = State(FALSE, FALSE, slave[s].req, [slave[s].t EXCEPT !.A = Zero])]
    <2>1. /\ ~slave'[s].sync /\ slave'[s].req = slave[s].req
          /\ \A x \in Slaves \ {s} : slave'[x] = slave[x]
        BY <1>3, <1>a, <1>c DEF State
    <2>2. NetInv' /\ Later' \subseteq Later /\ (OneExchange => OneExchange')
        BY <1>a, <1>b, <1>1, NetShrinks
    <2>3. MasterInv'
        BY <1>b, <1>1 DEF MasterInv, ThisExchange
    <2>4. ASSUME NEW x \in Slaves, slave'[x].req, mishaps'[x] = 0 PROVE Asked(x)'
        BY <1>a, <1>b, <1>1, <2>1, <2>4 DEF AskedInv, Asked
    <2>5. ASSUME ~late PROVE Prompt'
        <3>1. OneExchange /\ BeforeFollowUp /\ AfterSync /\ BeforeResp
            BY <1>b, <2>5 DEF Prompt
        <3>2. \A n \in net' : n.cmd # "Follow_Up"
            BY <1>a, <3>1 DEF OneExchange, Later
        <3>3. BeforeFollowUp'
            BY <3>2 DEF BeforeFollowUp
        <3>4. AfterSync'
            <4>1. thread.slave \in Slaves
                BY DEF TypeOK, MasterTypeOK
            <4>2. QED
                BY <1>1, <1>a, <2>1, <3>1, <4>1 DEF AfterSync, ThisExchange
        <3>5. BeforeResp'
            <4>1. mishaps[s] = 0 => ~slave[s].req
                BY <1>a, <3>1 DEF BeforeFollowUp
            <4>2. QED
                BY <1>1, <2>1, <2>2, <3>1, <4>1 DEF BeforeResp
        <3>6. QED
            BY <2>2, <3>1, <3>3, <3>4, <3>5 DEF Prompt
    <2>6. QED
        BY <1>1, <2>2, <2>3, <2>4, <2>5 DEF TimeInv, AskedInv
<1>4. QED
    BY <1>2, <1>3, OnFollowUpIgnoredForm

\* A Follow_Up with a time: the slave has the times of the exchange, and asks.
LEMMA FollowUpTime ==
    ASSUME TypeOK, TimeInv, NEW m \in net, OnFollowUp(m)
    PROVE  TimeInv'
<1> DEFINE s == m.slave
           ask == Message("Delay_Req", s, m.exchange, Zero)
<1>a. /\ net \subseteq Messages /\ s \in Slaves /\ m.exchange \in Exchanges /\ m.cmd = "Follow_Up"
      /\ m.exchange.slave = s /\ m.exchange.round = round /\ m.time = m.exchange /\ slave[s].sync
      /\ m.exchange # Zero
    BY MessageHas, OnFollowUpForm DEF TypeOK, TimeInv, NetInv
<1>b. NetInv /\ MasterInv /\ AskedInv /\ (~late => Prompt)
    BY DEF TimeInv
<1>c. slave \in [Slaves -> SlaveState]
    BY DEF TypeOK, SlaveTypeOK
<1>d. ask.cmd = "Delay_Req" /\ ask.slave = s /\ ask.exchange = m.exchange
    BY <1>a, MessageIs, ZeroIs
<1>1. UNCHANGED <<round, thread, uTimestampA, late>>
    BY OnFollowUpForm
<1>2. \A x \in Slaves \ {s} : slave'[x] = slave[x]
    <2>1. PICK st : slave' = [slave EXCEPT ![s] = st]
        BY OnFollowUpForm
    <2>2. QED
        BY <1>c, <2>1
<1>3. /\ \A x \in Slaves : mishaps'[x] = 0 => mishaps[x] = 0
      /\ \/ net' = net \ {m} /\ mishaps'[s] # 0
         \/ /\ net' = (net \ {m}) \union {ask}
            /\ slave'[s].t.A = m.exchange /\ slave'[s].t.B = slave[s].t.B /\ slave'[s].t.C = m.exchange
    <2>1. CASE net' = net \ {m} /\ Mishap(s)
        BY <1>a, <2>1, MishapType DEF TypeOK
    <2>2. CASE /\ slave' = [slave EXCEPT ![s] = State(TRUE, TRUE, TRUE,
                        [A |-> m.time, B |-> slave[s].t.B, C |-> m.exchange, D |-> Zero])]
               /\ net' = (net \ {m}) \union {ask} /\ UNCHANGED mishaps
        <3>1. slave'[s] = State(TRUE, TRUE, TRUE,
                        [A |-> m.time, B |-> slave[s].t.B, C |-> m.exchange, D |-> Zero])
            BY <1>a, <1>c, <2>2
        <3>2. QED
            BY <1>a, <2>2, <3>1 DEF State
    <2>3. QED
        BY <2>1, <2>2, OnFollowUpForm
<1>4. net' \subseteq net \union {ask}
    BY <1>3
<1>5. NetInv'
    BY <1>a, <1>b, <1>d, <1>1, <1>4 DEF NetInv
<1>6. MasterInv'
    BY <1>b, <1>1 DEF MasterInv, ThisExchange
<1>7. ASSUME NEW x \in Slaves, slave'[x].req, mishaps'[x] = 0 PROVE Asked(x)'
    <2>1. CASE x = s
        BY <1>3, <1>7, <1>a, <1>d, <2>1 DEF Asked
    <2>2. CASE x # s
        <3>1. PICK k \in net : k.slave = x /\ k.exchange.slave = x /\ k.cmd \in {"Delay_Req", "Resp"}
            BY <1>b, <1>2, <1>3, <1>7, <2>2 DEF AskedInv, Asked
        <3>2. k \in net'
            BY <1>3, <2>2, <3>1
        <3>3. QED
            BY <3>1, <3>2 DEF Asked
    <2>3. QED
        BY <2>1, <2>2
<1>8. ASSUME ~late PROVE Prompt'
    <2>1. OneExchange /\ BeforeFollowUp /\ AfterSync /\ BeforeResp
        BY <1>b, <1>8 DEF Prompt
    <2>2. m \in Later /\ \A k \in Later' : k \in Later \/ k = ask
        BY <1>4, <1>a DEF Later
    <2>3. \A k \in Later' : k.exchange = m.exchange
        BY <1>d, <2>1, <2>2 DEF OneExchange
    <2>4. \A n \in net' : n.cmd # "Follow_Up" /\ (n.cmd = "Sync" => n \in net)
        BY <1>3, <1>a, <1>d, <2>1 DEF OneExchange, Later
    <2>5. OneExchange'
        BY <1>1, <2>1, <2>2, <2>3, <2>4 DEF OneExchange, Later
    <2>6. BeforeFollowUp'
        BY <2>4 DEF BeforeFollowUp
    <2>7. AfterSync'
        <3>1. thread.slave \in Slaves
            BY DEF TypeOK, MasterTypeOK
        <3>2. thread.at = "followUp" => s < thread.slave
            BY <1>a, <2>1, <2>2 DEF OneExchange
        <3>3. thread.at = "followUp" => thread.slave # s
            BY <1>a, <3>1, <3>2 DEF Slaves
        <3>4. \A n \in net : n.cmd = "Sync" => n \in net'
            BY <1>3, <1>a
        <3>5. QED
            BY <1>1, <1>2, <1>3, <2>1, <3>1, <3>3, <3>4 DEF AfterSync, ThisExchange
    <2>8. BeforeResp'
        <3>1. ASSUME NEW n \in Later', mishaps'[s] = 0
              PROVE  slave'[s].t.A = n.exchange /\ slave'[s].t.B = n.exchange /\ slave'[s].t.C = n.exchange
            <4>1. slave[s].t.B = m.exchange
                BY <1>3, <1>a, <2>1, <3>1 DEF BeforeFollowUp
            <4>2. QED
                BY <1>3, <2>3, <3>1, <4>1
        <3>2. ASSUME NEW x \in Slaves \ {s}, NEW n \in Later', slave'[x].req, mishaps'[x] = 0
              PROVE  slave'[x].t.A = n.exchange /\ slave'[x].t.B = n.exchange /\ slave'[x].t.C = n.exchange
            BY <1>2, <1>3, <2>1, <2>2, <2>3, <3>2 DEF BeforeResp
        <3>3. QED
            BY <3>1, <3>2 DEF BeforeResp
    <2>9. QED
        BY <2>5, <2>6, <2>7, <2>8 DEF Prompt
<1>9. QED
    BY <1>1, <1>5, <1>6, <1>7, <1>8 DEF TimeInv, AskedInv

\* A Resp: a slave that waited for one is idle again.
LEMMA RespTime ==
    ASSUME TypeOK, TimeInv, NEW m \in net, OnResp(m)
    PROVE  TimeInv'
<1> DEFINE s == m.slave
<1>a. net \subseteq Messages /\ s \in Slaves /\ m.cmd = "Resp" /\ net' = net \ {m}
    BY MessageHas, OnRespForm DEF TypeOK
<1>b. NetInv /\ MasterInv /\ AskedInv /\ (~late => Prompt)
    BY DEF TimeInv
<1>c. slave \in [Slaves -> SlaveState] /\ mishaps \in [Slaves -> 0 .. 2] /\ thread.slave \in Slaves
    BY DEF TypeOK, SlaveTypeOK, HistoryTypeOK, MasterTypeOK
<1>1. UNCHANGED <<round, thread, uTimestampA, late>>
    BY OnRespForm
<1>2. CASE ~slave[s].req /\ UNCHANGED <<slave, mishaps>>
    BY <1>1, <1>2, <1>a, GoneTime
<1>3. CASE slave' = [slave EXCEPT ![s] = Idle] /\ mishaps' = [mishaps EXCEPT ![s] = 0]
    <2>1. /\ ~slave'[s].sync /\ ~slave'[s].req
          /\ \A x \in Slaves \ {s} : slave'[x] = slave[x] /\ mishaps'[x] = mishaps[x]
        BY <1>3, <1>a, <1>c DEF Idle, State
    <2>2. NetInv' /\ Later' \subseteq Later /\ (OneExchange => OneExchange')
        BY <1>a, <1>b, <1>1, NetShrinks
    <2>3. MasterInv'
        BY <1>b, <1>1 DEF MasterInv, ThisExchange
    <2>4. ASSUME NEW x \in Slaves, slave'[x].req, mishaps'[x] = 0 PROVE Asked(x)'
        <3>1. x # s
            BY <2>1, <2>4
        <3>2. PICK k \in net : k.slave = x /\ k.exchange.slave = x /\ k.cmd \in {"Delay_Req", "Resp"}
            BY <1>b, <2>1, <2>4, <3>1 DEF AskedInv, Asked
        <3>3. k \in net'
            BY <1>a, <3>1, <3>2
        <3>4. QED
            BY <3>2, <3>3 DEF Asked
    <2>5. ASSUME ~late PROVE Prompt'
        <3>1. OneExchange /\ BeforeFollowUp /\ AfterSync /\ BeforeResp
            BY <1>b, <2>5 DEF Prompt
        <3>2. BeforeFollowUp'
            <4>1. \A n \in net : n.slave \in Slaves
                BY <1>a, MessageHas
            <4>2. QED
                BY <1>a, <2>1, <3>1, <4>1 DEF BeforeFollowUp
        <3>3. AfterSync'
            BY <1>1, <1>a, <1>c, <2>1, <3>1 DEF AfterSync, ThisExchange
        <3>4. BeforeResp'
            BY <2>1, <2>2, <3>1 DEF BeforeResp
        <3>5. QED
            BY <2>2, <3>1, <3>2, <3>3, <3>4 DEF Prompt
    <2>6. QED
        BY <1>1, <2>2, <2>3, <2>4, <2>5 DEF TimeInv, AskedInv
<1>4. QED
    BY <1>2, <1>3, OnRespForm

\* Every step.
LEMMA TimeStep ==
    ASSUME TypeOK, TypeOK', TimeInv, [Next]_vars
    PROVE  TimeInv'
<1>a. net \subseteq Messages /\ HistoryTypeOK
    BY DEF TypeOK
<1>1. ASSUME NEW m \in net, OnDelayReq(m) PROVE TimeInv'
    <2>1. m.slave \in Slaves
        BY <1>a, MessageHas
    <2>2. CASE net' = net \ {m} /\ Mishap(m.slave)
        BY <1>1, <1>a, <2>1, <2>2, OnDelayReqForm, MishapType, GoneTime
    <2>3. CASE net' = (net \ {m}) \union {Message("Resp", s, m.exchange, m.exchange) : s \in Slaves}
               /\ UNCHANGED mishaps
        BY <1>1, <2>3, OnDelayReqForm, AnswerTime
    <2>4. QED
        BY <1>1, <2>2, <2>3, OnDelayReqForm
<1>2. ASSUME NEW m \in net, Lose(m) PROVE TimeInv'
    <2>1. m.slave \in Slaves
        BY <1>a, MessageHas
    <2>2. \/ mishaps' = mishaps /\ m.cmd = "Resp" /\ m.exchange.slave # m.slave
          \/ mishaps'[m.slave] # 0 /\ \A x \in Slaves : mishaps'[x] = 0 => mishaps[x] = 0
        BY <1>2, <1>a, <2>1, LoseForm, MishapType
    <2>3. QED
        BY <1>2, <2>2, LoseForm, GoneTime
<1>3. CASE MasterForgets \/ (\E s \in Slaves : SeekEnds(s)) \/ UNCHANGED vars
    <2>1. /\ UNCHANGED <<round, thread, slave, net, mishaps, late>>
          /\ uTimestampA' \in {uTimestampA, Zero}
        BY <1>3 DEF MasterForgets, SeekEnds, vars, masterVars, slaveVars, history
    <2>2. NetInv' /\ Later' = Later /\ AskedInv'
        BY <2>1 DEF TimeInv, NetInv, AskedInv, Asked, Later
    <2>3. MasterInv'
        BY <2>1 DEF TimeInv, MasterInv, ThisExchange
    <2>4. Prompt => Prompt'
        BY <2>1, <2>2 DEF Prompt, OneExchange, BeforeFollowUp, AfterSync, BeforeResp, ThisExchange
    <2>5. QED
        BY <2>1, <2>2, <2>3, <2>4 DEF TimeInv
<1>4. QED
    BY <1>1, <1>2, <1>3, ProtocolTime, SyncTime, IgnoredTime, FollowUpTime, RespTime DEF Next, Receive

\* Nothing is on the way at first.
LEMMA InitTime ==
    ASSUME Init
    PROVE  TimeInv
<1>1. net = {} /\ thread.at = "idle" /\ Later = {}
    BY DEF Init, Later
<1>2. AskedInv
    BY DEF Init, AskedInv
<1>3. QED
    BY <1>1, <1>2 DEF TimeInv, NetInv, MasterInv, Prompt, OneExchange, BeforeFollowUp, AfterSync, BeforeResp

\* An offset is computed from the times of one exchange, unless something went wrong for the slave
\* since it last computed, or the network was slow.
THEOREM OffsetsAreOfOneExchange == Spec => TimesOfOneExchange
<1>1. TypeOK /\ TimeInv /\ [Next]_vars =>
          \A s \in Slaves : offset'[s] # offset[s] /\ mishaps[s] = 0 /\ ~late =>
              LET t == offset'[s] IN t.A # Zero /\ {t.B, t.C, t.D} = {t.A}
    <2> SUFFICES ASSUME TypeOK, TimeInv, [Next]_vars, NEW s \in Slaves,
                        offset'[s] # offset[s], mishaps[s] = 0, ~late
                 PROVE  offset'[s].A # Zero /\ {offset'[s].B, offset'[s].C, offset'[s].D} = {offset'[s].A}
        OBVIOUS
    <2>a. /\ net \subseteq Messages /\ slave \in [Slaves -> SlaveState]
          /\ offset \in [Slaves -> [A : Times, B : Times, C : Times, D : Times]]
        BY DEF TypeOK, SlaveTypeOK
    <2>1. PICK m \in net : OnResp(m)
        <3>1. offset' # offset
            OBVIOUS
        <3>2. ~Protocol /\ ~MasterForgets /\ ~UNCHANGED vars /\ \A x \in Slaves : ~SeekEnds(x)
            BY <3>1 DEF Protocol, PrecisionSync, SendSync, SendFollowUp, ThreadBreaks, MasterForgets,
               SeekEnds, vars, slaveVars
        <3>3. \A m \in net : ~Lose(m) /\ ~OnDelayReq(m) /\ ~OnSync(m) /\ ~OnFollowUpIgnored(m) /\ ~OnFollowUp(m)
            BY <3>1 DEF Lose, OnDelayReq, OnSync, OnFollowUpIgnored, OnFollowUp, slaveVars
        <3>4. QED
            BY <3>2, <3>3 DEF Next, Receive
    <2>2. /\ m.cmd = "Resp" /\ m.slave \in Slaves /\ m.exchange # Zero /\ m.time = m.exchange
        BY <2>1, <2>a, OnRespForm, MessageHas DEF TimeInv, NetInv
    <2>3. /\ s = m.slave /\ slave[s].req
          /\ offset'[s] = [slave[s].t EXCEPT !.D = m.time]
        <3>1. /\ slave[m.slave].req
              /\ offset' = [offset EXCEPT ![m.slave] = [slave[m.slave].t EXCEPT !.D = m.time]]
            BY <2>1, OnRespForm
        <3>2. s = m.slave
            BY <2>2, <2>a, <3>1
        <3>3. QED
            BY <2>a, <3>1, <3>2
    <2>4. m \in Later
        BY <2>2 DEF Later
    <2>5. slave[s].t.A = m.exchange /\ slave[s].t.B = m.exchange /\ slave[s].t.C = m.exchange
        BY <2>3, <2>4 DEF TimeInv, Prompt, BeforeResp
    <2>6. slave[s].t \in [A : Times, B : Times, C : Times, D : {Zero}]
        BY <2>a DEF SlaveState
    <2>7. /\ offset'[s].A = m.exchange /\ offset'[s].B = m.exchange
          /\ offset'[s].C = m.exchange /\ offset'[s].D = m.exchange
        BY <2>2, <2>3, <2>5, <2>6
    <2>8. QED
        BY <2>2, <2>7
<1>2. QED
    BY <1>1, InitTime, TimeStep, TypeCorrect, PTL DEF Spec, TimesOfOneExchange

-----------------------------------------------------------------------------
(* No two neighbours are skipped.                                          *)

\* The slaves whose Follow_Up was sent in this round, unless the thread broke, and the last of them.
Begun(s) == thread.at = "idle" \/ s < thread.slave
LastBegun == IF thread.at = "idle" THEN NumSlaves ELSE thread.slave - 1

\* A slave will read a Follow_Up with a time, or waits for a Resp that will come, and has the
\* times of this exchange.
ReadsNext(s) ==
    /\ slave[s].sync /\ slave[s].t.B = ThisExchange(s)
    /\ \E m \in net : /\ m.cmd = "Follow_Up" /\ m.slave = s
                      /\ m.exchange = ThisExchange(s) /\ m.time = ThisExchange(s)
WaitsFor(s) ==
    /\ slave[s].req
    /\ slave[s].t.A = ThisExchange(s) /\ slave[s].t.B = ThisExchange(s)
    /\ slave[s].t.C = ThisExchange(s)
    /\ \E m \in net : /\ m.cmd \in {"Delay_Req", "Resp"} /\ m.slave = s
                      /\ m.exchange = ThisExchange(s)
Served(s) == s \in done \/ ReadsNext(s) \/ WaitsFor(s)

\* The slaves in a calm round: who was begun is served or comes after one that is done; who waits
\* will be answered; who is sent a Follow_Up has read its Sync.
SlavesInCalm ==
    /\ \A s \in Slaves : Begun(s) => Served(s) \/ (s > 1 /\ s - 1 \in done)
    /\ \A s \in Slaves : slave[s].req => Begun(s) /\ WaitsFor(s)
    /\ \A m \in net : m.cmd = "Follow_Up" =>
          ~slave[m.slave].req /\ (slave[m.slave].sync => slave[m.slave].t.B = m.exchange)

\* What is on the way belongs to the exchange begun last, whose slave is served when it asks and
\* when it was answered.
AnswersInCalm ==
    /\ \A m \in Later : m.exchange.slave = LastBegun
    /\ \A m \in net : m.cmd = "Delay_Req" => Served(m.slave)
    /\ answering # Zero =>
          answering = ThisExchange(LastBegun) /\ LastBegun \in Slaves /\ Served(LastBegun)

\* The time that the thread sends next is forgotten only for the answer to the slave before.
ThreadInCalm ==
    thread.at = "followUp" =>
        LET s == thread.slave IN
        /\ \/ \E m \in net : m.cmd = "Sync" /\ m.slave = s
           \/ slave[s].sync /\ slave[s].t.B = ThisExchange(s)
        /\ \/ uTimestampA = ThisExchange(s)
           \/ uTimestampA = Zero /\ s > 1 /\ Served(s - 1)

CalmInv ==
    calm => round > 0 /\ ~late /\ SlavesInCalm /\ AnswersInCalm /\ ThreadInCalm

\* What was begun stays begun while the thread rests.
LEMMA SameExchange ==
    ASSUME UNCHANGED <<round, thread>>
    PROVE  /\ LastBegun' = LastBegun
           /\ \A s : ThisExchange(s)' = ThisExchange(s) /\ (Begun(s)' <=> Begun(s))
BY DEF LastBegun, ThisExchange, Begun

\* A slave is served while its state and its datagrams are left alone.
LEMMA StaysServed ==
    ASSUME NEW s, UNCHANGED round, slave'[s] = slave[s], done \subseteq done',
           \A m \in net : m.cmd # "Sync" /\ m.slave = s /\ m.exchange = ThisExchange(s) => m \in net'
    PROVE  (Served(s) => Served(s)') /\ (WaitsFor(s) => WaitsFor(s)')
<1>1. ThisExchange(s)' = ThisExchange(s)
    BY DEF ThisExchange
<1>2. ReadsNext(s) => ReadsNext(s)'
    BY <1>1 DEF ReadsNext
<1>3. WaitsFor(s) => WaitsFor(s)'
    BY <1>1 DEF WaitsFor
<1>4. QED
    BY <1>2, <1>3 DEF Served

\* The thread of the master.
LEMMA ProtocolCalm ==
    ASSUME TypeOK, TypeOK', TimeInv, CalmInv, Protocol
    PROVE  CalmInv'
<1>a. MasterTypeOK /\ SlaveTypeOK /\ net \subseteq Messages /\ HistoryTypeOK
    BY DEF TypeOK
<1>b. /\ thread.slave \in Slaves /\ (thread.at # "idle" => round \in 1 .. MaxRounds)
      /\ \A s \in Slaves : s \in Nat
    BY <1>a, ConstantsAssumption DEF MasterTypeOK, Slaves
<1> USE DEF masterVars, slaveVars, history
<1>1. CASE PrecisionSync
    <2>1. /\ net' = {} /\ thread'.at = "sync" /\ thread'.slave = 1 /\ round' = round + 1
          /\ answering' = Zero /\ ~late' /\ slave' = slave
          /\ calm' => \A s \in Slaves : ~slave[s].req
        BY <1>1 DEF PrecisionSync, Quiet
    <2>2. \A s \in Slaves : ~Begun(s)'
        BY <2>1 DEF Begun, Slaves
    <2>3. round' > 0
        BY <1>a, <2>1 DEF MasterTypeOK
    <2>4. QED
        BY <2>1, <2>2, <2>3 DEF CalmInv, SlavesInCalm, AnswersInCalm, ThreadInCalm, Later
<1>2. CASE SendSync
    <2> DEFINE s == thread.slave
               new == Message("Sync", s, ThisExchange(s), Zero)
    <2>1. /\ thread.at = "sync" /\ thread' = [thread EXCEPT !.at = "followUp"]
          /\ uTimestampA' = ThisExchange(s) /\ net' = net \union {new}
          /\ UNCHANGED <<round, slave, answering, done, calm, late>>
        BY <1>2 DEF SendSync
    <2>2. thread'.at = "followUp" /\ thread'.slave = s
        BY <1>a, <2>1 DEF MasterTypeOK
    <2>3. new.cmd = "Sync" /\ new.slave = s
        BY <1>b, <2>1, ThisIs, ZeroIs, MessageIs
    <2>4. LastBegun' = LastBegun /\ \A x : (Begun(x)' <=> Begun(x)) /\ ThisExchange(x)' = ThisExchange(x)
        BY <2>1, <2>2 DEF LastBegun, Begun, ThisExchange
    <2>5. \A x : (Served(x) => Served(x)') /\ (WaitsFor(x) => WaitsFor(x)')
        BY <2>1, StaysServed
    <2>6. Later' = Later
        BY <2>1, <2>3 DEF Later
    <2>7. SlavesInCalm => SlavesInCalm'
        BY <2>1, <2>3, <2>4, <2>5 DEF SlavesInCalm
    <2>8. AnswersInCalm => AnswersInCalm'
        BY <2>1, <2>3, <2>4, <2>5, <2>6 DEF AnswersInCalm
    <2>9. ThreadInCalm'
        BY <2>1, <2>2, <2>3, <2>4 DEF ThreadInCalm
    <2>10. QED
        BY <2>1, <2>7, <2>8, <2>9 DEF CalmInv
<1>3. CASE SendFollowUp
    <2>s. PICK s \in Slaves : s = thread.slave
        BY <1>b
    <2> DEFINE new == Message("Follow_Up", s, ThisExchange(s), uTimestampA)
    <2>1. /\ thread.at = "followUp" /\ thread' = ThreadAfter(s)
          /\ net' = net \union {new} /\ (calm' => calm /\ Quiet /\ late' = late)
          /\ UNCHANGED <<round, slave, answering, done>>
        BY <1>3, <2>s DEF SendFollowUp
    <2>2. /\ new.cmd = "Follow_Up" /\ new.slave = s /\ new.exchange = ThisExchange(s)
          /\ new.time = uTimestampA /\ ThisExchange(s).slave = s
        BY <1>a, <1>b, <2>s, <2>1, ThisIs, MessageIs DEF MasterTypeOK
    <2>3. /\ thread'.at # "followUp" /\ LastBegun' = s
          /\ \A x \in Slaves : Begun(x)' => Begun(x) \/ x = s
        BY <1>b, <2>s, <2>1, ConstantsAssumption DEF ThreadAfter, LastBegun, Begun, Slaves
    <2>4. SUFFICES ASSUME calm' PROVE CalmInv'
        BY DEF CalmInv
    <2>5. /\ round > 0 /\ ~late /\ SlavesInCalm /\ ThreadInCalm
          /\ net = {} /\ answering = Zero /\ ~late'
        BY <2>1, <2>4 DEF CalmInv, Quiet
    <2>6. \A x : ~ReadsNext(x) /\ ~WaitsFor(x)
        BY <2>5 DEF ReadsNext, WaitsFor
    <2>7. slave[s].sync /\ slave[s].t.B = ThisExchange(s)
        BY <2>s, <2>1, <2>5 DEF ThreadInCalm
    <2>8. \A x \in Slaves : ~slave[x].req
        BY <2>5, <2>6 DEF SlavesInCalm
    <2>9. Served(s)' \/ (s > 1 /\ s - 1 \in done)
        <3>1. CASE uTimestampA = ThisExchange(s)
            <4>1. ThisExchange(s)' = ThisExchange(s)
                BY <2>1 DEF ThisExchange
            <4>2. ReadsNext(s)'
                BY <2>1, <2>2, <2>7, <3>1, <4>1 DEF ReadsNext
            <4>3. QED
                BY <4>2 DEF Served
        <3>2. CASE s > 1 /\ Served(s - 1)
            BY <2>6, <3>2 DEF Served
        <3>3. QED
            BY <2>s, <2>1, <2>5, <3>1, <3>2 DEF ThreadInCalm
    <2>10. SlavesInCalm'
        <3>1. \A x \in Slaves : Begun(x)' => Served(x)' \/ (x > 1 /\ x - 1 \in done')
            <4>1. \A x \in Slaves : Begun(x) => x \in done \/ (x > 1 /\ x - 1 \in done)
                BY <2>5, <2>6 DEF SlavesInCalm, Served
            <4>2. QED
                BY <2>1, <2>3, <2>9, <4>1 DEF Served
        <3>2. \A m \in net' : m = new
            BY <2>1, <2>5
        <3>3. QED
            BY <1>b, <2>1, <2>2, <2>7, <2>8, <3>1, <3>2 DEF SlavesInCalm
    <2>11. AnswersInCalm'
        BY <2>1, <2>2, <2>3, <2>5 DEF AnswersInCalm, Later
    <2>12. ThreadInCalm'
        BY <2>3 DEF ThreadInCalm
    <2>13. QED
        BY <2>1, <2>5, <2>10, <2>11, <2>12 DEF CalmInv
<1>4. CASE ThreadBreaks
    BY <1>4 DEF ThreadBreaks, Mishap, CalmInv
<1>5. QED
    BY <1>1, <1>2, <1>3, <1>4 DEF Protocol

\* What is calm stays so when every slave that was served still is, and nothing new is sent but by
\* or for the slave begun last.
LEMMA StaysCalm ==
    ASSUME CalmInv, calm' => calm, UNCHANGED <<round, thread, uTimestampA, late>>,
           done \subseteq done',
           ASSUME calm, calm', SlavesInCalm, AnswersInCalm, ThreadInCalm
           PROVE  /\ \A x \in Slaves : Served(x) => Served(x)'
                  /\ \A x \in Slaves : slave'[x].req => Begun(x) /\ WaitsFor(x)'
                  /\ \A m \in net' : m.cmd = "Follow_Up" =>
                        ~slave'[m.slave].req
                        /\ (slave'[m.slave].sync => slave'[m.slave].t.B = m.exchange)
                  /\ \A m \in Later' : m.exchange.slave = LastBegun
                  /\ \A m \in net' : m.cmd = "Delay_Req" => Served(m.slave)'
                  /\ answering' # Zero => \/ answering' = answering
                                          \/ /\ answering' = ThisExchange(LastBegun)
                                             /\ LastBegun \in Slaves /\ Served(LastBegun)'
                  /\ thread.at = "followUp" =>
                        \/ \E m \in net' : m.cmd = "Sync" /\ m.slave = thread.slave
                        \/ /\ slave'[thread.slave].sync
                           /\ slave'[thread.slave].t.B = ThisExchange(thread.slave),
           thread.slave \in Slaves
    PROVE  CalmInv'
<1> SUFFICES ASSUME calm' PROVE CalmInv'
    BY DEF CalmInv
<1>1. /\ calm /\ round > 0 /\ ~late /\ SlavesInCalm /\ AnswersInCalm /\ ThreadInCalm
    BY DEF CalmInv
<1>2. /\ LastBegun' = LastBegun
      /\ \A s : ThisExchange(s)' = ThisExchange(s) /\ (Begun(s)' <=> Begun(s))
    BY SameExchange
<1>3. SlavesInCalm'
    BY <1>1, <1>2 DEF SlavesInCalm
<1>4. AnswersInCalm'
    BY <1>1, <1>2 DEF AnswersInCalm
<1>5. ThreadInCalm'
    <2> SUFFICES ASSUME thread.at = "followUp" PROVE ThreadInCalm'
        BY DEF ThreadInCalm
    <2>1. PICK s \in Slaves : s = thread.slave /\ s = thread'.slave
        OBVIOUS
    <2>2. \/ uTimestampA = ThisExchange(s)
          \/ uTimestampA = Zero /\ s > 1 /\ Served(s - 1)
        BY <1>1, <2>1 DEF ThreadInCalm
    <2>3. s > 1 => s - 1 \in Slaves
        BY ConstantsAssumption DEF Slaves
    <2>4. \/ uTimestampA' = ThisExchange(s)'
          \/ uTimestampA' = Zero /\ s > 1 /\ Served(s - 1)'
        BY <1>1, <1>2, <2>2, <2>3
    <2>5. \/ \E m \in net' : m.cmd = "Sync" /\ m.slave = s
          \/ slave'[s].sync /\ slave'[s].t.B = ThisExchange(s)'
        BY <1>1, <1>2, <2>1
    <2>6. QED
        BY <2>1, <2>4, <2>5 DEF ThreadInCalm
<1>6. QED
    BY <1>1, <1>3, <1>4, <1>5 DEF CalmInv

\* The exchange of a datagram is the one of its slave.
LEMMA OwnExchange ==
    ASSUME TypeOK, NetInv, NEW m \in net, m.exchange.slave = m.slave
    PROVE  m.exchange = ThisExchange(m.slave) /\ m.slave \in Slaves
BY MessageHas DEF TypeOK, NetInv, ThisExchange, Exchanges

\* A Delay_Req that is answered, or not.
LEMMA DelayReqCalm ==
    ASSUME TypeOK, TimeInv, CalmInv, NEW m \in net, OnDelayReq(m)
    PROVE  CalmInv'
<1>a. /\ net \subseteq Messages /\ NetInv /\ m.cmd = "Delay_Req" /\ thread.slave \in Slaves
      /\ m.exchange \in Exchanges
    BY OnDelayReqForm, MessageHas DEF TypeOK, MasterTypeOK, TimeInv
<1>b. m.exchange = ThisExchange(m.slave) /\ m.slave \in Slaves /\ m.exchange.slave = m.slave
    BY <1>a, OwnExchange DEF NetInv
<1>1. CASE Mishap(m.slave)
    BY <1>1 DEF Mishap, CalmInv
<1>2. CASE /\ net' = (net \ {m}) \union {Message("Resp", s, m.exchange, m.exchange) : s \in Slaves}
           /\ answering' = m.exchange /\ calm' = calm
    <2>1. UNCHANGED <<round, thread, uTimestampA, slave, done, late>>
        BY OnDelayReqForm
    <2> DEFINE resps == {Message("Resp", s, m.exchange, m.exchange) : s \in Slaves}
    <2>2. \A k \in resps : k.cmd = "Resp" /\ k.exchange = m.exchange
        BY <1>a, MessageIs DEF Times
    <2>3. \E k \in net' : k.cmd = "Resp" /\ k.slave = m.slave /\ k.exchange = m.exchange
        <3>1. Message("Resp", m.slave, m.exchange, m.exchange) \in net'
            BY <1>2, <1>b
        <3>2. QED
            BY <1>a, <1>b, <3>1, MessageIs DEF Times
    <2>4. \A s : ThisExchange(s)' = ThisExchange(s)
        BY <2>1 DEF ThisExchange
    <2>5. ASSUME NEW x \in Slaves
          PROVE  (Served(x) => Served(x)') /\ (WaitsFor(x) => WaitsFor(x)')
        <3>1. ReadsNext(x) => ReadsNext(x)'
            BY <1>2, <1>a, <2>1, <2>4 DEF ReadsNext
        <3>2. WaitsFor(x) => WaitsFor(x)'
            BY <1>2, <1>b, <2>1, <2>3, <2>4 DEF WaitsFor
        <3>3. QED
            BY <2>1, <3>1, <3>2 DEF Served
    <2>6. \A k \in Later' : k \in Later \/ k.exchange = m.exchange
        BY <1>2, <2>2 DEF Later
    <2>7. \A k \in net' : k.cmd # "Resp" => k \in net
        BY <1>2, <2>2
    <2>8. m \in Later
        BY <1>a DEF Later
    <2>9. ASSUME SlavesInCalm, AnswersInCalm, ThreadInCalm
          PROVE  /\ \A x \in Slaves : slave'[x].req => Begun(x) /\ WaitsFor(x)'
                 /\ \A k \in net' : k.cmd = "Follow_Up" =>
                       ~slave'[k.slave].req /\ (slave'[k.slave].sync => slave'[k.slave].t.B = k.exchange)
        BY <2>1, <2>5, <2>7, <2>9 DEF SlavesInCalm
    <2>10. ASSUME SlavesInCalm, AnswersInCalm, ThreadInCalm
           PROVE  /\ \A k \in Later' : k.exchange.slave = LastBegun
                  /\ \A k \in net' : k.cmd = "Delay_Req" => Served(k.slave)'
                  /\ answering' = ThisExchange(LastBegun) /\ LastBegun \in Slaves /\ Served(LastBegun)'
        <3>1. LastBegun = m.slave
            BY <1>b, <2>8, <2>10 DEF AnswersInCalm
        <3>2. \A k \in net' : k.cmd = "Delay_Req" => k \in net /\ k.slave \in Slaves
            BY <1>a, <2>7, MessageHas
        <3>3. \A k \in Later' : k.exchange.slave = LastBegun
            BY <2>6, <2>8, <2>10 DEF AnswersInCalm
        <3>4. \A k \in net' : k.cmd = "Delay_Req" => Served(k.slave)'
            BY <2>5, <2>10, <3>2 DEF AnswersInCalm
        <3>5. Served(m.slave)'
            BY <1>a, <1>b, <2>5, <2>10 DEF AnswersInCalm
        <3>6. PICK s \in Slaves : s = m.slave
            BY <1>b
        <3>7. LastBegun' = LastBegun /\ Served(s)'
            BY <2>1, <3>5, <3>6, SameExchange
        <3>8. s = LastBegun /\ s = LastBegun'
            BY <3>1, <3>6, <3>7
        <3>9. Served(LastBegun)' /\ LastBegun \in Slaves
            BY <3>7, <3>8
        <3>10. answering' = ThisExchange(LastBegun)
            BY <1>2, <1>b, <3>1
        <3>11. QED
            BY <3>3, <3>4, <3>9, <3>10
    <2>11. ASSUME ThreadInCalm, thread.at = "followUp"
           PROVE  \/ \E k \in net' : k.cmd = "Sync" /\ k.slave = thread.slave
                  \/ slave'[thread.slave].sync /\ slave'[thread.slave].t.B = ThisExchange(thread.slave)
        BY <1>2, <1>a, <2>1, <2>11 DEF ThreadInCalm
    <2>12. QED
        BY <1>2, <1>a, <2>1, <2>5, <2>9, <2>10, <2>11, StaysCalm
<1>3. QED
    BY <1>1, <1>2, OnDelayReqForm

\* A Sync: its slave was begun by nobody else, and now has its time.
LEMMA SyncCalm ==
    ASSUME TypeOK, TimeInv, CalmInv, NEW m \in net, OnSync(m)
    PROVE  CalmInv'
<1>s. PICK s \in Slaves : s = m.slave
    BY MessageHas DEF TypeOK
<1>a. /\ NetInv /\ m.cmd = "Sync" /\ net' = net \ {m} /\ thread.slave \in Slaves
      /\ m.exchange = ThisExchange(s) /\ net \subseteq Messages
      /\ slave \in [Slaves -> SlaveState]
    BY <1>s, OnSyncForm, OwnExchange DEF TypeOK, MasterTypeOK, SlaveTypeOK, TimeInv, NetInv
<1>b. UNCHANGED <<round, thread, uTimestampA, answering, done, late>>
    BY OnSyncForm
<1>1. CASE Mishap(m.slave)
    BY <1>1 DEF Mishap, CalmInv
<1>2. CASE /\ slave' = [slave EXCEPT ![s] = State(TRUE, slave[s].followUp, slave[s].req,
                                                  [slave[s].t EXCEPT !.B = m.exchange])]
           /\ calm' = calm
    <2>1. /\ slave'[s] = State(TRUE, slave[s].followUp, slave[s].req, [slave[s].t EXCEPT !.B = m.exchange])
          /\ \A x \in Slaves \ {s} : slave'[x] = slave[x]
        BY <1>2, <1>a
    <2>2. slave[s].t \in [A : Times, B : Times, C : Times, D : {Zero}]
        BY <1>a DEF SlaveState
    <2>3. slave'[s].sync /\ slave'[s].t.B = ThisExchange(s) /\ slave'[s].req = slave[s].req
        BY <1>a, <2>1, <2>2 DEF State
    <2>4. ASSUME calm, SlavesInCalm, AnswersInCalm, ThreadInCalm
          PROVE  /\ \A x \in Slaves : Served(x) => Served(x)'
                 /\ \A x \in Slaves : slave'[x].req => Begun(x) /\ WaitsFor(x)'
                 /\ \A k \in net' : k.cmd = "Follow_Up" =>
                       ~slave'[k.slave].req /\ (slave'[k.slave].sync => slave'[k.slave].t.B = k.exchange)
                 /\ \A k \in Later' : k.exchange.slave = LastBegun
                 /\ \A k \in net' : k.cmd = "Delay_Req" => Served(k.slave)'
                 /\ thread.at = "followUp" => thread.slave = s
        <3>1. OneExchange
            BY <2>4 DEF CalmInv, TimeInv, Prompt
        <3>2. /\ \A k \in net : k.cmd # "Sync" => k.exchange.slave # s
              /\ thread.at = "followUp" => thread.slave = s
            BY <1>s, <1>a, <3>1 DEF OneExchange, Later
        <3>3. \A k \in net : k.cmd # "Sync" => k.exchange # ThisExchange(s)
            BY <3>2 DEF ThisExchange
        <3>4. ~WaitsFor(s) /\ ~ReadsNext(s) /\ ~slave[s].req
            BY <2>4, <3>3 DEF WaitsFor, ReadsNext, SlavesInCalm
        <3>5. ASSUME NEW x \in Slaves \ {s}
              PROVE  (Served(x) => Served(x)') /\ (WaitsFor(x) => WaitsFor(x)')
            BY <1>a, <1>b, <2>1, StaysServed
        <3>6. \A x \in Slaves : Served(x) => Served(x)'
            BY <1>b, <3>4, <3>5 DEF Served
        <3>7. \A x \in Slaves : slave'[x].req => Begun(x) /\ WaitsFor(x)'
            BY <2>1, <2>3, <2>4, <3>4, <3>5 DEF SlavesInCalm
        <3>8. \A k \in net' : k.cmd = "Follow_Up" =>
                  ~slave'[k.slave].req /\ (slave'[k.slave].sync => slave'[k.slave].t.B = k.exchange)
            <4>1. \A k \in net : k.cmd = "Follow_Up" => k.slave # s /\ k.slave \in Slaves
                BY <1>a, <3>2, MessageHas DEF NetInv
            <4>2. QED
                BY <1>a, <2>1, <2>4, <4>1 DEF SlavesInCalm
        <3>9. \A k \in net' : k \in net /\ k.slave \in Slaves
            BY <1>a, MessageHas
        <3>10. QED
            BY <2>4, <3>2, <3>6, <3>7, <3>8, <3>9 DEF AnswersInCalm, Later
    <2>5. QED
        BY <1>2, <1>a, <1>b, <2>3, <2>4, StaysCalm
<1>3. QED
    BY <1>s, <1>1, <1>2, OnSyncForm

\* A Follow_Up that says nothing: its slave waits for no Resp, and read no time.
LEMMA IgnoredCalm ==
    ASSUME TypeOK, TimeInv, CalmInv, NEW m \in net, OnFollowUpIgnored(m)
    PROVE  CalmInv'
<1>s. PICK s \in Slaves : s = m.slave
    BY MessageHas DEF TypeOK
<1>a. /\ NetInv /\ m.cmd = "Follow_Up" /\ net' = net \ {m} /\ thread.slave \in Slaves
      /\ m.exchange = ThisExchange(s) /\ m.exchange.slave = s /\ m.exchange # Zero
      /\ net \subseteq Messages /\ slave \in [Slaves -> SlaveState]
    BY <1>s, OnFollowUpIgnoredForm, OwnExchange, MessageHas
       DEF TypeOK, MasterTypeOK, SlaveTypeOK, TimeInv, NetInv
<1>b. UNCHANGED <<round, thread, uTimestampA, answering, done, calm, late>>
    BY OnFollowUpIgnoredForm DEF history
<1>1. /\ \A x \in Slaves \ {s} : slave'[x] = slave[x]
      /\ slave'[s].req = slave[s].req
      /\ slave'[s].sync => slave'[s] = slave[s]
      /\ ~slave[s].sync \/ m.time = Zero
    <2>1. CASE UNCHANGED slave /\ ~slave[s].sync
        BY <2>1
    <2>2. CASE /\ slave' = [slave EXCEPT ![s] = State(FALSE, FALSE, slave[s].req,
                                                      [slave[s].t EXCEPT !.A = Zero])]
               /\ m.time = Zero
        <3>1. slave'[s] = State(FALSE, FALSE, slave[s].req, [slave[s].t EXCEPT !.A = Zero])
            BY <1>a, <2>2
        <3>2. QED
            BY <1>a, <2>2, <3>1 DEF State
    <2>3. QED
        BY <1>s, <2>1, <2>2 DEF OnFollowUpIgnored
<1>2. ASSUME calm, SlavesInCalm, AnswersInCalm, ThreadInCalm
      PROVE  /\ \A x \in Slaves : Served(x) => Served(x)'
             /\ \A x \in Slaves : slave'[x].req => Begun(x) /\ WaitsFor(x)'
             /\ \A k \in net' : k.cmd # "Follow_Up"
             /\ thread.at = "followUp" => s # thread.slave
    <2>1. OneExchange /\ m \in Later
        BY <1>a, <1>2 DEF CalmInv, TimeInv, Prompt, Later
    <2>2. \A k \in net : k.cmd = "Follow_Up" => k = m
        BY <1>a, <2>1 DEF OneExchange, Later
    <2>3. ~slave[s].req /\ ~WaitsFor(s) /\ ~ReadsNext(s)
        <3>1. ~slave[s].req
            BY <1>s, <1>a, <1>2 DEF SlavesInCalm
        <3>2. ~ReadsNext(s)
            <4>1. ReadsNext(s) => m.time = ThisExchange(s) /\ slave[s].sync
                BY <2>2 DEF ReadsNext
            <4>2. QED
                BY <1>a, <1>1, <4>1
        <3>3. QED
            BY <3>1, <3>2 DEF WaitsFor
    <2>4. ASSUME NEW x \in Slaves \ {s}
          PROVE  (Served(x) => Served(x)') /\ (WaitsFor(x) => WaitsFor(x)')
        BY <1>s, <1>a, <1>b, <1>1, StaysServed
    <2>5. thread.at = "followUp" => s # thread.slave
        <3>1. thread.at = "followUp" => s < thread.slave
            BY <1>a, <2>1 DEF OneExchange
        <3>2. QED
            BY <1>a, <3>1 DEF Slaves
    <2>6. QED
        BY <1>a, <1>b, <1>1, <1>2, <2>2, <2>3, <2>4, <2>5 DEF Served, SlavesInCalm
<1>3. \A k \in net' : k \in net /\ k.slave \in Slaves
    BY <1>a, MessageHas
<1>4. ASSUME calm, SlavesInCalm, AnswersInCalm, ThreadInCalm
      PROVE  /\ \A k \in Later' : k.exchange.slave = LastBegun
             /\ \A k \in net' : k.cmd = "Delay_Req" => Served(k.slave)'
    BY <1>2, <1>3, <1>4 DEF AnswersInCalm, Later
<1>5. ASSUME calm, SlavesInCalm, AnswersInCalm, ThreadInCalm, thread.at = "followUp"
      PROVE  \/ \E k \in net' : k.cmd = "Sync" /\ k.slave = thread.slave
             \/ slave'[thread.slave].sync /\ slave'[thread.slave].t.B = ThisExchange(thread.slave)
    BY <1>a, <1>1, <1>2, <1>5 DEF ThreadInCalm
<1>6. QED
    BY <1>a, <1>b, <1>2, <1>4, <1>5, StaysCalm

\* A Follow_Up with a time: its slave, begun last, asks.
LEMMA FollowUpCalm ==
    ASSUME TypeOK, TimeInv, CalmInv, NEW m \in net, OnFollowUp(m)
    PROVE  CalmInv'
<1>s. PICK s \in Slaves : s = m.slave
    BY MessageHas DEF TypeOK
<1>a. /\ NetInv /\ m.cmd = "Follow_Up" /\ slave[s].sync /\ m.time # Zero /\ thread.slave \in Slaves
      /\ m.exchange = ThisExchange(s) /\ m.exchange.slave = s /\ m.exchange \in Exchanges
      /\ net \subseteq Messages /\ slave \in [Slaves -> SlaveState]
    BY <1>s, OnFollowUpForm, OwnExchange, MessageHas
       DEF TypeOK, MasterTypeOK, SlaveTypeOK, TimeInv, NetInv
<1>b. UNCHANGED <<round, thread, uTimestampA, answering, done, late>>
    BY OnFollowUpForm
<1>1. CASE Mishap(m.slave)
    BY <1>1 DEF Mishap, CalmInv
<1>2. CASE /\ slave' = [slave EXCEPT ![s] = State(TRUE, TRUE, TRUE,
                         [A |-> m.time, B |-> slave[s].t.B, C |-> m.exchange, D |-> Zero])]
           /\ net' = (net \ {m}) \union {Message("Delay_Req", s, m.exchange, Zero)}
           /\ calm' = calm
    <2> DEFINE new == Message("Delay_Req", s, m.exchange, Zero)
    <2>1. /\ slave'[s] = State(TRUE, TRUE, TRUE,
                               [A |-> m.time, B |-> slave[s].t.B, C |-> m.exchange, D |-> Zero])
          /\ \A x \in Slaves \ {s} : slave'[x] = slave[x]
        BY <1>2, <1>a
    <2>2. new.cmd = "Delay_Req" /\ new.slave = s /\ new.exchange = m.exchange
        BY <1>a, MessageIs, ZeroIs
    <2>3. m.time = m.exchange /\ m \in Later
        BY <1>a DEF NetInv, Later
    <2>4. ASSUME calm, SlavesInCalm, AnswersInCalm, ThreadInCalm
          PROVE  /\ \A x \in Slaves : Served(x) => Served(x)'
                 /\ \A x \in Slaves : slave'[x].req => Begun(x) /\ WaitsFor(x)'
                 /\ \A k \in net' : k.cmd # "Follow_Up"
                 /\ \A k \in Later' : k.exchange.slave = LastBegun
                 /\ \A k \in net' : k.cmd = "Delay_Req" => Served(k.slave)'
                 /\ thread.at = "followUp" => s # thread.slave
        <3>1. OneExchange /\ s = LastBegun
            BY <1>a, <2>3, <2>4 DEF CalmInv, TimeInv, Prompt, AnswersInCalm
        <3>2. \A k \in net' : k = new \/ (k \in net /\ k.cmd # "Follow_Up" /\ k.slave \in Slaves)
            BY <1>2, <1>a, <2>3, <3>1, MessageHas DEF OneExchange, Later
        <3>3. Begun(s)
            BY <1>a, <3>1 DEF Begun, LastBegun, Slaves
        <3>4. slave[s].t.B = m.exchange
            BY <1>s, <1>a, <2>4 DEF SlavesInCalm
        <3>5. ThisExchange(s)' = ThisExchange(s)
            BY <1>b DEF ThisExchange
        <3>6. WaitsFor(s)'
            <4>1. /\ slave'[s].req /\ slave'[s].t.A = ThisExchange(s)
                  /\ slave'[s].t.B = ThisExchange(s) /\ slave'[s].t.C = ThisExchange(s)
                BY <1>a, <2>1, <2>3, <3>4 DEF State
            <4>2. new \in net' /\ new.exchange = ThisExchange(s)
                BY <1>2, <1>a, <2>2
            <4>3. QED
                BY <2>2, <3>5, <4>1, <4>2 DEF WaitsFor
        <3>7. ASSUME NEW x \in Slaves \ {s}
              PROVE  (Served(x) => Served(x)') /\ (WaitsFor(x) => WaitsFor(x)')
            BY <1>s, <1>2, <1>b, <2>1, StaysServed
        <3>8. \A x \in Slaves : Served(x) => Served(x)'
            BY <3>6, <3>7 DEF Served
        <3>9. \A x \in Slaves : slave'[x].req => Begun(x) /\ WaitsFor(x)'
            BY <2>1, <2>4, <3>3, <3>6, <3>7 DEF SlavesInCalm
        <3>10. \A k \in Later' : k.exchange.slave = LastBegun
            BY <1>a, <2>2, <2>4, <3>1, <3>2 DEF AnswersInCalm, Later
        <3>11. \A k \in net' : k.cmd = "Delay_Req" => Served(k.slave)'
            <4>1. Served(s)'
                BY <3>6 DEF Served
            <4>2. QED
                BY <2>2, <2>4, <3>2, <3>8, <4>1 DEF AnswersInCalm
        <3>12. thread.at = "followUp" => s # thread.slave
            <4>1. thread.at = "followUp" => s < thread.slave
                BY <1>a, <2>3, <3>1 DEF OneExchange
            <4>2. QED
                BY <1>a, <4>1 DEF Slaves
        <3>13. QED
            BY <2>2, <3>2, <3>8, <3>9, <3>10, <3>11, <3>12
    <2>5. ASSUME calm, SlavesInCalm, AnswersInCalm, ThreadInCalm, thread.at = "followUp"
          PROVE  \/ \E k \in net' : k.cmd = "Sync" /\ k.slave = thread.slave
                 \/ slave'[thread.slave].sync /\ slave'[thread.slave].t.B = ThisExchange(thread.slave)
        BY <1>2, <1>a, <2>1, <2>4, <2>5 DEF ThreadInCalm
    <2>6. QED
        BY <1>2, <1>a, <1>b, <2>4, <2>5, StaysCalm
<1>3. QED
    BY <1>s, <1>1, <1>2, OnFollowUpForm

\* A Resp: whom it is for computes with the times of its exchange.
LEMMA RespCalm ==
    ASSUME TypeOK, TimeInv, CalmInv, NEW m \in net, OnResp(m)
    PROVE  CalmInv'
<1>s. PICK s \in Slaves : s = m.slave
    BY MessageHas DEF TypeOK
<1>a. /\ NetInv /\ m.cmd = "Resp" /\ net' = net \ {m} /\ thread.slave \in Slaves
      /\ m \in Later /\ m.time = m.exchange
      /\ net \subseteq Messages /\ slave \in [Slaves -> SlaveState]
    BY OnRespForm DEF TypeOK, MasterTypeOK, SlaveTypeOK, TimeInv, NetInv, Later
<1>b. UNCHANGED <<round, thread, uTimestampA, answering, calm, late>>
    BY OnRespForm
<1>c. ThisExchange(s)' = ThisExchange(s)
    BY <1>b DEF ThisExchange
<1>1. /\ done \subseteq done'
      /\ \A x \in Slaves \ {s} : slave'[x] = slave[x]
      /\ slave'[s] = slave[s] \/ slave'[s] = Idle
      /\ ~slave'[s].req
    <2>1. CASE ~slave[s].req /\ UNCHANGED <<slave, done>>
        BY <2>1
    <2>2. CASE slave' = [slave EXCEPT ![s] = Idle] /\ done \subseteq done'
        BY <2>2, <1>a DEF Idle, State
    <2>3. QED
        BY <1>s, <2>1, <2>2, OnRespForm
<1>2. ASSUME calm, SlavesInCalm, AnswersInCalm, ThreadInCalm
      PROVE  /\ \A x \in Slaves : Served(x) => Served(x)'
             /\ slave'[s] # slave[s] => m.exchange = ThisExchange(s)
    <2>1. OneExchange
        BY <1>2 DEF CalmInv, TimeInv, Prompt
    <2>2. CASE ~slave[s].req
        <3>1. slave' = slave
            BY <1>s, <2>2, OnRespForm
        <3>2. ReadsNext(s) => ReadsNext(s)'
            BY <1>a, <1>c, <3>1 DEF ReadsNext
        <3>3. Served(s) => Served(s)'
            BY <1>1, <2>2, <3>2 DEF Served, WaitsFor
        <3>4. ASSUME NEW x \in Slaves \ {s} PROVE Served(x) => Served(x)'
            BY <1>s, <1>a, <1>b, <1>1, StaysServed
        <3>5. QED
            BY <3>1, <3>3, <3>4
    <2>3. CASE slave[s].req
        <3>1. /\ slave[s].t.A = ThisExchange(s) /\ slave[s].t.B = ThisExchange(s)
              /\ slave[s].t.C = ThisExchange(s) /\ m.exchange = ThisExchange(s)
            <4>1. WaitsFor(s)
                BY <1>2, <2>3 DEF SlavesInCalm
            <4>2. PICK k \in Later : k.exchange = ThisExchange(s)
                BY <4>1 DEF WaitsFor, Later
            <4>3. m.exchange = k.exchange
                BY <1>a, <2>1, <4>2 DEF OneExchange
            <4>4. QED
                BY <4>1, <4>2, <4>3 DEF WaitsFor
        <3>2. [slave[s].t EXCEPT !.D = m.time] = [A |-> ThisExchange(s), B |-> ThisExchange(s),
                                                  C |-> ThisExchange(s), D |-> ThisExchange(s)]
            <4>1. slave[s].t \in [A : Times, B : Times, C : Times, D : {Zero}]
                BY <1>a DEF SlaveState
            <4>2. QED
                BY <1>a, <3>1, <4>1
        <3>3. s \in done'
            BY <1>s, <2>3, <3>2 DEF OnResp
        <3>4. ASSUME NEW x \in Slaves \ {s} PROVE Served(x) => Served(x)'
            BY <1>s, <1>a, <1>b, <1>1, StaysServed
        <3>5. QED
            BY <3>1, <3>3, <3>4 DEF Served
    <2>4. QED
        BY <2>2, <2>3
<1>3. ASSUME calm, SlavesInCalm, AnswersInCalm, ThreadInCalm
      PROVE  /\ \A x \in Slaves : slave'[x].req => Begun(x) /\ WaitsFor(x)'
             /\ \A k \in net' : k.cmd = "Follow_Up" =>
                   ~slave'[k.slave].req /\ (slave'[k.slave].sync => slave'[k.slave].t.B = k.exchange)
             /\ \A k \in Later' : k.exchange.slave = LastBegun
             /\ \A k \in net' : k.cmd = "Delay_Req" => Served(k.slave)'
    <2>1. ASSUME NEW x \in Slaves, slave'[x].req PROVE Begun(x) /\ WaitsFor(x)'
        <3>1. x # s /\ slave[x].req
            BY <1>1, <2>1
        <3>2. WaitsFor(x) => WaitsFor(x)'
            BY <1>s, <1>a, <1>b, <1>1, <3>1, StaysServed
        <3>3. QED
            BY <1>3, <3>1, <3>2 DEF SlavesInCalm
    <2>2. \A k \in net' : k \in net /\ k.slave \in Slaves
        BY <1>a, MessageHas
    <2>3. ASSUME NEW k \in net', k.cmd = "Follow_Up"
          PROVE  ~slave'[k.slave].req /\ (slave'[k.slave].sync => slave'[k.slave].t.B = k.exchange)
        <3>1. \/ slave'[k.slave] = slave[k.slave]
              \/ ~slave'[k.slave].req /\ ~slave'[k.slave].sync
            BY <1>1, <2>2 DEF Idle, State
        <3>2. QED
            BY <1>3, <2>2, <2>3, <3>1 DEF SlavesInCalm
    <2>4. QED
        BY <1>2, <1>3, <2>1, <2>2, <2>3 DEF AnswersInCalm, Later
<1>4. ASSUME calm, SlavesInCalm, AnswersInCalm, ThreadInCalm, thread.at = "followUp"
      PROVE  \/ \E k \in net' : k.cmd = "Sync" /\ k.slave = thread.slave
             \/ slave'[thread.slave].sync /\ slave'[thread.slave].t.B = ThisExchange(thread.slave)
    <2>1. m.exchange.slave < thread.slave
        BY <1>a, <1>4 DEF CalmInv, TimeInv, Prompt, OneExchange
    <2>2. ThisExchange(s).slave = s /\ ~(thread.slave < thread.slave)
        BY <1>a DEF ThisExchange, Slaves
    <2>3. slave'[thread.slave] = slave[thread.slave]
        BY <1>a, <1>1, <1>2, <1>4, <2>1, <2>2
    <2>4. QED
        BY <1>a, <1>4, <2>3 DEF ThreadInCalm
<1>5. QED
    BY <1>a, <1>b, <1>1, <1>2, <1>3, <1>4, StaysCalm

\* A datagram that is lost.
LEMMA LoseCalm ==
    ASSUME TypeOK, TimeInv, CalmInv, NEW m \in net, Lose(m)
    PROVE  CalmInv'
<1>a. /\ net' = net \ {m} /\ net \subseteq Messages /\ thread.slave \in Slaves
      /\ UNCHANGED <<round, thread, uTimestampA, answering, slave, done, late>>
    BY DEF Lose, masterVars, slaveVars, TypeOK, MasterTypeOK
<1>1. CASE Mishap(m.slave)
    BY <1>1 DEF Mishap, CalmInv
<1>2. CASE m.cmd = "Resp" /\ m.exchange.slave # m.slave /\ calm' = calm
    <2>1. \A x : ThisExchange(x).slave = x
        BY DEF ThisExchange
    <2>2. \A x \in Slaves : (Served(x) => Served(x)') /\ (WaitsFor(x) => WaitsFor(x)')
        BY <1>2, <1>a, <2>1, StaysServed
    <2>3. \A k \in net' : k \in net /\ k.slave \in Slaves
        BY <1>a, MessageHas
    <2>4. ASSUME SlavesInCalm, AnswersInCalm, ThreadInCalm
          PROVE  /\ \A x \in Slaves : slave'[x].req => Begun(x) /\ WaitsFor(x)'
                 /\ \A k \in net' : k.cmd = "Follow_Up" =>
                       ~slave'[k.slave].req /\ (slave'[k.slave].sync => slave'[k.slave].t.B = k.exchange)
                 /\ \A k \in Later' : k.exchange.slave = LastBegun
                 /\ \A k \in net' : k.cmd = "Delay_Req" => Served(k.slave)'
        BY <1>a, <2>2, <2>3, <2>4 DEF SlavesInCalm, AnswersInCalm, Later
    <2>5. ASSUME ThreadInCalm, thread.at = "followUp"
          PROVE  \/ \E k \in net' : k.cmd = "Sync" /\ k.slave = thread.slave
                 \/ slave'[thread.slave].sync /\ slave'[thread.slave].t.B = ThisExchange(thread.slave)
        BY <1>2, <1>a, <2>5 DEF ThreadInCalm
    <2>6. QED
        BY <1>2, <1>a, <2>2, <2>4, <2>5, StaysCalm
<1>3. QED
    BY <1>1, <1>2 DEF Lose

\* The main thread of the master forgets the time that its ProtocolThread read for the next slave:
\* the one before was served.
LEMMA ForgetsCalm ==
    ASSUME TypeOK, CalmInv, MasterForgets
    PROVE  CalmInv'
<1>1. /\ answering # Zero /\ answering' = Zero /\ uTimestampA' = Zero
      /\ UNCHANGED <<round, thread, slave, net, done, calm, late>>
    BY DEF MasterForgets, slaveVars, history
<1> SUFFICES ASSUME calm PROVE CalmInv'
    BY <1>1 DEF CalmInv
<1>2. round > 0 /\ ~late /\ SlavesInCalm /\ AnswersInCalm /\ ThreadInCalm
    BY DEF CalmInv
<1>3. /\ LastBegun' = LastBegun
      /\ \A s : (Served(s)' <=> Served(s)) /\ (WaitsFor(s)' <=> WaitsFor(s)) /\ (Begun(s)' <=> Begun(s))
    BY <1>1 DEF LastBegun, Served, ReadsNext, WaitsFor, Begun, ThisExchange
<1>4. SlavesInCalm'
    BY <1>1, <1>2, <1>3 DEF SlavesInCalm
<1>5. AnswersInCalm'
    BY <1>1, <1>2, <1>3 DEF AnswersInCalm, Later
<1>6. ASSUME thread.at = "followUp" PROVE thread.slave > 1 /\ Served(thread.slave - 1)
    <2>1. LastBegun \in Slaves /\ Served(LastBegun) /\ LastBegun = thread.slave - 1
        BY <1>1, <1>2, <1>6 DEF AnswersInCalm, LastBegun
    <2>2. thread.slave \in Slaves
        BY DEF TypeOK, MasterTypeOK
    <2>3. QED
        BY <2>1, <2>2 DEF Slaves
<1>7. ThreadInCalm'
    BY <1>1, <1>2, <1>3, <1>6 DEF ThreadInCalm, Served, ReadsNext, WaitsFor, ThisExchange
<1>8. QED
    BY <1>1, <1>2, <1>4, <1>5, <1>7 DEF CalmInv

\* Every step.
LEMMA CalmStep ==
    ASSUME TypeOK, TypeOK', TimeInv, CalmInv, [Next]_vars
    PROVE  CalmInv'
<1>1. CASE (\E s \in Slaves : SeekEnds(s)) \/ UNCHANGED vars
    <2>1. UNCHANGED <<round, thread, uTimestampA, answering, slave, net, done, calm, late>>
        BY <1>1 DEF SeekEnds, vars, masterVars, slaveVars, history
    <2>2. QED
        BY <2>1 DEF CalmInv, SlavesInCalm, AnswersInCalm, ThreadInCalm, LastBegun, Served, ReadsNext,
           WaitsFor, Begun, ThisExchange, Later
<1>2. QED
    BY <1>1, ProtocolCalm, ForgetsCalm, LoseCalm, DelayReqCalm, SyncCalm, IgnoredCalm, FollowUpCalm,
       RespCalm DEF Next, Receive

\* When nothing is on the way, who was begun is done or comes after one that is.
LEMMA CalmIsServed ==
    ASSUME CalmInv
    PROVE  NoTwoNeighboursAreSkipped
BY DEF CalmInv, NoTwoNeighboursAreSkipped, RoundIsOver, Quiet, SlavesInCalm, Begun, Served, ReadsNext,
   WaitsFor

\* In a round in which nothing goes wrong, of two neighbours in m_SlaveList at least one computes its
\* offset with the times of its exchange, although one thread of the master forgets the time that the
\* other has read.
THEOREM NeighboursAreServed == Spec => []NoTwoNeighboursAreSkipped
<1>1. Init => CalmInv
    BY DEF Init, CalmInv
<1>2. QED
    BY <1>1, InitTime, TimeStep, CalmStep, CalmIsServed, TypeCorrect, PTL DEF Spec

=============================================================================
