---------------------------- MODULE VideoSyncTime ----------------------------
(***************************************************************************)
(* How slaves learn how far they are behind their master                   *)
(* (MediaPlayer/VideoSync.cpp).                                            *)
(*                                                                         *)
(* A timer of the master starts a ProtocolThread that goes through         *)
(* m_SlaveList: it reads its time t1, sends Sync to the slave, sleeps      *)
(* 10 ms, and sends t1 in Follow_Up.  The slave notes t2 at Sync, and at   *)
(* Follow_Up notes t3 and sends Delay_Req.  The main thread of the master  *)
(* reads t4 at Delay_Req and broadcasts it in Resp, with which the slave   *)
(* computes its offset.  uTimestampA of the master is written by both of   *)
(* its threads.                                                            *)
(*                                                                         *)
(* A time is modelled by the exchange it was read in: the round and the    *)
(* slave.  No datagram says which exchange it is of: exchange is known to  *)
(* the model only.                                                         *)
(***************************************************************************)
EXTENDS Naturals

CONSTANTS
    NumSlaves,  \* in m_SlaveList
    MaxRounds,  \* a bound of the model
    Faults,     \* "lost": datagrams are lost, or not sent; "late": they take longer than
                \* 10 ms; "noTime": a player cannot tell its time, or shows another film
    MaxFaults   \* a bound of the model

ASSUME ConstantsAssumption ==
    /\ NumSlaves \in Nat \ {0}
    /\ MaxRounds \in Nat
    /\ MaxFaults \in Nat
    /\ Faults \subseteq {"lost", "late", "noTime"}

Slaves == 1 .. NumSlaves    \* their places in m_SlaveList
Exchanges == [round : 1 .. MaxRounds, slave : Slaves]
Zero == [round |-> 0, slave |-> 0]
Times == Exchanges \union {Zero}

Messages ==
    [cmd : {"Sync", "Follow_Up", "Delay_Req", "Resp"}, slave : Slaves, exchange : Exchanges,
     time : Times]

\* slave is the one the datagram goes to or, for Delay_Req, comes from.
Message(cmd, slave, exchange, time) ==
    [cmd |-> cmd, slave |-> slave, exchange |-> exchange, time |-> time]

VARIABLES
    round,
    thread,       \* of ProtocolThread: where it is, and at which slave
    uTimestampA,  \* of the master
    answering,    \* the exchange whose Resp the main thread of the master just sent, or Zero
    slave,        \* the flags and times of each slave
    offset,       \* the times each slave computed its Offset from
    seeking,      \* of PrecisionSyncThread of each slave
    net,
    done,         \* the slaves that computed with the times of their exchange of this round
    mishaps,      \* how much went wrong for each slave since it last computed (up to 2)
    calm,         \* nothing went wrong in this round, for any slave
    late,         \* the thread went on in this round before everything was answered
    faults        \* so far

masterVars == <<round, thread, uTimestampA, answering>>
slaveVars == <<slave, offset, seeking>>
history == <<done, mishaps, calm, late, faults>>
vars == <<masterVars, slaveVars, net, history>>

NoTimes == [A |-> Zero, B |-> Zero, C |-> Zero, D |-> Zero]
State(sync, followUp, req, t) ==
    [sync |-> sync, followUp |-> followUp, req |-> req, t |-> t]
Idle == State(FALSE, FALSE, FALSE, NoTimes)

\* bReqState is not initialized.
Init ==
    /\ round = 0
    /\ thread = [at |-> "idle", slave |-> 1]
    /\ uTimestampA = Zero
    /\ answering = Zero
    /\ slave \in [Slaves -> {Idle, State(FALSE, FALSE, TRUE, NoTimes)}]
    /\ offset = [s \in Slaves |-> NoTimes]
    /\ seeking = [s \in Slaves |-> "waiting"]
    /\ net = {}
    /\ done = {}
    /\ mishaps = [s \in Slaves |-> IF slave[s].req THEN 1 ELSE 0]
    /\ calm = FALSE
    /\ late = FALSE
    /\ faults = 0

ThisExchange(s) == [round |-> round, slave |-> s]

\* Everything sent was received and answered.
Quiet == net = {} /\ answering = Zero

OneMore(n) == IF n < 2 THEN n + 1 ELSE n

Fault ==
    /\ faults < MaxFaults
    /\ faults' = faults + 1

\* Something goes wrong for s.
Mishap(s) ==
    /\ Fault
    /\ mishaps' = [mishaps EXCEPT ![s] = OneMore(@)]
    /\ calm' = FALSE

-----------------------------------------------------------------------------
(* ProtocolThread of the master.                                           *)

\* The timer, every 20 seconds.
PrecisionSync ==
    /\ thread.at = "idle"
    /\ Quiet
    /\ round < MaxRounds
    /\ round' = round + 1
    /\ thread' = [at |-> "sync", slave |-> 1]
    /\ done' = {}
    /\ calm' = \A s \in Slaves : ~slave[s].req
    /\ late' = FALSE
    /\ UNCHANGED <<uTimestampA, answering, slaveVars, net, mishaps, faults>>

ThreadAfter(s) ==
    IF s < NumSlaves THEN [at |-> "sync", slave |-> s + 1] ELSE [at |-> "idle", slave |-> 1]

ThreadGivesUp == thread' = [at |-> "idle", slave |-> 1]

SendSync ==
    LET s == thread.slave IN
    /\ thread.at = "sync"
    /\ uTimestampA' = ThisExchange(s)
    /\ thread' = [thread EXCEPT !.at = "followUp"]
    /\ net' = net \union {Message("Sync", s, ThisExchange(s), Zero)}
    /\ UNCHANGED <<round, answering, slaveVars, history>>

\* Mutant of SendFollowUp: the time is forgotten before it is sent.
SendFollowUpForgotten ==
    LET s == thread.slave IN
    /\ thread.at = "followUp"
    /\ Quiet
    /\ net' = net \union {Message("Follow_Up", s, ThisExchange(s), Zero)}
    /\ uTimestampA' = Zero
    /\ thread' = ThreadAfter(s)
    /\ UNCHANGED <<round, answering, slaveVars, history>>

\* 10 ms after Sync.
SendFollowUp ==
    LET s == thread.slave IN
    /\ thread.at = "followUp"
    /\ \/ Quiet /\ UNCHANGED <<calm, late, faults>>
       \/ /\ "late" \in Faults /\ ~Quiet
          /\ Fault
          /\ calm' = FALSE
          /\ late' = TRUE
    /\ net' = net \union {Message("Follow_Up", s, ThisExchange(s), uTimestampA)}
    /\ uTimestampA' = Zero
    /\ thread' = ThreadAfter(s)
    /\ UNCHANGED <<round, answering, slaveVars, done, mishaps>>

\* The film is paused or near its end, the time of the player is not known, or a send
\* fails: the slaves that come after this one are not served, either.
ThreadBreaks ==
    /\ \/ thread.at = "sync" /\ uTimestampA' \in {uTimestampA, Zero, ThisExchange(thread.slave)}
       \/ thread.at = "followUp" /\ "lost" \in Faults /\ uTimestampA' = Zero
    /\ "lost" \in Faults \/ "noTime" \in Faults
    /\ ThreadGivesUp
    /\ Mishap(thread.slave)
    /\ UNCHANGED <<round, answering, slaveVars, net, done, late>>

-----------------------------------------------------------------------------
(* UdpReceiveData of the master, in its main thread.                       *)

OnDelayReq(m) ==
    /\ m.cmd = "Delay_Req"
    /\ answering = Zero
    /\ \/ /\ net' = (net \ {m}) \union
                    {Message("Resp", s, m.exchange, m.exchange) : s \in Slaves}
          /\ answering' = m.exchange
          /\ UNCHANGED <<mishaps, calm, faults>>
       \/ /\ Faults \intersect {"lost", "noTime"} # {}   \* the send or getCurrentTime fails
          /\ net' = net \ {m}
          /\ UNCHANGED answering
          /\ Mishap(m.slave)
    /\ UNCHANGED <<round, thread, uTimestampA, slaveVars, done, late>>

\* uTimestampA = uTimestampD = 0, whatever the thread is at.
MasterForgets ==
    /\ answering # Zero
    /\ answering' = Zero
    /\ uTimestampA' = Zero
    /\ UNCHANGED <<round, thread, slaveVars, net, history>>

-----------------------------------------------------------------------------
(* UdpReceiveData of a slave.                                              *)

OnSync(m) ==
    LET s == m.slave IN
    /\ m.cmd = "Sync"
    /\ net' = net \ {m}
    /\ \/ /\ slave' = [slave EXCEPT ![s] = State(TRUE, slave[s].followUp, slave[s].req,
                                                [slave[s].t EXCEPT !.B = m.exchange])]
          /\ UNCHANGED <<mishaps, calm, faults>>
       \/ /\ "noTime" \in Faults
          /\ slave' = [slave EXCEPT ![s] = State(FALSE, slave[s].followUp, slave[s].req,
                                                [slave[s].t EXCEPT !.B = Zero])]
          /\ Mishap(s)
    /\ UNCHANGED <<masterVars, offset, seeking, done, late>>

\* A Follow_Up that comes first is dropped; one without a time ends the exchange.
OnFollowUpIgnored(m) ==
    LET s == m.slave IN
    /\ m.cmd = "Follow_Up"
    /\ \/ ~slave[s].sync /\ UNCHANGED slave
       \/ /\ slave[s].sync /\ m.time = Zero
          /\ slave' = [slave EXCEPT ![s] = State(FALSE, FALSE, slave[s].req,
                                                [slave[s].t EXCEPT !.A = Zero])]
    /\ net' = net \ {m}
    /\ UNCHANGED <<masterVars, offset, seeking, history>>

OnFollowUp(m) ==
    LET s == m.slave
        Times3(C) == [A |-> m.time, B |-> slave[s].t.B, C |-> C, D |-> Zero]
        waiting == State(TRUE, TRUE, TRUE, Times3(m.exchange))
    IN
    /\ m.cmd = "Follow_Up"
    /\ slave[s].sync
    /\ m.time # Zero
    /\ \/ /\ slave' = [slave EXCEPT ![s] = waiting]
          /\ net' = (net \ {m}) \union {Message("Delay_Req", s, m.exchange, Zero)}
          /\ UNCHANGED <<mishaps, calm, faults>>
       \/ /\ \/ /\ "lost" \in Faults      \* the send fails
                /\ slave' = [slave EXCEPT ![s] = waiting]
             \/ /\ "noTime" \in Faults
                /\ slave' = [slave EXCEPT ![s] = State(FALSE, FALSE, FALSE, Times3(Zero))]
          /\ net' = net \ {m}
          /\ Mishap(s)
    /\ UNCHANGED <<masterVars, offset, seeking, done, late>>

\* Mutant of SyncTimeCalculate: a slave goes on waiting for a Resp after it computed.
SyncTimeCalculateWaiting(s, t) ==
    /\ slave' = [slave EXCEPT ![s] = State(FALSE, FALSE, TRUE, NoTimes)]
    /\ offset' = [offset EXCEPT ![s] = IF seeking[s] = "waiting" THEN t ELSE @]
    /\ UNCHANGED <<seeking, faults>>

\* The offset is computed unless the player seeks, and PrecisionSyncThread is told when it
\* is large, unless it does not wait yet.
SyncTimeCalculate(s, t) ==
    /\ slave' = [slave EXCEPT ![s] = Idle]
    /\ \/ /\ seeking[s] = "waiting"
          /\ offset' = [offset EXCEPT ![s] = t]
          /\ seeking' \in {seeking, [seeking EXCEPT ![s] = "seeking"]}
          /\ UNCHANGED faults
       \/ /\ seeking[s] # "waiting"
          /\ UNCHANGED <<offset, seeking, faults>>
       \/ /\ "noTime" \in Faults        \* another film
          /\ Fault
          /\ UNCHANGED <<offset, seeking>>

OnResp(m) ==
    LET s == m.slave
        t == [slave[s].t EXCEPT !.D = m.time]
        own == t = [A |-> ThisExchange(s), B |-> ThisExchange(s),
                    C |-> ThisExchange(s), D |-> ThisExchange(s)]
    IN
    /\ m.cmd = "Resp"
    /\ net' = net \ {m}
    /\ IF slave[s].req
         THEN /\ SyncTimeCalculate(s, t)
              /\ done' = IF own THEN done \union {s} ELSE done
              /\ mishaps' = [mishaps EXCEPT ![s] = 0]
         ELSE UNCHANGED <<slave, offset, seeking, done, mishaps, faults>>
    /\ UNCHANGED <<masterVars, calm, late>>

-----------------------------------------------------------------------------
(* PrecisionSyncThread of a slave.  When it cannot tell its time or set    *)
(* its speed, it leaves SyncSeeking set.                                   *)

SeekEnds(s) ==
    /\ seeking[s] = "seeking"
    /\ \/ seeking' = [seeking EXCEPT ![s] = "waiting"] /\ UNCHANGED faults
       \/ "noTime" \in Faults /\ Fault /\ seeking' = [seeking EXCEPT ![s] = "failed"]
    /\ UNCHANGED <<masterVars, slave, offset, net, done, mishaps, calm, late>>

-----------------------------------------------------------------------------
(* The network.  The Resp to another slave is nothing to this one.         *)

Lose(m) ==
    /\ "lost" \in Faults
    /\ net' = net \ {m}
    /\ IF m.cmd = "Resp" /\ m.exchange.slave # m.slave
         THEN UNCHANGED <<mishaps, calm, faults>>
         ELSE Mishap(m.slave)
    /\ UNCHANGED <<masterVars, slaveVars, done, late>>

-----------------------------------------------------------------------------
Protocol == PrecisionSync \/ SendSync \/ SendFollowUp \/ ThreadBreaks

Receive(m) ==
    OnDelayReq(m) \/ OnSync(m) \/ OnFollowUpIgnored(m) \/ OnFollowUp(m) \/ OnResp(m)

Next ==
    \/ Protocol
    \/ MasterForgets
    \/ \E m \in net : Receive(m) \/ Lose(m)
    \/ \E s \in Slaves : SeekEnds(s)

Spec == Init /\ [][Next]_vars

-----------------------------------------------------------------------------
(* Properties.                                                             *)

SlaveState ==
    [sync : BOOLEAN, followUp : BOOLEAN, req : BOOLEAN,
     t : [A : Times, B : Times, C : Times, D : {Zero}]]

MasterTypeOK ==
    /\ round \in 0 .. MaxRounds
    /\ thread \in [at : {"idle", "sync", "followUp"}, slave : Slaves]
    /\ thread.at # "idle" => round > 0
    /\ uTimestampA \in Times
    /\ answering \in Times

SlaveTypeOK ==
    /\ slave \in [Slaves -> SlaveState]
    /\ offset \in [Slaves -> [A : Times, B : Times, C : Times, D : Times]]
    /\ seeking \in [Slaves -> {"waiting", "seeking", "failed"}]

HistoryTypeOK ==
    /\ done \subseteq Slaves
    /\ mishaps \in [Slaves -> 0 .. 2]
    /\ calm \in BOOLEAN
    /\ late \in BOOLEAN
    /\ faults \in 0 .. MaxFaults

\* Types: the time of a Delay_Req is in D only while it is computed with.
TypeOK == MasterTypeOK /\ SlaveTypeOK /\ net \subseteq Messages /\ HistoryTypeOK

\* A slave computes its offset from the four times of one exchange, unless a datagram of
\* its own was lost, or its bReqState began set, since it last computed, or the network
\* was slow: what is lost for other slaves, whose Resp it receives too, does not matter.
TimesOfOneExchange ==
    [][\A s \in Slaves :
        offset'[s] # offset[s] /\ mishaps[s] = 0 /\ ~late =>
            LET t == offset'[s] IN t.A # Zero /\ {t.B, t.C, t.D} = {t.A}]_vars

RoundIsOver == thread.at = "idle" /\ round > 0 /\ Quiet

\* In a round in which nothing goes wrong the first slave computes its offset, and of two
\* neighbours in m_SlaveList at least one does.  (That both do cannot be said: the main
\* thread forgets uTimestampA when it answers one slave, after the ProtocolThread has set
\* it for the next, whose Follow_Up then carries no time.)
NoTwoNeighboursAreSkipped ==
    RoundIsOver /\ calm =>
        \A s \in Slaves : s \in done \/ (s > 1 /\ s - 1 \in done)

=============================================================================
