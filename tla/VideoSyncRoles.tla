--------------------------- MODULE VideoSyncRoles ---------------------------
(***************************************************************************)
(* Who leads when players on a local network show one film together       *)
(* (MediaPlayer/VideoSync.cpp).                                            *)
(*                                                                         *)
(* A player is MASTER, SLAVE or DISABLED.  Players tell each other about   *)
(* changes with UDP datagrams, most of them broadcast, that may be         *)
(* reordered, lost and duplicated.  A master that starts a film broadcasts *)
(* StartPlay and then, again, its Login.  Mode and master are saved as     *)
(* properties and read back by a restart.                                  *)
(*                                                                         *)
(* The handler of the datagram socket reads nothing while the player is    *)
(* DISABLED.  The socket (Qt) signals a datagram only after the one it     *)
(* signalled before was read: from then on the player is deaf.             *)
(***************************************************************************)
EXTENDS Naturals

CONSTANTS
    Devices,
    Urls,       \* of films
    NoMaster,   \* "NO MASTER" and "NOT MASTER"
    NoUrl,
    Faults,     \* what may go wrong: "lose", "duplicate", "restart", "sendFails"
    MaxOrders   \* orders of the operator and faults: a bound of the model

ASSUME ConstantsAssumption ==
    /\ NoMaster \notin Devices
    /\ NoUrl \notin Urls
    /\ Faults \subseteq {"lose", "duplicate", "restart", "sendFails"}
    /\ MaxOrders \in Nat

Modes == {"MASTER", "SLAVE", "DISABLED"}

\* The commands that carry no data (eVideoSyncCmd).
PlainCommands == {"Slave_Login", "Master_Login", "Master_Logout", "Master_Change"}

Message(cmd, from, to, url) == [cmd |-> cmd, from |-> from, to |-> to, url |-> url]

Messages ==
    {m \in [cmd : PlainCommands \union {"StartPlay"}, from : Devices, to : Devices,
            url : Urls \union {NoUrl}] :
        m.from # m.to /\ (m.url = NoUrl <=> m.cmd # "StartPlay")}

VARIABLES
    m_eVideoSyncMode,
    m_MasterAddr,
    source,     \* what each player was last told to play
    saved,      \* the properties that survive a restart
    deaf,       \* players whose socket signals no more datagrams
    net,        \* how often each message is on the way or in a socket
    orders,     \* orders and faults so far
    disturbed,  \* a datagram was lost, a change of mode was not sent, or a player restarted
    plays       \* the master that started films on a quiet network, undisturbed
                \* since, and how many of them (up to 2)

roleVars == <<m_eVideoSyncMode, m_MasterAddr, saved>>
vars == <<roleVars, source, deaf, net, orders, disturbed, plays>>

NoPlays == [by |-> NoMaster, count |-> 0]

Init ==
    /\ m_eVideoSyncMode \in [Devices -> Modes]
    /\ \A d, e \in Devices : m_eVideoSyncMode[d] = "MASTER" /\ m_eVideoSyncMode[e] = "MASTER" => d = e
    /\ m_MasterAddr = [d \in Devices |-> NoMaster]
    /\ source = [d \in Devices |-> NoUrl]
    /\ saved = [d \in Devices |-> [mode |-> m_eVideoSyncMode[d], master |-> NoMaster]]
    /\ deaf = {}
    /\ net = [m \in Messages |-> 0]
    /\ orders = 0
    /\ disturbed = FALSE
    /\ plays = NoPlays

-----------------------------------------------------------------------------
(* Datagrams.                                                              *)

InFlight(m) == net[m] > 0

\* The network n after d sent cmd to everybody else (d reads its own datagram too, and drops it),
\* and after a datagram was taken from it.
Broadcast(n, d, cmd, url) ==
    [m \in Messages |-> IF m.from = d /\ m.cmd = cmd /\ m.url = url THEN n[m] + 1 ELSE n[m]]

Without(n, m) == [n EXCEPT ![m] = @ - 1]

Hears(d) == d \notin deaf

\* Nothing is on the way that anybody will read.
AtRest ==
    \A m \in Messages : InFlight(m) => m.to \in deaf \/ m_eVideoSyncMode[m.to] = "DISABLED"

\* Whether a send works.
SendResults == IF "sendFails" \in Faults THEN BOOLEAN ELSE {TRUE}

Order ==
    /\ orders < MaxOrders
    /\ orders' = orders + 1

\* SendControlCmd(Master_Login) and (Master_Logout) set m_MasterAddr before they send.
MasterAfterSending(d, cmd) ==
    CASE cmd = "Master_Login"  -> d
      [] cmd = "Master_Logout" -> NoMaster
      [] OTHER                 -> m_MasterAddr[d]

-----------------------------------------------------------------------------
(* setVideoSyncMode: the mode is set, others are told, the mode is saved.  *)

\* Mutant of Announcement: a player that was DISABLED looks for a master before it is one.
AnnouncementFromDisabled(old, new) ==
    CASE old = new                           -> "nothing"
      [] old = "MASTER"                      -> "Master_Logout"
      [] old = "DISABLED"                    -> "Slave_Login"
      [] new = "MASTER"                      -> "Master_Login"
      [] OTHER                               -> "nothing"

\* The command that goes with a change of mode.
Announcement(old, new) ==
    CASE old = new                           -> "nothing"
      [] old = "MASTER"                      -> "Master_Logout"
      [] new = "MASTER"                      -> "Master_Login"
      [] old = "DISABLED" /\ new = "SLAVE"   -> "Slave_Login"
      [] OTHER                               -> "nothing"

\* n is the network without the datagram that asked for the change, if one did.
SetMode(d, new, n, sent) ==
    LET cmd == Announcement(m_eVideoSyncMode[d], new) IN
    /\ m_eVideoSyncMode' = [m_eVideoSyncMode EXCEPT ![d] = new]
    /\ m_MasterAddr' = [m_MasterAddr EXCEPT ![d] = MasterAfterSending(d, cmd)]
    /\ net' = IF cmd # "nothing" /\ sent THEN Broadcast(n, d, cmd, NoUrl) ELSE n
    /\ saved' = IF m_eVideoSyncMode[d] # new /\ (cmd = "nothing" \/ sent)
                    THEN [saved EXCEPT ![d].mode = new] ELSE saved
    /\ disturbed' = (disturbed \/ ~sent)

setVideoSyncMode(d, new) ==
    /\ Order
    /\ \E sent \in SendResults : SetMode(d, new, net, sent)
    /\ plays' = NoPlays
    /\ UNCHANGED <<source, deaf>>

\* Another player is asked to become master.
setVideoSyncMaster(d, other) ==
    /\ Order
    /\ d # other
    /\ \E sent \in SendResults :
        net' = IF sent THEN [net EXCEPT ![Message("Master_Change", d, other, NoUrl)] = @ + 1]
                       ELSE net
    /\ plays' = NoPlays
    /\ UNCHANGED <<roleVars, source, deaf, disturbed>>

-----------------------------------------------------------------------------
(* setDataSource and StartSync: StartPlay goes out before the Login.       *)

PlaysAfter(d) ==
    IF AtRest /\ Hears(d)
        THEN IF plays.by = d THEN [plays EXCEPT !.count = 2] ELSE [by |-> d, count |-> 1]
        ELSE NoPlays

PlayAsMaster(d, url) ==
    /\ Order
    /\ m_eVideoSyncMode[d] = "MASTER"
    /\ source' = [source EXCEPT ![d] = url]
    /\ \/ /\ net' = Broadcast(Broadcast(net, d, "StartPlay", url), d, "Master_Login", NoUrl)
          /\ m_MasterAddr' = [m_MasterAddr EXCEPT ![d] = d]
          /\ plays' = PlaysAfter(d)
       \/ /\ "sendFails" \in Faults
          /\ \/ /\ net' = Broadcast(net, d, "StartPlay", url)
                /\ m_MasterAddr' = [m_MasterAddr EXCEPT ![d] = d]
             \/ UNCHANGED <<net, m_MasterAddr>>
          /\ plays' = NoPlays
    /\ UNCHANGED <<m_eVideoSyncMode, saved, deaf, disturbed>>

PlayAlone(d, url) ==
    /\ Order
    /\ m_eVideoSyncMode[d] # "MASTER"
    /\ source' = [source EXCEPT ![d] = url]
    /\ plays' = NoPlays
    /\ UNCHANGED <<roleVars, deaf, net, disturbed>>

-----------------------------------------------------------------------------
(* UdpReceiveData: one datagram for a signal of the socket.                *)

\* A DISABLED player leaves the datagram in the socket, which signals no more.
LeaveUnread(d) ==
    /\ m_eVideoSyncMode[d] = "DISABLED"
    /\ d \notin deaf
    /\ \E m \in Messages : m.to = d /\ InFlight(m)
    /\ deaf' = deaf \union {d}
    /\ UNCHANGED <<roleVars, source, net, orders, disturbed, plays>>

Reads(m) ==
    /\ InFlight(m)
    /\ Hears(m.to)
    /\ m_eVideoSyncMode[m.to] # "DISABLED"

\* A master answers with its Login, to everybody.
OnSlaveLogin(m) ==
    /\ m.cmd = "Slave_Login"
    /\ IF m_eVideoSyncMode[m.to] = "MASTER"
         THEN \E sent \in SendResults :
                /\ m_MasterAddr' = [m_MasterAddr EXCEPT ![m.to] = m.to]
                /\ net' = IF sent THEN Broadcast(Without(net, m), m.to, "Master_Login", NoUrl)
                                  ELSE Without(net, m)
         ELSE net' = Without(net, m) /\ UNCHANGED m_MasterAddr
    /\ UNCHANGED <<m_eVideoSyncMode, saved, source, disturbed>>

\* Mutant of OnMasterLogin: only slaves follow.
OnMasterLoginOfSlave(m) ==
    /\ m.cmd = "Master_Login"
    /\ net' = Without(net, m)
    /\ IF m_eVideoSyncMode[m.to] = "MASTER" THEN UNCHANGED roleVars
       ELSE /\ m_MasterAddr' = [m_MasterAddr EXCEPT ![m.to] = m.from]
            /\ saved' = [saved EXCEPT ![m.to].master = m.from]
            /\ UNCHANGED m_eVideoSyncMode
    /\ UNCHANGED <<source, disturbed>>

\* Mutant of OnMasterLogin: a master answers with its own Login.
OnMasterLoginInsisting(m) ==
    /\ m.cmd = "Master_Login"
    /\ net' = IF m_eVideoSyncMode[m.to] = "MASTER"
                  THEN Broadcast(Without(net, m), m.to, "Master_Login", NoUrl)
                  ELSE Without(net, m)
    /\ UNCHANGED <<roleVars, source, disturbed>>

\* Whoever reads a Login follows its sender.
OnMasterLogin(m) ==
    /\ m.cmd = "Master_Login"
    /\ net' = Without(net, m)
    /\ m_MasterAddr' = [m_MasterAddr EXCEPT ![m.to] = m.from]
    /\ m_eVideoSyncMode' = [m_eVideoSyncMode EXCEPT ![m.to] = "SLAVE"]
    /\ saved' = [saved EXCEPT ![m.to] = [mode |-> "SLAVE", master |-> m.from]]
    /\ UNCHANGED <<source, disturbed>>

\* The master that logs out need not be the one this player follows.
OnMasterLogout(m) ==
    /\ m.cmd = "Master_Logout"
    /\ net' = Without(net, m)
    /\ m_MasterAddr' = [m_MasterAddr EXCEPT ![m.to] = NoMaster]
    /\ saved' = [saved EXCEPT ![m.to].master = NoMaster]
    /\ UNCHANGED <<m_eVideoSyncMode, source, disturbed>>

OnMasterChange(m) ==
    /\ m.cmd = "Master_Change"
    /\ \E sent \in SendResults :
        IF m_eVideoSyncMode[m.to] # "MASTER"
          THEN SetMode(m.to, "MASTER", Without(net, m), sent)
          ELSE /\ net' = Without(net, m)
               /\ saved' = [saved EXCEPT ![m.to].mode = "MASTER"]
               /\ UNCHANGED <<m_eVideoSyncMode, m_MasterAddr, disturbed>>
    /\ UNCHANGED source

\* PlaySyncMedia: only a slave, and only what its own master starts.
OnStartPlay(m) ==
    /\ m.cmd = "StartPlay"
    /\ net' = Without(net, m)
    /\ IF m_eVideoSyncMode[m.to] = "SLAVE" /\ m_MasterAddr[m.to] = m.from
         THEN source' = [source EXCEPT ![m.to] = m.url]
         ELSE UNCHANGED source
    /\ UNCHANGED <<roleVars, disturbed>>

On(m) ==
    \/ OnSlaveLogin(m)
    \/ OnMasterLogin(m)
    \/ OnMasterLogout(m)
    \/ OnMasterChange(m)
    \/ OnStartPlay(m)

UdpReceiveData(d) ==
    /\ \E m \in Messages : m.to = d /\ Reads(m) /\ On(m)
    /\ UNCHANGED <<deaf, orders, plays>>

-----------------------------------------------------------------------------
(* What the network and the power do.  A restart takes much longer than a  *)
(* datagram lives.                                                         *)

Lose(m) ==
    /\ "lose" \in Faults
    /\ InFlight(m)
    /\ Order
    /\ net' = Without(net, m)
    /\ disturbed' = TRUE
    /\ plays' = NoPlays
    /\ UNCHANGED <<roleVars, source, deaf>>

Duplicate(m) ==
    /\ "duplicate" \in Faults
    /\ InFlight(m)
    /\ Order
    /\ net' = [net EXCEPT ![m] = @ + 1]
    /\ UNCHANGED <<roleVars, source, deaf, disturbed, plays>>

\* InitInstance: nobody is told that the player is back.
Restart(d) ==
    /\ "restart" \in Faults
    /\ Order
    /\ m_eVideoSyncMode' = [m_eVideoSyncMode EXCEPT ![d] = saved[d].mode]
    /\ m_MasterAddr' = [m_MasterAddr EXCEPT ![d] = saved[d].master]
    /\ source' = [source EXCEPT ![d] = NoUrl]
    /\ deaf' = deaf \ {d}
    /\ net' = [m \in Messages |-> IF m.to = d THEN 0 ELSE net[m]]
    /\ disturbed' = TRUE
    /\ plays' = NoPlays
    /\ UNCHANGED saved

-----------------------------------------------------------------------------
Operator ==
    \E d \in Devices :
        \/ \E new \in Modes : setVideoSyncMode(d, new)
        \/ \E other \in Devices : setVideoSyncMaster(d, other)
        \/ \E url \in Urls : PlayAsMaster(d, url) \/ PlayAlone(d, url)

Fault ==
    \/ \E m \in Messages : Lose(m) \/ Duplicate(m)
    \/ \E d \in Devices : Restart(d)

Sockets == \E d \in Devices : UdpReceiveData(d) \/ LeaveUnread(d)

Next == Operator \/ Fault \/ Sockets

\* The event loop of each player calls the handler of a socket that signals.
Fairness == \A d \in Devices : WF_vars(UdpReceiveData(d))

Spec == Init /\ [][Next]_vars /\ Fairness

-----------------------------------------------------------------------------
(* Properties.                                                             *)

RolesTypeOK ==
    /\ m_eVideoSyncMode \in [Devices -> Modes]
    /\ m_MasterAddr \in [Devices -> Devices \union {NoMaster}]
    /\ saved \in [Devices -> [mode : Modes, master : Devices \union {NoMaster}]]

\* Types: a player has a mode, and a master or none; datagrams are counted.
TypeOK ==
    /\ RolesTypeOK
    /\ source \in [Devices -> Urls \union {NoUrl}]
    /\ deaf \subseteq Devices
    /\ net \in [Messages -> Nat]
    /\ orders \in 0 .. MaxOrders
    /\ disturbed \in BOOLEAN
    /\ plays \in [by : Devices \union {NoMaster}, count : 0 .. 2]

Masters == {d \in Devices : m_eVideoSyncMode[d] = "MASTER" /\ Hears(d)}
Login(a, b) == Message("Master_Login", a, b, NoUrl)

\* While two players that hear are masters, the Login of one is on its way to the other:
\* there is no way to become master that the others are not told of, unless a datagram is
\* lost, a send fails or a player restarts.  So at most one is left on a quiet network.
TwoMastersAreTold ==
    ~disturbed =>
        \A a, b \in Masters : a # b => InFlight(Login(a, b)) \/ InFlight(Login(b, a))

\* Whatever was lost before, and even when two masters were left by a restart: a master
\* that starts a film on a quiet network becomes the only one, and every player that hears
\* and is not DISABLED follows it; of the next film it starts all show that film.
PlayHeals ==
    AtRest /\ plays.count > 0 =>
        /\ Masters = {plays.by}
        /\ \A d \in Devices \ {plays.by} :
            Hears(d) /\ m_eVideoSyncMode[d] # "DISABLED" =>
                /\ m_MasterAddr[d] = plays.by
                /\ plays.count = 2 => source[d] = source[plays.by]

\* The answers to datagrams, a Login to every Slave_Login and to every Master_Change, do
\* not call for further answers: the network becomes quiet when the operator does.
OrdersSettle == orders = MaxOrders ~> AtRest

\* What the comments at VideoSync.cpp:1128 (a slave waits for a master to be set) and
\* VideoSync.cpp:332 (a Login is read in every mode) say: a slave that waits for a master
\* reads the Login of one.
WaitingSlaveIsFound ==
    \A s, d \in Devices :
        s # d => (m_eVideoSyncMode[s] = "SLAVE" /\ InFlight(Login(d, s))
                    ~> ~InFlight(Login(d, s)) \/ m_eVideoSyncMode[s] # "SLAVE")

=============================================================================
