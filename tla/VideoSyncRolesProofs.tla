------------------------- MODULE VideoSyncRolesProofs -------------------------
(***************************************************************************)
(* VideoSyncRoles for any players, any films, any faults and any number of *)
(* orders.                                                                 *)
(***************************************************************************)
EXTENDS VideoSyncRoles, TLAPS

-----------------------------------------------------------------------------
(* The network.                                                            *)

\* A broadcast adds one to every message of its kind and takes none away.
LEMMA BroadcastAdds ==
    ASSUME NEW n \in [Messages -> Nat], NEW d, NEW cmd, NEW url
    PROVE  /\ Broadcast(n, d, cmd, url) \in [Messages -> Nat]
           /\ \A m \in Messages :
                 /\ Broadcast(n, d, cmd, url)[m] >= n[m]
                 /\ m.from = d /\ m.cmd = cmd /\ m.url = url => Broadcast(n, d, cmd, url)[m] > 0
                 /\ ~(m.from = d /\ m.cmd = cmd /\ m.url = url) => Broadcast(n, d, cmd, url)[m] = n[m]
BY DEF Broadcast

\* To read a datagram takes that one, and no other.
LEMMA WithoutTakes ==
    ASSUME NEW n \in [Messages -> Nat], NEW m \in Messages, n[m] > 0
    PROVE  /\ Without(n, m) \in [Messages -> Nat]
           /\ \A k \in Messages : Without(n, m)[k] <= n[k] /\ (k # m => Without(n, m)[k] = n[k])
BY DEF Without

\* The Login of one player to another.
LEMMA LoginIs ==
    ASSUME NEW a \in Devices, NEW b \in Devices, a # b
    PROVE  /\ Login(a, b) \in Messages
           /\ Login(a, b).cmd = "Master_Login" /\ Login(a, b).from = a /\ Login(a, b).to = b
           /\ Login(a, b).url = NoUrl
BY DEF Login, Message, Messages, PlainCommands

\* What a message is made of.
LEMMA MessageHas ==
    ASSUME NEW m \in Messages
    PROVE  /\ m.from \in Devices /\ m.to \in Devices /\ m.from # m.to
           /\ m.url \in Urls \union {NoUrl}
BY DEF Messages

-----------------------------------------------------------------------------
(* Types.                                                                  *)

NetTypeOK == net \in [Messages -> Nat]

\* A change of mode, with the network that it finds.
LEMMA SetModeType ==
    ASSUME TypeOK, NEW d \in Devices, NEW new \in Modes, NEW n \in [Messages -> Nat],
           NEW sent \in BOOLEAN, SetMode(d, new, n, sent)
    PROVE  RolesTypeOK' /\ NetTypeOK' /\ disturbed' \in BOOLEAN
<1>1. MasterAfterSending(d, Announcement(m_eVideoSyncMode[d], new)) \in Devices \union {NoMaster}
    BY DEF MasterAfterSending, TypeOK, RolesTypeOK
<1>2. saved' \in [Devices -> [mode : Modes, master : Devices \union {NoMaster}]]
    <2>1. saved' = saved \/ saved' = [saved EXCEPT ![d].mode = new]
        BY DEF SetMode
    <2>2. QED
        BY <2>1 DEF TypeOK, RolesTypeOK
<1>3. NetTypeOK'
    BY BroadcastAdds DEF SetMode, NetTypeOK
<1>4. QED
    BY <1>1, <1>2, <1>3 DEF SetMode, TypeOK, RolesTypeOK

\* A datagram that is read.
LEMMA OnType ==
    ASSUME TypeOK, NEW m \in Messages, Reads(m), On(m)
    PROVE  /\ RolesTypeOK' /\ NetTypeOK' /\ disturbed' \in BOOLEAN
           /\ source' \in [Devices -> Urls \union {NoUrl}]
<1>a. m.from \in Devices /\ m.to \in Devices /\ m.url \in Urls \union {NoUrl}
    BY MessageHas
<1>b. Without(net, m) \in [Messages -> Nat]
    BY WithoutTakes DEF TypeOK, Reads, InFlight
<1>c. RolesTypeOK /\ disturbed \in BOOLEAN /\ source \in [Devices -> Urls \union {NoUrl}]
    BY DEF TypeOK
<1> USE DEF roleVars
<1>1. CASE OnSlaveLogin(m)
    <2>1. NetTypeOK'
        BY <1>1, <1>b, BroadcastAdds DEF OnSlaveLogin, NetTypeOK
    <2>2. QED
        BY <1>1, <1>a, <1>c, <2>1 DEF OnSlaveLogin, RolesTypeOK
<1>2. CASE OnMasterLogin(m)
    BY <1>2, <1>a, <1>b, <1>c DEF OnMasterLogin, RolesTypeOK, NetTypeOK, Modes
<1>3. CASE OnMasterLogout(m)
    <2>1. saved' \in [Devices -> [mode : Modes, master : Devices \union {NoMaster}]]
        BY <1>3, <1>a, <1>c DEF OnMasterLogout, RolesTypeOK
    <2>2. QED
        BY <1>3, <1>a, <1>b, <1>c, <2>1 DEF OnMasterLogout, RolesTypeOK, NetTypeOK
<1>4. CASE OnMasterChange(m)
    <2>1. PICK sent \in BOOLEAN :
              \/ SetMode(m.to, "MASTER", Without(net, m), sent)
              \/ /\ net' = Without(net, m)
                 /\ saved' = [saved EXCEPT ![m.to].mode = "MASTER"]
                 /\ UNCHANGED <<m_eVideoSyncMode, m_MasterAddr, disturbed>>
        BY <1>4 DEF OnMasterChange, SendResults
    <2>2. source' = source /\ "MASTER" \in Modes
        BY <1>4 DEF OnMasterChange, Modes
    <2>3. CASE SetMode(m.to, "MASTER", Without(net, m), sent)
        BY <1>a, <1>b, <1>c, <2>2, <2>3, SetModeType
    <2>4. CASE saved' = [saved EXCEPT ![m.to].mode = "MASTER"] /\ net' = Without(net, m)
               /\ UNCHANGED <<m_eVideoSyncMode, m_MasterAddr, disturbed>>
        <3>1. saved' \in [Devices -> [mode : Modes, master : Devices \union {NoMaster}]]
            BY <1>a, <1>c, <2>2, <2>4 DEF RolesTypeOK
        <3>2. QED
            BY <1>b, <1>c, <2>2, <2>4, <3>1 DEF RolesTypeOK, NetTypeOK
    <2>5. QED
        BY <2>1, <2>3, <2>4
<1>5. CASE OnStartPlay(m)
    BY <1>5, <1>a, <1>b, <1>c DEF OnStartPlay, RolesTypeOK, NetTypeOK
<1>6. QED
    BY <1>1, <1>2, <1>3, <1>4, <1>5 DEF On

\* Every step keeps the types.
LEMMA TypeStep ==
    ASSUME TypeOK, [Next]_vars
    PROVE  TypeOK'
<1>a. /\ RolesTypeOK /\ net \in [Messages -> Nat] /\ disturbed \in BOOLEAN
      /\ source \in [Devices -> Urls \union {NoUrl}] /\ orders \in 0 .. MaxOrders
      /\ plays \in [by : Devices \union {NoMaster}, count : 0 .. 2] /\ deaf \subseteq Devices
    BY DEF TypeOK
<1>b. Order => orders' \in 0 .. MaxOrders
    BY <1>a, ConstantsAssumption DEF Order
<1>c. NoPlays \in [by : Devices \union {NoMaster}, count : 0 .. 2]
    BY DEF NoPlays
<1> USE DEF roleVars
<1>1. ASSUME NEW d \in Devices, NEW new \in Modes, setVideoSyncMode(d, new) PROVE TypeOK'
    <2>1. PICK sent \in BOOLEAN : SetMode(d, new, net, sent)
        BY <1>1 DEF setVideoSyncMode, SendResults
    <2>2. RolesTypeOK' /\ NetTypeOK' /\ disturbed' \in BOOLEAN
        BY <1>a, <2>1, SetModeType
    <2>3. QED
        BY <1>1, <1>a, <1>b, <1>c, <2>2 DEF setVideoSyncMode, TypeOK, NetTypeOK
<1>2. ASSUME NEW d \in Devices, NEW other \in Devices, setVideoSyncMaster(d, other) PROVE TypeOK'
    <2>1. net' \in [Messages -> Nat]
        <3>1. net' = net \/ net' = [net EXCEPT ![Message("Master_Change", d, other, NoUrl)] = @ + 1]
            BY <1>2 DEF setVideoSyncMaster
        <3>2. QED
            BY <1>a, <3>1
    <2>2. QED
        BY <1>2, <1>a, <1>b, <1>c, <2>1 DEF setVideoSyncMaster, TypeOK, RolesTypeOK
<1>3. ASSUME NEW d \in Devices, NEW url \in Urls, PlayAsMaster(d, url) PROVE TypeOK'
    <2>1. net' \in [Messages -> Nat]
        BY <1>3, <1>a, BroadcastAdds DEF PlayAsMaster
    <2>2. m_MasterAddr' \in [Devices -> Devices \union {NoMaster}]
        BY <1>3, <1>a DEF PlayAsMaster, RolesTypeOK
    <2>3. PlaysAfter(d) \in [by : Devices \union {NoMaster}, count : 0 .. 2]
        BY <1>a, <1>c DEF PlaysAfter
    <2>4. plays' \in [by : Devices \union {NoMaster}, count : 0 .. 2]
        BY <1>3, <1>c, <2>3 DEF PlayAsMaster
    <2>5. source' \in [Devices -> Urls \union {NoUrl}]
        BY <1>3, <1>a DEF PlayAsMaster
    <2>6. QED
        BY <1>3, <1>a, <1>b, <2>1, <2>2, <2>4, <2>5 DEF PlayAsMaster, TypeOK, RolesTypeOK
<1>4. ASSUME NEW d \in Devices, NEW url \in Urls, PlayAlone(d, url) PROVE TypeOK'
    BY <1>4, <1>a, <1>b, <1>c DEF PlayAlone, TypeOK, RolesTypeOK
<1>5. ASSUME NEW m \in Messages, Lose(m) PROVE TypeOK'
    <2>1. net' \in [Messages -> Nat]
        BY <1>5, <1>a, WithoutTakes DEF Lose, InFlight
    <2>2. QED
        BY <1>5, <1>a, <1>b, <1>c, <2>1 DEF Lose, TypeOK, RolesTypeOK
<1>6. ASSUME NEW m \in Messages, Duplicate(m) PROVE TypeOK'
    BY <1>6, <1>a, <1>b DEF Duplicate, TypeOK, RolesTypeOK
<1>7. ASSUME NEW d \in Devices, Restart(d) PROVE TypeOK'
    <2>1. RolesTypeOK'
        BY <1>7, <1>a DEF Restart, RolesTypeOK
    <2>2. net' \in [Messages -> Nat]
        BY <1>7, <1>a DEF Restart
    <2>3. QED
        BY <1>7, <1>a, <1>b, <1>c, <2>1, <2>2 DEF Restart, TypeOK
<1>8. ASSUME NEW d \in Devices, UdpReceiveData(d) PROVE TypeOK'
    <2>1. PICK m \in Messages : Reads(m) /\ On(m)
        BY <1>8 DEF UdpReceiveData
    <2>2. UNCHANGED <<deaf, orders, plays>>
        BY <1>8 DEF UdpReceiveData
    <2>3. QED
        BY <1>a, <2>1, <2>2, OnType DEF TypeOK, NetTypeOK
<1>9. ASSUME NEW d \in Devices, LeaveUnread(d) PROVE TypeOK'
    BY <1>9, <1>a DEF LeaveUnread, TypeOK, RolesTypeOK
<1>10. CASE UNCHANGED vars
    BY <1>10, <1>a DEF vars, TypeOK, RolesTypeOK
<1>11. QED
    BY <1>1, <1>2, <1>3, <1>4, <1>5, <1>6, <1>7, <1>8, <1>9, <1>10 DEF Next, Operator, Fault, Sockets

\* A player has one of three modes, and a master or none; datagrams are counted.
THEOREM TypeCorrect == Spec => []TypeOK
<1>1. Init => TypeOK
    <2> SUFFICES ASSUME Init PROVE TypeOK
        OBVIOUS
    <2>1. saved \in [Devices -> [mode : Modes, master : Devices \union {NoMaster}]]
        BY DEF Init
    <2>2. NoPlays \in [by : Devices \union {NoMaster}, count : 0 .. 2]
        BY DEF NoPlays
    <2>3. RolesTypeOK
        BY <2>1 DEF Init, RolesTypeOK
    <2>4. 0 \in 0 .. MaxOrders
        BY ConstantsAssumption
    <2>5. net \in [Messages -> Nat]
        BY DEF Init
    <2>6. QED
        BY <2>2, <2>3, <2>4, <2>5 DEF Init, TypeOK
<1>2. QED
    BY <1>1, TypeStep, PTL DEF Spec

-----------------------------------------------------------------------------
(* Two masters.                                                            *)

\* Whoever becomes master by a change of mode tells all others.
LEMMA SetModeTells ==
    ASSUME TypeOK, NEW d \in Devices, NEW new \in Modes, NEW n \in [Messages -> Nat],
           SetMode(d, new, n, TRUE)
    PROVE  /\ \A m \in Messages : net'[m] >= n[m]
           /\ net' \in [Messages -> Nat]
           /\ \A a \in Devices \ {d} : m_eVideoSyncMode'[a] = m_eVideoSyncMode[a]
           /\ \/ m_eVideoSyncMode'[d] # "MASTER" \/ m_eVideoSyncMode[d] = "MASTER"
              \/ \A b \in Devices \ {d} : net'[Login(d, b)] > 0
<1>1. \A m \in Messages : net'[m] >= n[m]
    BY BroadcastAdds DEF SetMode
<1>2. net' \in [Messages -> Nat]
    BY BroadcastAdds DEF SetMode
<1>3. /\ m_eVideoSyncMode' = [m_eVideoSyncMode EXCEPT ![d] = new] /\ m_eVideoSyncMode \in [Devices -> Modes]
    BY DEF SetMode, TypeOK, RolesTypeOK
<1>4. ASSUME new = "MASTER", m_eVideoSyncMode[d] # "MASTER"
      PROVE  \A b \in Devices \ {d} : net'[Login(d, b)] > 0
    <2>1. Announcement(m_eVideoSyncMode[d], new) = "Master_Login"
        BY <1>4 DEF Announcement
    <2>2. net' = Broadcast(n, d, "Master_Login", NoUrl)
        BY <2>1 DEF SetMode
    <2>3. QED
        BY <2>2, BroadcastAdds, LoginIs
<1>5. QED
    BY <1>1, <1>2, <1>3, <1>4

\* No datagram but the Login between two masters tells one of the other.
LEMMA OnTells ==
    ASSUME TypeOK, TwoMastersAreTold, NEW m \in Messages, Reads(m), On(m), deaf' = deaf
    PROVE  TwoMastersAreTold'
<1>a. m.from \in Devices /\ m.to \in Devices /\ m.from # m.to
    BY MessageHas
<1>b. /\ net \in [Messages -> Nat] /\ Without(net, m) \in [Messages -> Nat]
      /\ \A k \in Messages : k # m => Without(net, m)[k] = net[k]
    BY WithoutTakes DEF TypeOK, Reads, InFlight
<1>c. m_eVideoSyncMode \in [Devices -> Modes]
    BY DEF TypeOK, RolesTypeOK
<1> SUFFICES ASSUME ~disturbed', NEW a \in Masters', NEW b \in Masters', a # b
             PROVE  InFlight(Login(a, b))' \/ InFlight(Login(b, a))'
    BY DEF TwoMastersAreTold
<1>d. a \in Devices /\ b \in Devices /\ Hears(a) /\ Hears(b)
    BY DEF Masters, Hears
<1>e. Login(a, b) \in Messages /\ Login(b, a) \in Messages
    BY <1>d, LoginIs
<1> USE DEF roleVars
<1>1. CASE m.cmd # "Master_Login" /\ m.cmd # "Master_Change"
    <2>1. UNCHANGED <<m_eVideoSyncMode, disturbed>>
        BY <1>1 DEF On, OnSlaveLogin, OnMasterLogin, OnMasterLogout, OnMasterChange, OnStartPlay
    <2>2. \A k \in Messages : net'[k] >= Without(net, m)[k]
        BY <1>1, <1>b, BroadcastAdds DEF On, OnSlaveLogin, OnMasterLogin, OnMasterLogout, OnMasterChange, OnStartPlay
    <2>3. Login(a, b) # m /\ Login(b, a) # m
        BY <1>1, <1>d, LoginIs
    <2>4. InFlight(Login(a, b)) \/ InFlight(Login(b, a))
        BY <1>d, <2>1 DEF TwoMastersAreTold, Masters, Hears
    <2>5. net[Login(a, b)] > 0 \/ net[Login(b, a)] > 0
        BY <2>4 DEF InFlight
    <2>6. net'[Login(a, b)] >= net[Login(a, b)] /\ net'[Login(b, a)] >= net[Login(b, a)]
        BY <1>b, <1>e, <2>2, <2>3
    <2>7. net'[Login(a, b)] \in Nat /\ net'[Login(b, a)] \in Nat
        BY <1>e, OnType DEF NetTypeOK
    <2>8. net'[Login(a, b)] > 0 \/ net'[Login(b, a)] > 0
        BY <1>b, <1>e, <2>5, <2>6, <2>7
    <2>9. QED
        BY <2>8 DEF InFlight
<1>2. CASE m.cmd = "Master_Login"
    <2>1. /\ net' = Without(net, m) /\ m_eVideoSyncMode' = [m_eVideoSyncMode EXCEPT ![m.to] = "SLAVE"]
          /\ disturbed' = disturbed
        BY <1>2 DEF On, OnSlaveLogin, OnMasterLogin, OnMasterLogout, OnMasterChange, OnStartPlay
    <2>2. a # m.to /\ b # m.to
        BY <1>a, <1>c, <2>1 DEF Masters
    <2>3. a \in Masters /\ b \in Masters
        BY <1>a, <1>c, <1>d, <2>1, <2>2 DEF Masters
    <2>4. InFlight(Login(a, b)) \/ InFlight(Login(b, a))
        BY <2>1, <2>3 DEF TwoMastersAreTold
    <2>5. Login(a, b) # m /\ Login(b, a) # m
        BY <1>d, <2>2, LoginIs
    <2>6. QED
        BY <1>b, <1>e, <2>1, <2>4, <2>5 DEF InFlight
<1>3. CASE m.cmd = "Master_Change"
    <2>1. Login(a, b) # m /\ Login(b, a) # m
        BY <1>3, <1>d, LoginIs
    <2>2. Without(net, m)[Login(a, b)] = net[Login(a, b)] /\ Without(net, m)[Login(b, a)] = net[Login(b, a)]
        BY <1>b, <1>e, <2>1
    <2>3. OnMasterChange(m)
        BY <1>3 DEF On, OnSlaveLogin, OnMasterLogin, OnMasterLogout, OnMasterChange, OnStartPlay
    <2>4. CASE m_eVideoSyncMode[m.to] = "MASTER"
        <3>1. net' = Without(net, m) /\ UNCHANGED <<m_eVideoSyncMode, disturbed>>
            BY <2>3, <2>4 DEF OnMasterChange
        <3>2. InFlight(Login(a, b)) \/ InFlight(Login(b, a))
            BY <1>d, <3>1 DEF TwoMastersAreTold, Masters, Hears
        <3>3. QED
            BY <2>2, <3>1, <3>2 DEF InFlight
    <2>5. CASE m_eVideoSyncMode[m.to] # "MASTER"
        <3>1. PICK sent \in BOOLEAN : SetMode(m.to, "MASTER", Without(net, m), sent)
            BY <2>3, <2>5 DEF OnMasterChange, SendResults
        <3>2. sent = TRUE /\ ~disturbed
            BY <3>1 DEF SetMode
        <3>3. /\ \A k \in Messages : net'[k] >= Without(net, m)[k]
              /\ net' \in [Messages -> Nat]
              /\ \A x \in Devices \ {m.to} : m_eVideoSyncMode'[x] = m_eVideoSyncMode[x]
              /\ \A x \in Devices \ {m.to} : net'[Login(m.to, x)] > 0
            <4>1. m_eVideoSyncMode'[m.to] = "MASTER"
                BY <1>a, <1>c, <3>1 DEF SetMode
            <4>2. "MASTER" \in Modes /\ SetMode(m.to, "MASTER", Without(net, m), TRUE)
                BY <3>1, <3>2 DEF Modes
            <4>3. QED
                BY <1>a, <1>b, <2>5, <4>1, <4>2, SetModeTells
        <3>4. CASE a = m.to \/ b = m.to
            BY <1>d, <3>3, <3>4 DEF InFlight
        <3>5. CASE a # m.to /\ b # m.to
            <4>1. InFlight(Login(a, b)) \/ InFlight(Login(b, a))
                BY <1>d, <3>2, <3>3, <3>5 DEF TwoMastersAreTold, Masters, Hears
            <4>2. net[Login(a, b)] > 0 \/ net[Login(b, a)] > 0
                BY <4>1 DEF InFlight
            <4>3. net'[Login(a, b)] >= net[Login(a, b)] /\ net'[Login(b, a)] >= net[Login(b, a)]
                BY <1>e, <2>2, <3>3
            <4>4. net'[Login(a, b)] > 0 \/ net'[Login(b, a)] > 0
                BY <1>b, <1>e, <3>3, <4>2, <4>3
            <4>5. QED
                BY <4>4 DEF InFlight
        <3>6. QED
            BY <3>4, <3>5
    <2>6. QED
        BY <2>4, <2>5
<1>4. QED
    BY <1>1, <1>2, <1>3

\* Unless a datagram is lost, a send fails or a player restarts, of two masters one will read the
\* Login of the other.
THEOREM MastersAreTold == Spec => []TwoMastersAreTold
<1>1. Init => TwoMastersAreTold
    BY DEF Init, TwoMastersAreTold, Masters
<1>2. ASSUME TypeOK, TwoMastersAreTold, [Next]_vars PROVE TwoMastersAreTold'
    <2>a. net \in [Messages -> Nat] /\ m_eVideoSyncMode \in [Devices -> Modes]
        BY <1>2 DEF TypeOK, RolesTypeOK
    <2>b. ASSUME UNCHANGED <<m_eVideoSyncMode, disturbed>>, deaf \subseteq deaf',
                 net' \in [Messages -> Nat], \A m \in Messages : net'[m] >= net[m]
          PROVE  TwoMastersAreTold'
        <3> SUFFICES ASSUME ~disturbed', NEW a \in Masters', NEW b \in Masters', a # b
                     PROVE  InFlight(Login(a, b))' \/ InFlight(Login(b, a))'
            BY DEF TwoMastersAreTold
        <3>1. a \in Masters /\ b \in Masters /\ a \in Devices /\ b \in Devices
            BY <2>b DEF Masters, Hears
        <3>2. InFlight(Login(a, b)) \/ InFlight(Login(b, a))
            BY <1>2, <2>b, <3>1 DEF TwoMastersAreTold
        <3>3. Login(a, b) \in Messages /\ Login(b, a) \in Messages
            BY <3>1, LoginIs
        <3>4. \A m \in Messages : net[m] > 0 => net'[m] > 0
            BY <2>a, <2>b
        <3>5. QED
            BY <3>2, <3>3, <3>4 DEF InFlight
    <2> USE DEF roleVars
    <2>1. ASSUME NEW d \in Devices, NEW new \in Modes, setVideoSyncMode(d, new) PROVE TwoMastersAreTold'
        <3> SUFFICES ASSUME ~disturbed', NEW a \in Masters', NEW b \in Masters', a # b
                     PROVE  InFlight(Login(a, b))' \/ InFlight(Login(b, a))'
            BY DEF TwoMastersAreTold
        <3>1. PICK sent \in BOOLEAN : SetMode(d, new, net, sent)
            BY <2>1 DEF setVideoSyncMode, SendResults
        <3>2. sent = TRUE /\ ~disturbed /\ deaf' = deaf
            BY <2>1, <3>1 DEF SetMode, setVideoSyncMode
        <3>3. /\ \A m \in Messages : net'[m] >= net[m]
              /\ net' \in [Messages -> Nat]
              /\ \A x \in Devices \ {d} : m_eVideoSyncMode'[x] = m_eVideoSyncMode[x]
              /\ \/ m_eVideoSyncMode'[d] # "MASTER" \/ m_eVideoSyncMode[d] = "MASTER"
                 \/ \A x \in Devices \ {d} : net'[Login(d, x)] > 0
            BY <1>2, <2>1, <2>a, <3>1, <3>2, SetModeTells
        <3>4. a \in Devices /\ b \in Devices /\ Hears(a) /\ Hears(b)
            BY <3>2 DEF Masters, Hears
        <3>5. CASE a \in Masters /\ b \in Masters
            <4>1. InFlight(Login(a, b)) \/ InFlight(Login(b, a))
                BY <1>2, <3>2, <3>5 DEF TwoMastersAreTold
            <4>2. Login(a, b) \in Messages /\ Login(b, a) \in Messages
                BY <3>4, LoginIs
            <4>3. \A m \in Messages : net[m] > 0 => net'[m] > 0
                BY <2>a, <3>3
            <4>4. QED
                BY <4>1, <4>2, <4>3 DEF InFlight
        <3>6. CASE ~(a \in Masters /\ b \in Masters)
            <4>1. \A x \in Devices : x # d /\ x \in Masters' => x \in Masters
                BY <3>2, <3>3 DEF Masters, Hears
            <4>2. (a = d \/ b = d) /\ d \notin Masters
                BY <3>4, <3>6, <4>1
            <4>3. m_eVideoSyncMode'[d] = "MASTER" /\ m_eVideoSyncMode[d] # "MASTER"
                BY <3>2, <3>4, <4>2 DEF Masters, Hears
            <4>4. \A x \in Devices \ {d} : net'[Login(d, x)] > 0
                BY <3>3, <4>3
            <4>5. QED
                BY <3>4, <4>2, <4>4 DEF InFlight
        <3>7. QED
            BY <3>5, <3>6
    <2>2. ASSUME NEW d \in Devices, NEW other \in Devices, setVideoSyncMaster(d, other)
          PROVE  TwoMastersAreTold'
        <3>1. net' = net \/ net' = [net EXCEPT ![Message("Master_Change", d, other, NoUrl)] = @ + 1]
            BY <2>2 DEF setVideoSyncMaster
        <3>2. net' \in [Messages -> Nat] /\ \A m \in Messages : net'[m] >= net[m]
            BY <2>a, <3>1
        <3>3. QED
            BY <2>2, <2>b, <3>2 DEF setVideoSyncMaster
    <2>3. ASSUME NEW d \in Devices, NEW url \in Urls, PlayAsMaster(d, url) PROVE TwoMastersAreTold'
        <3>1. \/ net' = Broadcast(Broadcast(net, d, "StartPlay", url), d, "Master_Login", NoUrl)
              \/ net' = Broadcast(net, d, "StartPlay", url)
              \/ net' = net
            BY <2>3 DEF PlayAsMaster
        <3>2. /\ Broadcast(net, d, "StartPlay", url) \in [Messages -> Nat]
              /\ \A m \in Messages : Broadcast(net, d, "StartPlay", url)[m] >= net[m]
            BY <2>a, BroadcastAdds
        <3> DEFINE n == Broadcast(net, d, "StartPlay", url)
        <3>4. /\ Broadcast(n, d, "Master_Login", NoUrl) \in [Messages -> Nat]
              /\ \A m \in Messages : Broadcast(n, d, "Master_Login", NoUrl)[m] >= n[m]
            BY <3>2, BroadcastAdds
        <3>5. net' \in [Messages -> Nat] /\ \A m \in Messages : net'[m] >= net[m]
            BY <2>a, <3>1, <3>2, <3>4
        <3>6. QED
            BY <2>3, <2>b, <3>5 DEF PlayAsMaster
    <2>4. ASSUME NEW d \in Devices, NEW url \in Urls, PlayAlone(d, url) PROVE TwoMastersAreTold'
        BY <2>4, <2>a, <2>b DEF PlayAlone
    <2>5. ASSUME NEW m \in Messages, Duplicate(m) PROVE TwoMastersAreTold'
        BY <2>5, <2>a, <2>b DEF Duplicate
    <2>6. ASSUME NEW d \in Devices, UdpReceiveData(d) PROVE TwoMastersAreTold'
        BY <1>2, <2>6, OnTells DEF UdpReceiveData
    <2>7. ASSUME NEW d \in Devices, LeaveUnread(d) PROVE TwoMastersAreTold'
        BY <2>7, <2>a, <2>b DEF LeaveUnread
    <2>8. CASE (\E m \in Messages : Lose(m)) \/ (\E d \in Devices : Restart(d))
        BY <2>8 DEF Lose, Restart, TwoMastersAreTold
    <2>9. CASE UNCHANGED vars
        BY <2>9, <2>a, <2>b DEF vars
    <2>10. QED
        BY <1>2, <2>1, <2>2, <2>3, <2>4, <2>5, <2>6, <2>7, <2>8, <2>9 DEF Next, Operator, Fault, Sockets
<1>3. QED
    BY <1>1, <1>2, TypeCorrect, PTL DEF Spec

-----------------------------------------------------------------------------
(* What a film does.                                                       *)

\* Players that will read what is sent to them.
Reader(d) == Hears(d) /\ m_eVideoSyncMode[d] # "DISABLED"

StartPlay(a, b, url) == Message("StartPlay", a, b, url)

Follows(d, p) == m_eVideoSyncMode[d] = "SLAVE" /\ m_MasterAddr[d] = p

\* Only the master that started the film is still to be read.
OnlyItIsHeard(p) ==
    \A m \in Messages :
        InFlight(m) /\ Reader(m.to) => m.from = p /\ m.cmd \in {"StartPlay", "Master_Login"}

\* Whoever does not follow it yet has its Login to read.
AllAreTold(p) == \A d \in Devices \ {p} : Reader(d) => InFlight(Login(p, d)) \/ Follows(d, p)

\* From the second film on all follow it, and show the film or have it to read.
AllShowIt(p) ==
    /\ source[p] \in Urls
    /\ \A d \in Devices \ {p} : Reader(d) =>
          Follows(d, p) /\ (InFlight(StartPlay(p, d, source[p])) \/ source[d] = source[p])
    /\ \A m \in Messages :
          InFlight(m) /\ Reader(m.to) /\ m.cmd = "StartPlay" => m.url = source[p]

Healing ==
    plays # NoPlays =>
        /\ plays.by \in Devices /\ plays.count \in {1, 2}
        /\ m_eVideoSyncMode[plays.by] = "MASTER" /\ Hears(plays.by)
        /\ OnlyItIsHeard(plays.by) /\ AllAreTold(plays.by)
        /\ plays.count = 2 => AllShowIt(plays.by)

\* A StartPlay of one player to another.
LEMMA StartPlayIs ==
    ASSUME NEW a \in Devices, NEW b \in Devices, a # b, NEW url \in Urls
    PROVE  /\ StartPlay(a, b, url) \in Messages
           /\ StartPlay(a, b, url).cmd = "StartPlay" /\ StartPlay(a, b, url).from = a
           /\ StartPlay(a, b, url).to = b /\ StartPlay(a, b, url).url = url
BY ConstantsAssumption DEF StartPlay, Message, Messages, PlainCommands

\* A film that starts on a quiet network.
LEMMA PlayHealing ==
    ASSUME TypeOK, Healing, NEW d \in Devices, NEW url \in Urls, PlayAsMaster(d, url)
    PROVE  Healing'
<1>a. /\ net \in [Messages -> Nat] /\ m_eVideoSyncMode \in [Devices -> Modes]
      /\ source \in [Devices -> Urls \union {NoUrl}]
    BY DEF TypeOK, RolesTypeOK
<1>b. CASE plays' = NoPlays
    BY <1>b DEF Healing
<1>c. CASE plays' # NoPlays
    <2>1. /\ net' = Broadcast(Broadcast(net, d, "StartPlay", url), d, "Master_Login", NoUrl)
          /\ AtRest /\ Hears(d) /\ m_eVideoSyncMode[d] = "MASTER"
          /\ plays' = IF plays.by = d THEN [plays EXCEPT !.count = 2] ELSE [by |-> d, count |-> 1]
          /\ m_MasterAddr' = [m_MasterAddr EXCEPT ![d] = d]
          /\ source' = [source EXCEPT ![d] = url]
          /\ UNCHANGED <<m_eVideoSyncMode, deaf>>
        BY <1>c DEF PlayAsMaster, PlaysAfter
    <2>2. plays'.by = d /\ (plays'.count = 1 \/ (plays'.count = 2 /\ plays.by = d))
        BY <2>1 DEF TypeOK
    <2> DEFINE n == Broadcast(net, d, "StartPlay", url)
    <2>4. /\ n \in [Messages -> Nat]
          /\ \A m \in Messages :
                /\ n[m] >= net[m]
                /\ m.from = d /\ m.cmd = "StartPlay" /\ m.url = url => n[m] > 0
                /\ ~(m.from = d /\ m.cmd = "StartPlay" /\ m.url = url) => n[m] = net[m]
        BY <1>a, BroadcastAdds
    <2>5. /\ net' \in [Messages -> Nat]
          /\ \A m \in Messages :
                /\ net'[m] >= n[m]
                /\ m.from = d /\ m.cmd = "Master_Login" /\ m.url = NoUrl => net'[m] > 0
                /\ ~(m.from = d /\ m.cmd = "Master_Login" /\ m.url = NoUrl) => net'[m] = n[m]
        BY <2>1, <2>4, BroadcastAdds
    <2>6. \A x \in Devices : Reader(x)' = Reader(x)
        BY <2>1 DEF Reader, Hears
    <2>7. ASSUME NEW m \in Messages, InFlight(m)', Reader(m.to)'
          PROVE  m.from = d /\ (m.cmd = "Master_Login" \/ (m.cmd = "StartPlay" /\ m.url = url))
        <3>1. m.to \in Devices /\ Reader(m.to)
            BY <2>6, <2>7, MessageHas
        <3>2. ~(net[m] > 0)
            BY <2>1, <3>1 DEF AtRest, Reader, Hears, InFlight
        <3>3. net'[m] > 0
            BY <2>7 DEF InFlight
        <3>4. QED
            BY <2>4, <2>5, <3>2, <3>3
    <2>8. OnlyItIsHeard(d)'
        BY <2>7 DEF OnlyItIsHeard
    <2>9. \A x \in Devices \ {d} : InFlight(Login(d, x))'
        BY <2>5, LoginIs DEF InFlight
    <2>10. ASSUME NEW x \in Devices \ {d} PROVE InFlight(StartPlay(d, x, url))'
        <3>1. n[StartPlay(d, x, url)] > 0 /\ StartPlay(d, x, url) \in Messages
            BY <2>4, StartPlayIs
        <3>2. net'[StartPlay(d, x, url)] > 0
            BY <2>4, <2>5, <3>1
        <3>3. QED
            BY <3>2 DEF InFlight
    <2>11. source'[d] = url
        BY <1>a, <2>1
    <2>12. ASSUME plays.by = d PROVE AllShowIt(d)'
        <3>1. ASSUME NEW x \in Devices \ {d}, Reader(x)' PROVE Follows(x, d)'
            <4>1. Reader(x) /\ ~InFlight(Login(d, x))
                BY <2>1, <2>6, <3>1, LoginIs DEF AtRest, Reader, Hears
            <4>2. plays # NoPlays
                BY <2>12, ConstantsAssumption DEF NoPlays
            <4>3. Follows(x, d)
                BY <2>12, <3>1, <4>1, <4>2 DEF Healing, AllAreTold
            <4>4. m_MasterAddr'[x] = m_MasterAddr[x]
                BY <2>1, <3>1 DEF TypeOK, RolesTypeOK
            <4>5. QED
                BY <2>1, <4>3, <4>4 DEF Follows
        <3>2. \A x \in Devices \ {d} : InFlight(StartPlay(d, x, source[d]))'
            BY <2>10, <2>11
        <3>3. QED
            BY <2>7, <2>11, <3>1, <3>2 DEF AllShowIt
    <2>13. QED
        BY <2>1, <2>2, <2>8, <2>9, <2>12 DEF Healing, AllAreTold, Hears
<1>d. QED
    BY <1>b, <1>c

\* A player that reads what the master sent.
LEMMA OnHealing ==
    ASSUME TypeOK, Healing, NEW m \in Messages, Reads(m), On(m), UNCHANGED <<deaf, plays>>
    PROVE  Healing'
<1> SUFFICES ASSUME plays # NoPlays PROVE Healing'
    BY DEF Healing
<1> DEFINE p == plays.by
<1>a. /\ p \in Devices /\ plays.count \in {1, 2} /\ m_eVideoSyncMode[p] = "MASTER" /\ Hears(p)
      /\ OnlyItIsHeard(p) /\ AllAreTold(p) /\ (plays.count = 2 => AllShowIt(p))
    BY DEF Healing
<1>b. /\ m_eVideoSyncMode \in [Devices -> Modes] /\ m_MasterAddr \in [Devices -> Devices \union {NoMaster}]
      /\ source \in [Devices -> Urls \union {NoUrl}] /\ net \in [Messages -> Nat]
    BY DEF TypeOK, RolesTypeOK
<1>c. m.to \in Devices /\ m.from = p /\ m.cmd \in {"StartPlay", "Master_Login"} /\ m.to # p
    BY <1>a, MessageHas DEF Reads, OnlyItIsHeard, Reader
<1>d. \A k \in Messages : Without(net, m)[k] <= net[k] /\ (k # m => Without(net, m)[k] = net[k])
    BY <1>b, WithoutTakes DEF Reads, InFlight
<1> USE DEF roleVars
<1>1. net' = Without(net, m)
    BY <1>c DEF On, OnSlaveLogin, OnMasterLogin, OnMasterLogout, OnMasterChange, OnStartPlay
<1>2. \A k \in Messages : (InFlight(k)' => InFlight(k)) /\ (k # m /\ InFlight(k) => InFlight(k)')
    <2>1. net' \in [Messages -> Nat]
        BY OnType DEF NetTypeOK
    <2>2. QED
        BY <1>1, <1>b, <1>d, <2>1 DEF InFlight
<1>3. \A x \in Devices : Reader(x)' => Reader(x)
    <2>1. \A x \in Devices : m_eVideoSyncMode'[x] = m_eVideoSyncMode[x] \/ x = m.to
        BY <1>b, <1>c DEF On, OnSlaveLogin, OnMasterLogin, OnMasterLogout, OnMasterChange, OnStartPlay
    <2>2. Reader(m.to)
        BY DEF Reads, Reader
    <2>3. QED
        BY <2>1, <2>2 DEF Reader, Hears
<1>4. OnlyItIsHeard(p)'
    BY <1>a, <1>2, <1>3, MessageHas DEF OnlyItIsHeard
<1>5. m_eVideoSyncMode'[p] = "MASTER" /\ Hears(p)' /\ source'[p] = source[p]
    BY <1>a, <1>b, <1>c DEF On, OnSlaveLogin, OnMasterLogin, OnMasterLogout, OnMasterChange, OnStartPlay, Hears
<1>6. CASE m.cmd = "Master_Login"
    <2>1. /\ m_MasterAddr' = [m_MasterAddr EXCEPT ![m.to] = m.from]
          /\ m_eVideoSyncMode' = [m_eVideoSyncMode EXCEPT ![m.to] = "SLAVE"]
          /\ source' = source
        BY <1>6 DEF On, OnSlaveLogin, OnMasterLogin, OnMasterLogout, OnMasterChange, OnStartPlay
    <2>2. Follows(m.to, p)'
        BY <1>b, <1>c, <2>1 DEF Follows
    <2>3. \A x \in Devices : x # m.to /\ Follows(x, p) => Follows(x, p)'
        BY <1>b, <2>1 DEF Follows
    <2>4. \A x \in Devices \ {p} : x # m.to => Login(p, x) # m
        BY <1>a, LoginIs
    <2>5. AllAreTold(p)'
        BY <1>2, <1>3, <1>a, <2>2, <2>3, <2>4, LoginIs DEF AllAreTold
    <2>6. ASSUME plays.count = 2 PROVE AllShowIt(p)'
        <3>1. AllShowIt(p)
            BY <1>a, <2>6
        <3>2. \A k \in Messages :
                  InFlight(k)' /\ Reader(k.to)' /\ k.cmd = "StartPlay" => k.url = source'[p]
            BY <1>2, <1>3, <2>1, <3>1, MessageHas DEF AllShowIt
        <3>3. ASSUME NEW x \in Devices \ {p}, Reader(x)'
              PROVE  Follows(x, p)' /\ (InFlight(StartPlay(p, x, source[p]))' \/ source'[x] = source'[p])
            <4>1. Follows(x, p) /\ (InFlight(StartPlay(p, x, source[p])) \/ source[x] = source[p])
                BY <1>3, <3>1, <3>3 DEF AllShowIt
            <4>2. Follows(x, p)'
                BY <2>2, <2>3, <3>3, <4>1
            <4>3. StartPlay(p, x, source[p]) # m
                BY <1>6 DEF StartPlay, Message
            <4>4. source[x] # source[p] => InFlight(StartPlay(p, x, source[p]))'
                <5>1. SUFFICES ASSUME InFlight(StartPlay(p, x, source[p]))
                               PROVE  InFlight(StartPlay(p, x, source[p]))'
                    BY <4>1
                <5>2. net'[StartPlay(p, x, source[p])] = net[StartPlay(p, x, source[p])]
                    BY <1>1, <1>b, <4>3 DEF Without
                <5>3. QED
                    BY <2>1, <5>1, <5>2 DEF InFlight
            <4>5. QED
                BY <2>1, <4>2, <4>4
        <3>4. QED
            BY <1>5, <2>1, <3>1, <3>2, <3>3 DEF AllShowIt
    <2>7. QED
        BY <1>4, <1>5, <1>a, <2>5, <2>6 DEF Healing
<1>7. CASE m.cmd = "StartPlay"
    <2>1. /\ UNCHANGED <<m_eVideoSyncMode, m_MasterAddr>>
          /\ IF Follows(m.to, m.from) THEN source' = [source EXCEPT ![m.to] = m.url]
                                      ELSE UNCHANGED source
        BY <1>7 DEF On, OnSlaveLogin, OnMasterLogin, OnMasterLogout, OnMasterChange, OnStartPlay, Follows
    <2>2. \A x \in Devices : Follows(x, p)' = Follows(x, p)
        BY <2>1 DEF Follows
    <2>3. \A x \in Devices \ {p} : Login(p, x) # m /\ Login(p, x) \in Messages
        BY <1>7, <1>a, LoginIs
    <2>4. AllAreTold(p)'
        BY <1>2, <1>3, <1>a, <2>2, <2>3 DEF AllAreTold
    <2>5. ASSUME plays.count = 2 PROVE AllShowIt(p)'
        <3>1. AllShowIt(p)
            BY <1>a, <2>5
        <3>2. \A k \in Messages :
                  InFlight(k)' /\ Reader(k.to)' /\ k.cmd = "StartPlay" => k.url = source'[p]
            BY <1>2, <1>3, <1>5, <3>1, MessageHas DEF AllShowIt
        <3>3. m.url = source[p] /\ Follows(m.to, p)
            BY <1>7, <1>c, <3>1 DEF AllShowIt, Reads, Reader
        <3>4. source'[m.to] = source[p] /\ \A x \in Devices : x # m.to => source'[x] = source[x]
            BY <1>b, <1>c, <2>1, <3>3
        <3>5. ASSUME NEW x \in Devices \ {p}, Reader(x)'
              PROVE  Follows(x, p)' /\ (InFlight(StartPlay(p, x, source[p]))' \/ source'[x] = source'[p])
            <4>1. Follows(x, p) /\ (InFlight(StartPlay(p, x, source[p])) \/ source[x] = source[p])
                BY <1>3, <3>1, <3>5 DEF AllShowIt
            <4>2. CASE x = m.to
                BY <1>5, <2>2, <3>4, <4>1, <4>2
            <4>3. CASE x # m.to
                <5>1. StartPlay(p, x, source[p]) # m
                    BY <4>3 DEF StartPlay, Message
                <5>2. Without(net, m)[StartPlay(p, x, source[p])] = net[StartPlay(p, x, source[p])]
                    BY <1>b, <5>1 DEF Without
                <5>3. QED
                    BY <1>1, <1>5, <2>2, <3>4, <3>5, <4>1, <4>3, <5>2 DEF InFlight
            <4>4. QED
                BY <4>2, <4>3
        <3>6. QED
            BY <1>5, <3>1, <3>2, <3>5 DEF AllShowIt
    <2>6. QED
        BY <1>4, <1>5, <1>a, <2>4, <2>5 DEF Healing
<1>8. QED
    BY <1>c, <1>6, <1>7

\* Steps that change nothing any reader sees.
LEMMA NothingHealing ==
    ASSUME TypeOK, Healing, UNCHANGED <<m_eVideoSyncMode, m_MasterAddr, source, plays>>,
           \A d \in Devices : Reader(d)' = Reader(d),
           \A d \in Devices : m_eVideoSyncMode[d] = "MASTER" => Hears(d)' = Hears(d),
           \A m \in Messages : InFlight(m)' = InFlight(m)
    PROVE  Healing'
<1> SUFFICES ASSUME plays # NoPlays PROVE Healing'
    BY DEF Healing
<1> DEFINE p == plays.by
<1>a. /\ p \in Devices /\ plays.count \in {1, 2} /\ m_eVideoSyncMode[p] = "MASTER" /\ Hears(p)
      /\ OnlyItIsHeard(p) /\ AllAreTold(p) /\ (plays.count = 2 => AllShowIt(p))
    BY DEF Healing
<1>1. OnlyItIsHeard(p)'
    BY <1>a, MessageHas DEF OnlyItIsHeard
<1>2. AllAreTold(p)'
    BY <1>a, LoginIs DEF AllAreTold, Follows
<1>3. ASSUME plays.count = 2 PROVE AllShowIt(p)'
    <2>1. AllShowIt(p)
        BY <1>a, <1>3
    <2>2. \A d \in Devices \ {p} : StartPlay(p, d, source[p]) \in Messages
        BY <1>a, <2>1, StartPlayIs DEF AllShowIt
    <2>3. QED
        BY <1>a, <2>1, <2>2, MessageHas DEF AllShowIt, Follows
<1>4. QED
    BY <1>a, <1>1, <1>2, <1>3 DEF Healing

\* A master that starts a film on a quiet network becomes the only one, and of its next film all
\* show the film.
THEOREM FilmsHeal == Spec => []PlayHeals
<1>1. Init => Healing
    BY DEF Init, Healing
<1>2. ASSUME TypeOK, Healing, [Next]_vars PROVE Healing'
    <2>1. ASSUME NEW d \in Devices, NEW url \in Urls, PlayAsMaster(d, url) PROVE Healing'
        BY <1>2, <2>1, PlayHealing
    <2>2. ASSUME NEW d \in Devices, UdpReceiveData(d) PROVE Healing'
        BY <1>2, <2>2, OnHealing DEF UdpReceiveData
    <2>3. ASSUME NEW d \in Devices, LeaveUnread(d) PROVE Healing'
        <3>1. /\ m_eVideoSyncMode[d] = "DISABLED" /\ deaf' = deaf \union {d}
              /\ UNCHANGED <<m_eVideoSyncMode, m_MasterAddr, source, net, plays>>
            BY <2>3 DEF LeaveUnread, roleVars
        <3>2. \A x \in Devices : Reader(x)' = Reader(x)
            BY <3>1 DEF Reader, Hears
        <3>3. \A x \in Devices : m_eVideoSyncMode[x] = "MASTER" => Hears(x)' = Hears(x)
            BY <3>1 DEF Hears
        <3>4. \A m \in Messages : InFlight(m)' = InFlight(m)
            BY <3>1 DEF InFlight
        <3>5. QED
            BY <1>2, <3>1, <3>2, <3>3, <3>4, NothingHealing
    <2>4. ASSUME NEW m \in Messages, Duplicate(m) PROVE Healing'
        <3>1. UNCHANGED <<m_eVideoSyncMode, m_MasterAddr, source, deaf, plays>>
            BY <2>4 DEF Duplicate, roleVars
        <3>2. \A k \in Messages : InFlight(k)' = InFlight(k)
            BY <1>2, <2>4 DEF Duplicate, InFlight, TypeOK
        <3>3. \A x \in Devices : Reader(x)' = Reader(x) /\ Hears(x)' = Hears(x)
            BY <3>1 DEF Reader, Hears
        <3>4. QED
            BY <1>2, <3>1, <3>2, <3>3, NothingHealing
    <2>5. CASE UNCHANGED vars
        <3>1. UNCHANGED <<m_eVideoSyncMode, m_MasterAddr, source, net, deaf, plays>>
            BY <2>5 DEF vars, roleVars
        <3>2. \A x \in Devices : Reader(x)' = Reader(x) /\ Hears(x)' = Hears(x)
            BY <3>1 DEF Reader, Hears
        <3>3. \A m \in Messages : InFlight(m)' = InFlight(m)
            BY <3>1 DEF InFlight
        <3>4. QED
            BY <1>2, <3>1, <3>2, <3>3, NothingHealing
    <2>6. ASSUME plays' = NoPlays PROVE Healing'
        BY <2>6 DEF Healing
    <2>7. ASSUME NEW d \in Devices,
                 \/ \E new \in Modes : setVideoSyncMode(d, new)
                 \/ \E other \in Devices : setVideoSyncMaster(d, other)
                 \/ \E url \in Urls : PlayAlone(d, url)
                 \/ Restart(d)
          PROVE  Healing'
        BY <2>6, <2>7 DEF setVideoSyncMode, setVideoSyncMaster, PlayAlone, Restart
    <2>8. ASSUME NEW m \in Messages, Lose(m) PROVE Healing'
        BY <2>6, <2>8 DEF Lose
    <2>9. QED
        BY <1>2, <2>1, <2>2, <2>3, <2>4, <2>5, <2>7, <2>8 DEF Next, Operator, Fault, Sockets
<1>3. TypeOK /\ Healing => PlayHeals
    <2> SUFFICES ASSUME TypeOK, Healing, AtRest, plays.count > 0 PROVE
            /\ Masters = {plays.by}
            /\ \A d \in Devices \ {plays.by} :
                  Hears(d) /\ m_eVideoSyncMode[d] # "DISABLED" =>
                      /\ m_MasterAddr[d] = plays.by
                      /\ plays.count = 2 => source[d] = source[plays.by]
        BY DEF PlayHeals
    <2> DEFINE p == plays.by
    <2>1. plays # NoPlays
        BY DEF NoPlays
    <2>2. /\ p \in Devices /\ m_eVideoSyncMode[p] = "MASTER" /\ Hears(p)
          /\ AllAreTold(p) /\ (plays.count = 2 => AllShowIt(p))
        BY <2>1 DEF Healing
    <2>3. \A m \in Messages : Reader(m.to) => ~InFlight(m)
        BY DEF AtRest, Reader, Hears
    <2>4. \A d \in Devices \ {p} : Reader(d) => Follows(d, p)
        BY <2>2, <2>3, LoginIs DEF AllAreTold
    <2>5. Masters = {p}
        BY <2>2, <2>4 DEF Masters, Reader, Follows
    <2>6. ASSUME plays.count = 2, NEW d \in Devices \ {p}, Reader(d) PROVE source[d] = source[p]
        BY <2>2, <2>3, <2>6, StartPlayIs DEF AllShowIt
    <2>7. QED
        BY <2>4, <2>5, <2>6 DEF Reader, Follows
<1>4. QED
    BY <1>1, <1>2, <1>3, TypeCorrect, PTL DEF Spec

=============================================================================
