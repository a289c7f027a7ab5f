# codeCap: TLA+ models, checks and proofs

codeCap is the firmware of a networked signage player. A set of Linux processes
share one device: a **media player** drives the video hardware, a **user
interface** (a Qt web browser application) decides what to play, a **property
service** keeps the device's settings, and small services read knobs, buttons,
the network and SNMP. The processes talk over D-Bus, over Unix datagram sockets
and over UDP between devices; inside a process, threads talk through two message
mechanisms of the base library `LinuxBaseLib`.

This directory holds TLA+ modules of the parts whose correctness depends on the
order of events, the TLC configurations that check them on small instances, and
proofs that TLAPS checks for all values of the constants. Source paths below are
relative to `src/thtfit/`.

Contents: [1 inventory](#1-inventory) - [2 modules](#2-modules-and-the-code) -
[3 runs](#3-the-runs) - [4 fairness](#4-fairness) - [5 proofs](#5-proofs) -
[6 what the models leave out](#6-what-the-models-leave-out) -
[7 what checking showed](#7-what-checking-showed-about-the-code) -
[8 plan](#8-plan) - [9 running the tools](#9-running-the-tools)

## 1 Inventory

For each part: its state, its operations, what it interacts with, what is hard
about it, and what makes it correct. `PROJECT.json` lists all thirty parts and
forty hazards with their lines.

### Modelled

**Thread message queue** (`LinuxBaseLib/ThreadMessageQueue.cpp`, `EventEx.cpp`).
State: a list of at most `MSG_QUEUE_MAX_ITEM_NUM` items under a mutex, a
manual-reset event for "there are items", one event per item for "processed", a
weak pointer to a listener. Operations: `PostMessage`, `SendMessage`,
`SendMessageTimeout`; `GetMessage`, `GetMessageTimeout`, `PeekMessage`,
`WaitMessageTimeout`; `RemoveAllMessage`, `setEventListener`. Used by every
player call (`QMediaSrv`). Hard: two locks and a condition variable taken in
turn, wakeups against resets, timeouts against late answers, spurious wakeups, a
full queue, a listener that dies. Correct when it is a bounded FIFO that hands
each item to one receiver, never leaves an item to a sleeping receiver, and
answers a sender only for a processed item.

**System property store** (`SysBaseSrv/SysPropOps.cpp`, `SysBaseSrv.cpp`).
State: a map of keys to values with a persistence mark, a one second save timer,
a data file and its backup. Operations: start (`Load`, backup or recovery),
`SysProp_Set`, `SysProp_Del`, the timer's `Save` and `sync()`, stop. Interacts
with its clients through the socket below and with the file system. Hard: a
process killed, a write failing or power lost between any two steps of a save
that rewrites the only data file in place. Correct when a restart finds what was
saved last, or the backup of the last start, and when every change is saved or
scheduled to be.

**System property protocol** (`SysBaseSrv/SysPropOpsClient.cpp`, the datagram
side of `SysBaseSrv.cpp`). State: one socket, one serial number and one mutex
shared by the threads of a process; requests and replies in flight. Operations:
package a header, the locked transaction (send, receive until the reply comes),
the service's receive, handle and reply. Hard: late replies, signals that
interrupt a receive, restarts of the service, two threads of one client. Correct
when no call returns an answer that is not its own, and when what an earlier call
left behind disturbs later calls only briefly.

**Playback server** (`MediaPlayer/MediaSrv.cpp`, `NexusPlayer.cpp`). State: the
play status, the playback identifier, the source, the remaining loops, the
message queue, the Nexus player. Operations: `setDataSource`, `Prepare`, `Play`,
`Stop`, `quit`, and the end of stream callback. Three threads: the application's,
the `QMediaSrv` thread that handles messages, and the Nexus thread of the
callback. Hard: ends of stream that arrive after the playback they belong to, a
`Stop` that returns before its message is handled, a full queue that loses the
end of stream, wrapping identifiers. Correct when the player runs only while the
status says so, a stop stops, each end is announced once it happened and names
its source, and every call returns.

**Event loop** (`LinuxBaseLib/EventCenter.cpp`, `EventThread.cpp`). State: a
message list, a datagram socket that wakes the loop, registered descriptors,
timers ordered by what is left of them. Operations: `PostMessage` by any thread
and by the signal handler, `GetMessage` (messages, then input, then timers),
`DispatchMessage`, `RegisterTimer`, `UnregisterTimer`. The property service and
the button service run on it. Hard: messages posted between the look at the list
and `select`, a wakeup socket that holds few bytes, timers measured by a wall
clock that can be set, identifiers that wrap. Correct when no posted message is
slept on, every message is dispatched, timers keep their identifiers apart and
fire.

**Video synchronisation** (`MediaPlayer/VideoSync.cpp`). State of each player:
its mode (MASTER, SLAVE, DISABLED), its master, the film it shows, both saved as
properties; of a master, the list of its slaves and the time it last read; of a
slave, two flags and four times. Operations: `setVideoSyncMode`,
`setVideoSyncMaster`, the start of a film, the handler of the datagram socket,
the timer that starts a round of the time exchange, and the threads of the
exchange and of the seek. Interacts with other players over UDP only. Hard:
datagrams that are lost, doubled, reordered or late, two masters at once, sends
that fail, restarts, two threads that share a time without a lock. Correct when
at most one master is left on a quiet network, all follow it, and an offset is
computed from the times of one exchange.

**Playback control of the user interface** (`WebBrowser/WebBrowserApp.cpp`,
`PlaylistData.cpp`). State: the playback it waits for, the list of ended
playbacks, the playlist and its cursor, loop counters, two duration timers, a
posted event, what state it is in, and the timer of the idle playlist. Operations:
play a list or a file, next, keys, four kinds of stop, the signal of an end of
stream, the timers, the posted start, the start of the idle playlist. Hard: an end
that arrives when something else plays already or that is announced twice, timers
of a playback that is over, an idle timer that every stop starts and that runs on
while the next playback does, a stop between an end and the next start, loops
counted both by the player and by the interface. Correct when each end is logged
once, each file and entry plays its loops, a stop is final until the user or the
configured idle timer says otherwise, and nothing cuts a playback but the user,
its own timer and the posted start of its list.

### How they interact

    user ----> user interface (PlaybackControl)
                   |  D-Bus calls                 ^  signal PlaybackEos2
                   v                              |
               player application thread          |
                   |  CThreadMessageQueue (ThreadMessageQueue, Mailbox)
                   v                              |
    Nexus thread --end of stream--> QMediaSrv thread (MediaSrv) --> Nexus player
                   |
                   +-- video synchronisation (VideoSyncRoles, VideoSyncTime)
                   |        <== UDP ==> the same on other players
                   |  property calls (SysPropOpsClient)
                   v
    any process --Unix datagrams--> property service = event loop (EventCenter)
                                                        + store   (SysPropStore)

`MediaSrv` takes its queue from what `Mailbox` specifies, and `ThreadMessageQueue`
is shown, by a run and by a proof, to implement `Mailbox`: the two models meet
there. `SysPropOpsClient` is shown in the same two ways to implement `CallService`.
`PlaybackControl` sees the player as what `MediaSrv` promises (section 6).

### Planned

* **PowerMate knob** and **button input** (`SystemService/PowerMate.cpp`,
  `GpioBtnInput/`): hot plugging while a thread reads, interrupts from a foreign
  thread.

### Not modelled

Device input and output (LED screen, serial port, tuner, real time clock, image
decoder, keypad), thin wrappers (threads and mutexes, D-Bus, XML, global status
in shared memory), sequential helpers of the base library, file transfers, the
network manager (it runs system tools and parses their output), the SNMP agent
(generated tables over D-Bus calls), the upgrade display, scripts and the
JavaScript user interface. The reason for each is in `PROJECT.json`.

Most of the lines of the repository are of these kinds: a vendored SNMP library
(`snmp++`), SNMP tables and D-Bus adaptors that are generated, screens of the
user interface, register access of drivers, build scripts. They have no states
whose order matters, so the share of the lines that the models stand for stays
small; of the files that hold the program's own protocols (the base library's
two message mechanisms, the property service, the playback server, the video
synchronisation, the playback control) the parts that change shared state are
modelled. `MediaPlayerApp.cpp` and the SNMP agent's `player.cpp` and `system.cpp`
forward one call each way; the rest of `WebBrowserApp.cpp` lays out screens and
reads files.

## 2 Modules and the code

| module | models | main correspondence |
|---|---|---|
| `EventEx` | `CEventEx` | an event is the record of its flag and of the threads in the condition wait; every member function is one operator, since it runs under the event's mutex |
| `Mailbox` | (abstract) | what the queue promises: Put, Take, Finish, Answer, Clear |
| `ThreadMessageQueue` | `CThreadMessageQueue`, `QMediaSrv::OnNewMessage` | one action per critical section; `pc[t]` names the next one |
| `SysPropStore` | `CSysPropOps`, the save timer of `CSysBaseSrvApp` | one action per step that a crash can separate; files as (kernel, medium) pairs |
| `CallService` | (abstract) | what the service promises to the threads of a process: Begin, Send, Take, Execute, Answer, GiveUp, Crash |
| `SysPropOpsClient` | `CSysPropOpsClient`, `OnSrvSckRead` | one action per mutex section, send, receive |
| `MediaSrv` | `QMediaSrv` with its three threads | a handler is split where another thread can see or disturb it |
| `EventCenter` | `CEventCenter`, `DoEvtLoop`, the signal handler | one action per step between which another thread, a signal or the clock can act |
| `VideoSyncRoles` | `QVideoSync`: modes, masters, films | one action per order of the operator and per command of a datagram |
| `VideoSyncTime` | `QVideoSync`: `ProtocolThread`, the exchange, `PrecisionSyncThread` | one action per datagram sent or handled, on the thread that does it |
| `PlaybackControl` | `QWebBrowserApp`: lists, files, ends, timers, stops | one action per handler, and one per try to play that it leads to (`pending`) |

Each of the eight components has a module of the same name and `Proofs` with its
theorems (`EventEx` and `Mailbox` are part of the queue, `CallService` of the
protocol).

An `MC` module next to each component gives symmetry sets and values for the
configurations. Definitions commented "Mutant of X" are plausible bugs of X; no
specification uses them. Each is paired with a property in `PROJECT.json` that
TLC finds violated when the bug replaces X.

**The queue.** `PostMessage` is three actions: append under the list mutex
(`PostAppend`, or `PostBusy` when full), `SetEvent` still under it
(`PostSignal`), and the listener callback after the unlock (`PostNotify`). The
`Send` calls go on to `SendWait`/`SendWake`/`SendTimeout` on the item's event.
The receive calls share `TakeHead`/`TakeNone` (under the mutex; the empty case
resets the event) and `TakeWait`/`TakeWake`/`TakeTimeout`; `OnNewMessage` is the
drain that the callback triggers. `Faults` selects spurious wakeups,
`RemoveAllMessage` and the death of the listener. `item`, `posted`, `processed`
and `outcome` record what callers see.

**The store.** `page` is what the kernel returns for a file now, `disk` what the
medium holds. `Save` is `OnTimer` (open with "wb": the old content is gone),
`SaveWrites` (pairs, checksum, close) and `Sync`, with `SaveFails` and
`SaveCloseFails` (`CFile::Close` drops the result of `fclose`). A torn file
loads as any subset of its pairs, which the checksum then rejects; the pairs stay
in the map when the backup is torn too. `stored`, `atBoot`, `durable` and
`saveFailed` are history variables for the properties.

**The protocol.** `call[t]` is where a thread is in its call, the serial number
it packaged, whether a datagram that was not the reply moved the read offset of
its buffer (`RecvOther`), and whether its four seconds were used up waiting for
the mutex. A reply is compared with the serial number packaged *last*
(`IsReply`), as in the code. `calm` divides a behaviour into a first part where
faults happen and a second part where they do not. For `CallService` a call is its
serial number: it is open until the thread sends, sent while the thread receives,
and over when it returned (`StageOf`); the requests that wait are those in the
service's socket, and the one in hand is what the service read and has not
carried out. An answer is an abstract `Answer` unless another thread overtook the
call: a call that was overtaken may have taken a late reply, and is over without an
abstract answer. Replies have no place in the abstract service.

**The playback server.** A call of the application is a message; `Answered` and
`StopSeesIdle` are the two ways it returns. Handlers are split at each write of
the status that `Stop` polls, and at the stop of the player. `EndOfStream`,
`onPlaybackEos` (reads `m_PlaybackId` when it runs) and `PostPlaybackEos` are the
Nexus thread. `player`, `started` and `announced` name playbacks by the number of
their `Play` call, so that the properties do not depend on the wrapping
identifier. `StopDrains` says whether stopping the player waits for a callback in
progress, which the platform library decides.

**The event loop.** `loop` is where the loop is; `posting` holds those between
the append to the list and the byte to the socket. `BeginSelect` computes the
timeout from the first timer of the list, `SelectFd`, `GetTimerMessage` and
`NoTimerMessage` are its returns. Timers have an age by the wall clock: `Tick`
lets time pass, `SetClock` moves it. `RegisterTimer` inserts by what is left,
with `NewTimerId` searching a free identifier modulo `IdModulus`: from the last
one given, or from 0 after the range wrapped (`FirstCandidate`).

**Roles of the video synchronisation.** The network is a bag of messages;
`UdpReceiveData(d)` takes any of them, so they are reordered freely. `Lose`,
`Duplicate`, `Restart` (back to the saved properties) and a send that fails are
the faults. `setVideoSyncMode`, `setVideoSyncMaster`, `PlayAsMaster` and
`PlayAlone` are the operator's orders; a change of mode is announced by the
command `Announcement` gives. `LeaveUnread` is the handler that returns without
a read because the player is DISABLED: the Qt socket then signals nothing more,
and the player is `deaf` until it restarts. `disturbed` and `plays` are history
variables.

**Time exchange.** A time is represented by the exchange it was read in (round
and slave), which is all that the properties need and what the code lacks: its
datagrams do not say it. `SendSync` and `SendFollowUp` are the two halves of the
`ProtocolThread`'s visit to a slave, with the sleep of 10 ms between them;
`OnDelayReq` (send of Resp) and `MasterForgets` (the reset of `uTimestampA` after
it) are the main thread's, which the other thread can come between.
`Init` leaves `bReqState` open, as the constructor does. "late" is the fault that
an answer takes longer than the sleep.

**Playback control.** A handler that goes on to play something leaves it in
`pending` ("next", "first", "pre", "file"), whose steps try entry after entry
before any other handler runs; the player may end its playback between them.
`cursor` gathers the current entry and the flags and static variables of
`QPlaylistData` that decide where a move goes. `EntryPlays`, `EntryFails`,
`EntryLoops` and `NoEntry` are the outcomes of a try. `EndOfStream` is the
player's, `On_MP_PlaybackEosOther`, `...InList` and `...OfFile` the branches of
the slot of `PlaybackEos2`. The stops are `StopAll`, `StopContent`, `RemoteStop`
and `StopMedia`; they differ in which timers and which state they leave.
`StopPlayback` ends in `BecomesIdle`: the state is `State_Idle`, and where
`IdleDetect` says that an idle time is configured and no idle playlist plays,
`m_PlayIdlePlayList_Timer` is started (`startIdelDetectTimer`). `StopMedia` calls
the player alone and does not. When the timer fires, `PlayIdlePlayListFile` loads
the idle playlist if the state is `State_Idle` still. Any key ends the idle
playlist before it does what it does (`SomeoneIsThere`, `KeyWaits`): `OtherKey` is a
key that does nothing else here, `On_GpioBtnKey` a button, which goes on waiting
for the playback it stopped. `logged`, `stopped`, `file` and `row` are history
variables.

## 3 The runs

Twelve runs, one per question. Every property of a passing run has a mutant.

| run | instance | distinct states | properties |
|---|---|---|---|
| `queue_calls` | 2 senders, 2 receivers, 2 items, capacity 1, all calls, `RemoveAllMessage`, dying listener | 787 k | `NoLostWakeup`, `AnswerMeansProcessed`, `ImplementsMailbox` |
| `queue_listener` | 2 senders, 1 draining receiver, 3 items, capacity 2, fair | 38 k | `SendReturns`, `NotifiedIsProcessed` |
| `sysprop_faults` | 2 keys, 1 value; stops, kills, power loss, failing write, close and copy; fair | 351 k | `RestartFindsSavedOrBoot`, `RestartFindsSaved`, `UnsavedIsScheduled`, `SavedSurvivesPowerLoss`, `ChangesAreSaved` |
| `playback` | 2 sources, 7 calls, queue of 1, identifiers modulo 3, `StopDrains`, fair | 231 k | `PlaybackEndsAfterItsLoops`, `CallsReturn`, `PlaybackEnds` |
| `playback_late` | 7 calls, queue of 2, identifiers modulo 4, callbacks that outlive a stop | 515 k | `PlayerRunsOnlyWhilePlaying`, `StoppedStaysStopped`, `SourceIsTheOnePlayed`, `EndIsAnnounced`, `StopEndsOnlyEarlierPlaybacks`, `EosEndsOnlyTheCurrentPlayback` |
| `client_calls` | 2 threads, 5 calls, late replies, signals, restarts, fair | 265 k | `AnswerWasServed`, `OneFailureAfterCalm`, `NothingIsServedLate`, `ImplementsCallService`, `CallsReturn` |
| `evtloop_messages` | 2 threads and a signal, socket of 2 bytes, 2 descriptors, fair | 44 k | `NoMessageIsSleptOn`, `EveryMessageHasItsByte`, `PostedIsDispatched` |
| `evtloop_timers` | 2 timers of lengths 1 and 3, identifiers modulo 4, clock steps -2 and +1, fair | 292 k | `SleepsUntilTheFirstTimer`, `TimerIdsDistinct`, `TimersFire` |
| `sync_roles` | 3 players, 1 film, 3 orders or faults of any kind, fair | 274 k | `TwoMastersAreTold`, `PlayHeals`, `OrdersSettle` |
| `sync_waiting` | 2 players, 3 orders, no fault, fair | (violated) | `WaitingSlaveIsFound` |
| `sync_time` | 3 slaves, 2 rounds, 1 fault of any kind | 2.4 M | `TimesOfOneExchange`, `NoTwoNeighboursAreSkipped` |
| `control` | 3 entries, 2 files, an idle time, 3 orders, 5 playbacks, 1 fault | 4.6 M | `EveryEndIsLoggedOnce`, `FilePlaysItsLoops`, `EntryPlaysItsLoops`, `StopIsFinal`, `PlaybackIsNotCut` |

`sync_waiting` is expected to fail: it checks what comments of the code say, and
shows what the code does instead (section 7).

What they show is said at each property in its module and at each run in
`PROJECT.json`. Why the bounds are enough:

* **Queue.** Two senders and two receivers give every pair of steps of two
  callers; capacity 1 makes the full queue the normal case, and capacity 2 with
  three items lets the queue fill again after a take. Spurious wakeups and every
  other size are covered by the proofs (section 5), which hold for all of them.
* **Store.** A file is torn or whole, and a property is lost by the failure of
  one key: two keys give a file that is torn between them, and a key is present
  or not, which tells an old version from a new one. The run is otherwise
  unbounded: any number of saves, restarts and failures.
* **Playback.** Seven calls are two complete playbacks
  (`setDataSource`, `Prepare`, `Play`, `Stop`, then `Prepare`, `Play`, `Stop` or
  `quit`), which the late end of stream of the first needs to meet the second.
  A queue of one message stands for the other forty commands filling the queue.
  Identifiers modulo 3 wrap within the run.
* **Protocol.** A stale reply, the call it spoils and two calls after it fit in
  five calls; two threads are enough for one to overtake the other.
* **Event loop.** The socket of one or two bytes is full at once; with an
  identifier space of 4 and two timers the search for a free identifier wraps.
  Timeouts 1 and 3 make the second timer registered both before and after the
  first in the list.
* **Roles.** Three players are two that contend and one that is told by both;
  three orders or faults suffice for two masters, a loss between them and a film
  that heals it. All initial modes are taken, up to the names of the players:
  the model treats the players alike, so initial states that differ in names
  only have the same behaviours. Any number of players and orders is proved.
* **Time exchange.** Three slaves have a first, a neighbour and one beyond; two
  rounds let what the first leaves behind meet the second. One fault suffices
  for times of two exchanges to meet in a slave; the theorem has any number.
* **Playback control.** The list has a timed entry, one that loops and a loop
  back; both files are to play twice, one of them with a duration. Three orders
  are a start, another start or a key, and a stop, in any order; the idle playlist
  starts without one, so that an order more can meet it. `IdleDetect` is TRUE: the
  timer may be late at will, which covers that it never fires, as when no idle time
  is configured. `MaxPlays` means that from then on every play fails, which the
  code meets as a failing file.

`CHECK_DEADLOCK FALSE` is set wherever calls, orders or rounds are bounded or the
thread really ends (`quit`, the event loop's `ended`); the store's run checks for
deadlock.

## 4 Fairness

| specification | assumption | why the code justifies it |
|---|---|---|
| `ThreadMessageQueue!FairSpec` | a thread inside a call takes its next step; a receiver keeps calling | threads are scheduled, the mutex is held over a few statements only; the receiver is a thread loop or the Qt event loop that delivers the queued callback |
| `SysPropStore!FairSpec` | the service goes on, a second passes, the due timer is handled | a single event loop with nothing to block on. Faults are possible: `ChangesAreSaved` claims a save only when changes and stops cease, and unless it failed |
| `MediaSrv!FairSpec` | the `QMediaSrv` thread, the callback and the return of a call take their steps; the application need not call | the threads block on nothing but what the guards say, and `Stop` looks again every 100 ms |
| `MediaSrv!FiniteMediaSpec` | also, a running player comes to its end of stream | finite files, which the player repeats whatever the loop count |
| `SysPropOpsClient!FairSpec` | strong for a thread's transaction, weak for a service that is up | the mutex is released and taken again for ever; it is not claimed that a waiting thread gets it first, only that it gets it eventually. The service is *not* assumed to come back: a receive times out |
| `VideoSyncRoles!Spec` | a player's event loop calls the handler of a signalled datagram | one Qt event loop per player. Nothing is assumed of orders, faults and the network |
| `EventCenter!FairSpec` | the loop and each poster run, time passes | a single thread in `select`; a poster blocked in `sendto` goes on when there is room |

No liveness is claimed of `VideoSyncTime` and `PlaybackControl`: in the first a
slave may always be skipped, in the second every play may fail.

## 5 Proofs

Thirty-nine theorems, in a `Proofs` module for each component, hold for every
value of the constants: any number of threads, players, slaves, items, calls,
orders and faults, any playlist, any capacity and any size of the identifiers.
They use only the named assumption `ConstantsAssumption` of the component, which
TLC evaluates in every run; three theorems state one more assumption, named below.
Every component has `TypeCorrect`. Every invariant and action property that a
passing run checks is the subject of a theorem, and so are both refinements.

| module | theorem | property |
|---|---|---|
| `ThreadMessageQueueProofs` | `NoItemIsStranded`, `AnswersAreProcessed`, `QueueImplementsMailbox` | `NoLostWakeup`, `AnswerMeansProcessed`, `ImplementsMailbox` |
| `SysPropStoreProofs` | `RestartsFindSavedOrBoot`, `RestartsFindSaved`, `SavedSurvives`, `UnsavedAreScheduled` | `RestartFindsSavedOrBoot`, `RestartFindsSaved`, `SavedSurvivesPowerLoss`, `UnsavedIsScheduled` |
| `SysPropOpsClientProofs` | `AnswersAreServed`, `NothingIsServedAfterwards`, `OneFailureInTheCalm`, `CallsImplementService` | `AnswerWasServed`, `NothingIsServedLate`, `OneFailureAfterCalm`, `ImplementsCallService` |
| `MediaSrvProofs` | `PlayerRunsOnlyPlaying`, `SourceIsKept`, `StopsHoldTheirPromise`, `EndsAreAnnounced`, `StopsEndWhatWasBefore`, `EndsOfStreamEndTheirPlayback`, `PlaybacksEndAfterTheirLoops` | `PlayerRunsOnlyWhilePlaying`, `SourceIsTheOnePlayed`, `StoppedStaysStopped`, `EndIsAnnounced`, `StopEndsOnlyEarlierPlaybacks`, `EosEndsOnlyTheCurrentPlayback`, `PlaybackEndsAfterItsLoops` |
| `EventCenterProofs` | `MessagesAreBounded`, `NoMessageIsLeftAsleep`, `TimerIdsStayDistinct`, `NoTimerIsSleptOn` | `EveryMessageHasItsByte`, `NoMessageIsSleptOn`, `TimerIdsDistinct`, `SleepsUntilTheFirstTimer` |
| `VideoSyncRolesProofs` | `MastersAreTold`, `FilmsHeal` | `TwoMastersAreTold`, `PlayHeals` |
| `VideoSyncTimeProofs` | `OffsetsAreOfOneExchange`, `NeighboursAreServed` | `TimesOfOneExchange`, `NoTwoNeighboursAreSkipped` |
| `PlaybackControlProofs` | `StopsAreFinal`, `NoPlaybackIsCut`, `EndsAreLoggedOnce`, `FilesPlayTheirLoops`, `EntriesPlayTheirLoops` | `StopIsFinal`, `PlaybackIsNotCut`, `EveryEndIsLoggedOnce`, `FilePlaysItsLoops`, `EntryPlaysItsLoops` |

Few of the properties are inductive. What each needs besides itself, and why:

**Queue.** `NoLostWakeup` speaks only of states where the mutex is free, and a
receiver's step depends on what a sender did while it held it. The inductive
invariant `IInv` adds `LockerSignals` (a sender is between `AddTail` and
`SetEvent` exactly while it holds the mutex), `UpMeansNoWaiters` (the event is
never up with a thread in its wait), `ItemsAreSignalled` (queued items are
signalled or their sender is about to signal) and `HasItem`. For the answers,
`AnswerInv` adds that an item's event is up only for a processed item
(`EventMeansProcessed`), that a receiver about to reply has processed its item
(`ReplyMeansProcessed`), and that a sender that was broadcast to and has not run
yet has its answer (`WokenMeansProcessed`). For the refinement, `PlaceInv` says
that the places an item can be in exclude one another, that no item is in two
hands, and that a call has no outcome before it returns: then the abstract stage
of an item is well defined (`StageIs`), an append, a take, a handled item, a
purge and a return with an answer are steps of `Mailbox`, and every other step
moves nothing (`NothingMoves`).

**Store.** `OneFileIsWhole`: from the first backup on one of the two files is
whole at every moment and holds what was saved or what the last start found.
`FilesOfThePhase` says which, phase by phase, since `cp` and `Save` read one file
while they rewrite the other. `DurableIsInBoth` carries what was synced through
losses of power, `SavedOrScheduled` carries changes from the end of the start on.

**Protocol.** One transaction at a time (`OneTransaction`) and serial numbers of
their own (`OwnSerials`) make what is in the sockets be given out and sent once
(`SentWasGiven`). The request of the call in a transaction comes last in whatever
queue it is in (`SentLast`), so that whatever waited before it is carried out, or
lost, before its answer (`NothingSettledWaits`). In the calm the first failure
finds the sockets empty and leaves them holding only what the call that waits
sent (`Clean`). The refinement reads the stage of a call off its thread
(`StagesAre`), which is well defined because serial numbers are given out once;
it adds `RequestsOnce`, that a request is in one place and is not carried out
before it gets there, so that `Execute` finds it new. That an `Answer` leaves
nothing behind it is `NothingSettledWaits` again, now in the abstract guard.

**Playback server.** `PlayerFollowsStatus` says for each step of a handler
whether the player runs. `CallInv`: of the requests in the queue only the Stops
may be left behind by callers that gave up, these precede the current request,
and they wait only while the status is IDLE; the numbers of the calls order all
of them. So a Stop ends only what was started before (`StartedBefore`), and a
playback that is over was announced or the Stop that ended it is about to
(`EndsAreReported`). `TagsAreTrue` compares the identifiers of ends of stream
with that of the playback; `EndsOfStreamEndTheirPlayback` assumes that the
identifiers do not come round, `MaxCalls < IdModulus`. `PlaybacksEndAfterTheirLoops`
does not need that, but assumes `StopDrains`. `LoopInv` counts: a callback
returns before its playback is over (`CallbacksAreOver`), so what is left of it is
a message in the queue in front of the next `Play`, and handled before it
(`EndsGoFirst`); then the ends of the player that are in the callback, in the queue
and with the handler, together with the loops that remain, cover what Play asked
for (`EndsAreCounted`). `EndsPosted` and `EndsTaken` reduce the count in a queue to
cardinalities of sets of positions. `ends` stops at the greatest loop count, which
is why `ConstantsAssumption` asks for one (in the code it is an `int`).

**Event loop, messages.** The argument counts: every message of the list is
matched by a byte in the socket, by a poster on its way to send one, or by the
loop itself, which has just read a byte and looks at the list next.
`NoMessageIsSleptOn` follows, since in `select` the loop covers none. The sum is
inductive with `WakeupHasItsByte` (the loop reads only bytes that are there) and
`LoopPostsWhenSignalled` (the signal handler's message is not counted twice).
`PostingCounts` reduces the cardinalities to the library's facts about finite
sets, which is why `ConstantsAssumption` asks for finitely many threads.

**Event loop, timers.** Identifiers stay distinct because the search looks among
more of them than there are timers (`IdModulus > ALLOWED_MAX_TIMER_CNT + 1`, both
fixed in the code) and so finds a free one. Until the clock is set no timer
started in the future and the list is ordered by what is left (`InOrder`), which
time does not change, as it takes the same from all; so the first timer's time,
which `select` gets, is the least.

**Roles.** `TwoMastersAreTold` is inductive with the types. `PlayHeals` needs
`Healing`, which starts with the first film: only the master that started it is
still to be read, whoever does not follow it has its Login to read, and from the
second film on whoever does not show the film has it to read.

**Time exchange.** `NetInv`, `MasterInv` and `AskedInv` always hold: what a
datagram carries is of its exchange or nothing, and a slave that waits, and for
which nothing went wrong, will be sent a Resp of its own. As long as no answer
took longer than the sleep, `Prompt` says that there is one exchange at a time
and what its slave has read so far. `NeighboursAreServed` needs in a round without
faults (`CalmInv`) that each slave of which the exchange began is served, or comes
after one that is done (`SlavesInCalm`); that answers on the way are of the
exchange begun last (`AnswersInCalm`); and that the time which the thread sends
next is forgotten only for the answer to the slave before (`ThreadInCalm`): so the
slave whose Follow_Up carries no time comes after one that is served, and two of
them are never neighbours.

**Playback control.** `NothingPlays` is what a stop leaves: no playback is waited
for, and the duration timers and the posted event that are left find the list
cleared. So only the user and the idle timer end the stop, and the latter runs only
where `IdleDetect` allows it (the type invariant). `OnlyTheLastPlays` and
`TimersOfThePlayer` tie the awaited playback, the timers and the pending steps to
the player's, so that `MayCut` names all that can end it; that the idle timer, which
may run while something plays, does not is `IdlePlaysNothing`: in `State_Idle`
nothing plays. `LoggedIsRemembered` and `EndsAreUnderWay` follow each end from the player to
the log; `EndsAreLoggedOnce` assumes that there are no more playbacks than the
list of ended ones holds (`MaxPlays <= 30`). Beyond that a second announcement of
an end older than thirty playbacks would be logged again. `FileInv` says that a
file that still owes loops is alone, without list or timers, and that it was just
ordered, is to be started again, or runs with its end still to come, in a state that
is not `State_Idle`, so that the idle timer finds nothing to start. `RowInv`
follows the row of starts of one entry: only the DOWN key, a step back and a start
from the first entry break it off (`RowIsBroken`), and until then the list has gone
past the entry, or is at it and has counted its starts (`RowIsBehind`), so that an
entry is never started more often in a row than it is to be.

**Only model-checked**: the liveness properties (all with `~>`, and
`ChangesAreSaved`), which are beyond the prover. `WaitingSlaveIsFound` is the
property that TLC refutes.

## 6 What the models leave out

* **Everywhere**: wording, logging, allocation failures, parsing of arguments.
* **Store**: `get`, `getById` and `getCount`, which only read; the checksum is
  taken to detect every torn file (its 8 bits miss one in 256); a `cp` that is
  interrupted dies with the service.
* **Protocol**: serial numbers do not wrap within the bound; a full socket of the
  client; a datagram read at a shifted offset never looks like the reply.
* **Playback**: about forty commands that go through the same queue and do not
  touch the playback state (volume, video mode, position, tuner); the global
  status follows `m_iPlayStatus` when no tuner is in use; `m_iRemaingLoopCnt` is
  only compared with 0 and kept there when it goes below; `QNexusPlayer::Stop`
  does not fail; one application thread, as the D-Bus adaptor has.
* **Event loop**: descriptors are registered before the loop starts; a handler
  reads all input of its descriptor; a signal arrives outside the operations on
  the list itself (the handler at `SysBaseSrv.cpp:27` may interrupt one, and what
  follows then depends on the list implementation); no handler posts to its own loop, as
  none does in the program; ages stop at the timeout of their timer, and the
  clock is not set again while a timer starts in the future.
* **Roles**: a player's own broadcast, which comes back to it and is dropped only
  after it was read (`VideoSync.cpp:297`): a master that is set to DISABLED can find
  its own Logout unread, and be deaf as after a datagram of another player; the
  connections over which a master knows its slaves (`RegistFromSlave`, TCP); what is done to the video besides noting the film; the properties are
  saved and read back without fault (`SysPropStore` says what that means).
* **Time exchange**: one master, which stays; the list of slaves does not change;
  what the seek does to the video; clocks, of which only the moment of reading is
  kept; the computation of the offset from its four times.
* **Playback control**: pictures, pages, streams, temporary items, plugin lists,
  the tuner, and the video layer, on which `StopContent` also acts; the other ways
  to start something: `MP_Play`, whose `PlayMedia` (line 16541) plays without
  noting the playback in `m_PlaybackId`, `startPlaylist` (5030), `OpenPlaylist` (7910),
  the file list of the remote control (`PlayCurrentFile`, 6584), `playVideoLayer`
  (18191) and the chapter orders of `setPlayMode` (8189-8203), which act only in
  `State_PlayingPlayList`. What is said of every playback is said of those that the
  modelled orders start. `m_strCurPlayUrl` is set and cleared with `m_PlaybackId`. A
  loop entry counts only once a video was tried since the program started
  (`isNeedLoop`, 2197): the model leaves that out, as a list that does not begin with
  two loop entries never meets it. The idle playlist has the same entries as the
  list, its file exists and may be played; the idle time is configured or not from
  the start on (`setIdleDetect`, 8925, is left out). D-Bus stops succeed. The player is seen from outside: a play gives the next identifier, a stop of an
  IDLE player does nothing, an end is announced after the status is IDLE; that
  is what `MediaSrv` was checked and proved to do (`PlayerRunsOnlyWhilePlaying`,
  `StoppedStaysStopped`, `EndIsAnnounced`), with the end that is announced twice
  as a fault. A restart of the player, whose identifiers begin again at 1, is not
  modelled.

## 7 What checking showed about the code

Properties that hold only under a condition the code does not guarantee are
stated with the condition; these are worth a maintainer's attention.

* **A save in place** (`SysPropOps.cpp:354`): an interrupted save falls back to
  the backup of the last *start*. Before the first start with a whole data file
  there is no backup at all, and with power loss soon after a start both files
  can be torn. `RestartFindsSavedOrBoot` therefore starts with the first backup
  and excludes power loss.
* **A failed save is not retried** (`SysBaseSrv.cpp:260`), and a failing
  `fclose` is not noticed (`File.cpp:96`): `UnsavedIsScheduled` excepts the time
  after either.
* **Ends of stream are tagged late** (`MediaSrv.cpp:366`): when the platform's
  stop does not wait for the callback, a playback can be ended by the end of the
  previous one, and an end can be announced with the next source.
  `PlaybackEndsAfterItsLoops` holds only with `StopDrains`; `playback_late` shows
  what is left without it.
* **A reply is compared with the serial number packaged last**
  (`SysPropOpsClient.cpp:763`): with two threads a call that was overtaken fails
  although its reply came, and where replies can be late one thread can take the
  late reply of the other. `AnswerWasServed` and `OneFailureAfterCalm` except the
  calls that another thread overtook.
* **The signal handler posts to its own loop** (`EventCenter.cpp:471`): it waits
  for room in the wakeup socket that only the interrupted thread can make.
  `PostedIsDispatched` excludes exactly that state (`LoopIsStuck`).
* **Timers run on the wall clock** (`EventCenter.cpp:735`): after the clock was
  set back a later timer may fire early. `SleepsUntilTheFirstTimer` ends with the
  first setting; that every timer fires holds regardless.
* **A spurious wakeup is an answer** (`ThreadMessageQueue.cpp:183`):
  `AnswerMeansProcessed` is stated for behaviours without them.
* **A player that was DISABLED when a datagram came is deaf**
  (`VideoSync.cpp:273`, run `sync_waiting`): the handler returns without reading,
  and the Qt socket signals no other datagram until the first is read. Made SLAVE
  afterwards, the player never reads the Login of a master until it restarts,
  although the comments at `VideoSync.cpp:1128` and `VideoSync.cpp:332` describe a
  slave that waits for a master and a Login that is taken in every mode. The
  properties of the roles are stated of the players that hear (`Hears`).
* **A neighbour may be skipped in a round without faults** (`VideoSync.cpp:417`):
  the main thread resets `uTimestampA` after it answered one slave, when the
  other thread may have set it for the next, whose Follow_Up then carries no
  time. Of two neighbours one is served; which one repeats is not said.
* **Two masters after a restart stay** until one of them starts a film: the saved
  mode comes back without an announcement. `PlayHeals` says how this ends.
* **The idle playlist stops after its first video** (`WebBrowserApp.cpp:6100`):
  `PlayIdlePlayListFile` does not set `m_eCurPlayMediaFileType`, which is VIDEO after
  a start-up and after a file. The end of an entry without a duration is then
  handled as the end of a file (line 3026): the list does not go on, or a file that
  had loops left is played again. As `m_bIsPlayingIdlePlayList` stays set, the idle timer
  is not started again either. `StopContent` (line 8205) leaves that flag set as well:
  after it no idle playlist starts until a key, a button or an order clears it. The
  MIB says that the list is started when the player has been idle
  (`SnmpAgent/mib/CE-SNMP-MIB.txt:828`).
* **A button does not end the wait for the idle playlist**: `On_GpioBtnKey`
  (`WebBrowserApp.cpp:7005`) stops it as a key does (line 4571), but without setting
  `m_PlaybackId` to 0: an end that is on its way may then play a file again.
* **A timed file with negative loops plays the file before it** when its time is
  over, if there is one with loops left (`WebBrowserApp.cpp:5539`): nothing is kept of
  it to play again, and what was kept of the one before is not dropped.
* **Ended playbacks are remembered by number** (`WebBrowserApp.cpp:19242`), the
  last thirty, in a list that a restart of the player does not clear: ends after
  it may be taken for logged.

## 8 Plan

Models:
1. The property service as a composition: `SysPropStore` behind
   `SysPropOpsClient`, so that an answered set survives a restart once it was
   saved. Abstract specification: a register per key.
2. `PlaybackControl` with a restart of the player process, and composed with
   `MediaSrv` instead of the player seen from outside.
3. The connections of the video synchronisation, over which a master knows its
   slaves: `RegistFromSlave` and the member socket (`VideoSync.cpp:626`, 679).
4. `PowerMate`, then `GpioBtnInput` on `EventCenter`; registering and closing
   descriptors while the loop runs.

Theorems: every safety property of the runs is proved. What is left is
1. the composition of item 1 above, as a refinement of a register per key;
2. an abstract player (plays, stops and announced ends only) that `MediaSrv`
   implements and that `PlaybackControl` uses, in place of the three properties
   that section 6 names.

## 9 Running the tools

    tlasany ThreadMessageQueue.tla
    tlc -workers 2 -config MCThreadMessageQueue.cfg MCThreadMessageQueue
    tlapm ThreadMessageQueueProofs.tla
