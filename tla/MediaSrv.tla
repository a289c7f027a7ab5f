------------------------------ MODULE MediaSrv ------------------------------
(***************************************************************************)
(* Playback in the media player process (MediaPlayer/MediaSrv.cpp).        *)
(*                                                                         *)
(* Three threads take part.  The application thread calls setDataSource,   *)
(* Prepare, Play, Stop and quit, one call at a time; each call is a        *)
(* message to the QMediaSrv thread, which handles one message at a time    *)
(* and drives the Nexus player.  A Nexus thread calls onPlaybackEos at     *)
(* each end of the stream; it posts the end as a message too.              *)
(*                                                                         *)
(* The inbox is CThreadMessageQueue as module Mailbox specifies it.        *)
(* player, started and announced speak of a playback by the number of the  *)
(* Play call that began it, which is never used twice.                     *)
(***************************************************************************)
EXTENDS Naturals, Sequences

CONSTANTS
    Urls,
    NoUrl,
    LoopCounts,   \* loop counts that Play is called with
    QueueLimit,   \* MSG_QUEUE_MAX_ITEM_NUM
    MaxCalls,     \* bound on the calls of the application thread
    IdModulus,    \* playback identifiers are 1 .. IdModulus - 1, then 1 again
    StopDrains    \* stopping the player waits for an end of stream callback to return

ASSUME ConstantsAssumption ==
    /\ Urls # {} /\ NoUrl \notin Urls
    /\ LoopCounts \subseteq Nat \ {0}
    /\ \E n \in LoopCounts : \A m \in LoopCounts : m <= n   \* a loop count is an int
    /\ QueueLimit \in Nat \ {0}
    /\ MaxCalls \in Nat
    /\ IdModulus \in Nat \ {0, 1}
    /\ StopDrains \in BOOLEAN

Calls == 1 .. MaxCalls
Ids == 0 .. IdModulus - 1
Statuses == {"IDLE", "PREPARED", "PLAYING"}

\* A message: what it asks for, the call that posted it (0 for an end of stream), and
\* its argument: the source of setDataSource, the loop count of Play, or the playback
\* identifier and the Play call it belongs to when an end of stream was tagged.
Requests ==
    [kind : {"setDataSource"}, call : Calls, url : Urls]
        \cup [kind : {"Prepare", "Stop"}, call : Calls]
        \cup [kind : {"Play"}, call : Calls, loops : LoopCounts]
Ends == [kind : {"PlaybackEos"}, id : Ids, started : 0 .. MaxCalls]
Messages == Requests \cup Ends

VARIABLES
    m_iPlayStatus, m_PlaybackId, m_sDataSrcUrl, m_iRemaingLoopCnt,
    inbox,      \* the message queue of the QMediaSrv thread
    handler,    \* where that thread is, and the message it handles
    running,    \* that thread runs its event loop
    player,     \* the Nexus player: the playback it runs, 0 when it is stopped
    callback,   \* the Nexus thread: where it is in onPlaybackEos
    client,     \* the call the application thread is in, and its number
    calls,      \* number of calls so far
    reply,      \* the last call answered, and whether it succeeded
    stoppedId,  \* m_PlaybackId in the message of the call in progress
    started,    \* the Play call of the playback m_PlaybackId stands for
    source,     \* what that playback plays
    announced,  \* the playbacks whose end was announced to the application
    ends,       \* ends of stream of the playback in the player, up to the greatest loop count
    asked,      \* the loop count of that playback
    stopKept    \* the last Stop succeeded, and no Play was called since

srvVars == <<m_iPlayStatus, m_PlaybackId, m_sDataSrcUrl, m_iRemaingLoopCnt>>
clientVars == <<client, calls, stopKept>>
answerVars == <<reply, stoppedId>>
historyVars == <<started, source, announced, ends, asked>>
vars == <<srvVars, inbox, handler, running, player, callback, clientVars, answerVars, historyVars>>

Rest == [pc |-> "rest"]
NoCallback == [pc |-> "none"]

Init ==
    /\ m_iPlayStatus = "IDLE"
    /\ m_PlaybackId = 0
    /\ m_sDataSrcUrl = NoUrl
    /\ m_iRemaingLoopCnt = 0
    /\ inbox = <<>>
    /\ handler = Rest
    /\ running = TRUE
    /\ player = 0
    /\ callback = NoCallback
    /\ client = [op |-> "none", call |-> 0]
    /\ calls = 0
    /\ reply = [call |-> 0, ok |-> TRUE]
    /\ stoppedId = 0
    /\ started = 0
    /\ source = NoUrl
    /\ announced = {}
    /\ ends = 0
    /\ asked = 0
    /\ stopKept = FALSE

Post(msg) == inbox' = Append(inbox, msg)
QueueFull == Len(inbox) >= QueueLimit

-----------------------------------------------------------------------------
(* The application thread.                                                 *)

Idle == client.op = "none" /\ calls < MaxCalls

\* Post the message and wait for its answer; a full queue refuses it (ERR_BUSY).
Request(op, msg) ==
    /\ calls' = calls + 1
    /\ stoppedId' = 0
    /\ \/ /\ ~QueueFull
          /\ Post(msg)
          /\ client' = [op |-> op, call |-> calls + 1]
       \/ /\ QueueFull
          /\ client' = [client EXCEPT !.op = IF op = "quit" THEN "exit" ELSE "none"]
          /\ UNCHANGED inbox
    /\ UNCHANGED <<srvVars, handler, running, player, callback, reply, historyVars>>

setDataSource ==
    /\ Idle
    /\ \E u \in Urls :
         Request("setDataSource", [kind |-> "setDataSource", call |-> calls + 1, url |-> u])
    /\ UNCHANGED stopKept

Prepare ==
    /\ Idle
    /\ Request("Prepare", [kind |-> "Prepare", call |-> calls + 1])
    /\ UNCHANGED stopKept

Play ==
    /\ Idle
    /\ \E n \in LoopCounts :
         Request("Play", [kind |-> "Play", call |-> calls + 1, loops |-> n])
    /\ stopKept' = FALSE

Stop ==
    /\ Idle
    /\ Request("Stop", [kind |-> "Stop", call |-> calls + 1])
    /\ UNCHANGED stopKept

\* quit() begins with a Stop() whose result it only logs.
quit ==
    /\ Idle
    /\ Request("quit", [kind |-> "Stop", call |-> calls + 1])
    /\ UNCHANGED stopKept

\* Stop(&playbackId, &strUrl) hands over what On_Stop left in the message.
Return(ok) ==
    /\ client' = [client EXCEPT !.op = IF @ = "quit" THEN "exit" ELSE "none"]
    /\ stopKept' = (stopKept \/ (client.op = "Stop" /\ ok))
    /\ announced' = IF client.op = "Stop" /\ stoppedId # 0
                    THEN announced \cup {started} ELSE announced
    /\ UNCHANGED <<srvVars, inbox, handler, running, player, callback, calls, answerVars,
                   started, source, ends, asked>>

Answered ==
    /\ client.op \notin {"none", "exit", "destroy", "gone"}
    /\ reply.call = client.call
    /\ Return(reply.ok)

\* Mutant of StopSeesIdle: Stop gives up after 100 ms whatever the status is.
StopGivesUp ==
    /\ client.op \in {"Stop", "quit"}
    /\ reply.call # client.call
    /\ Return(TRUE)

\* Stop also returns when, 100 ms after it looked last, it finds the status idle; its
\* message is then still in the queue or being handled.
StopSeesIdle ==
    /\ client.op \in {"Stop", "quit"}
    /\ reply.call # client.call
    /\ m_iPlayStatus = "IDLE"
    /\ Return(TRUE)

\* QThread::quit(): the event loop ends once the slot it is in returns; wait() and then
\* ExitInstance, which destroys the player, follow.
ThreadEnds ==
    /\ client.op = "exit"
    /\ running
    /\ handler.pc = "rest"
    /\ running' = FALSE
    /\ UNCHANGED <<srvVars, inbox, handler, player, callback, clientVars, answerVars, historyVars>>

\* A stop ends the stream first, and then waits for the callback, if it waits at all.
Drained == StopDrains => callback.pc = "none"

ExitInstance ==
    /\ client.op = "exit"
    /\ ~running
    /\ player' = 0
    /\ client' = [client EXCEPT !.op = "destroy"]
    /\ UNCHANGED <<srvVars, inbox, handler, running, callback, calls, stopKept, answerVars, historyVars>>

ExitInstanceEnds ==
    /\ client.op = "destroy"
    /\ Drained
    /\ client' = [client EXCEPT !.op = "gone"]
    /\ UNCHANGED <<srvVars, inbox, handler, running, player, callback, calls, stopKept, answerVars,
                   historyVars>>

-----------------------------------------------------------------------------
(* The QMediaSrv thread: OnNewMessage, ProcessMsg and the handlers.        *)

At(pc) == handler.pc = pc
Goto(pc) == handler' = [handler EXCEPT !.pc = pc]
Done == handler' = Rest
Reply(ok) == reply' = [call |-> handler.msg.call, ok |-> ok]

Handle(msg) == handler' = [pc |-> msg.kind, msg |-> msg]

\* Mutant of OnNewMessage: the youngest message first.
OnNewMessageLast ==
    /\ running
    /\ At("rest")
    /\ inbox # <<>>
    /\ inbox' = SubSeq(inbox, 1, Len(inbox) - 1)
    /\ Handle(inbox[Len(inbox)])
    /\ UNCHANGED <<srvVars, running, player, callback, clientVars, answerVars, historyVars>>

OnNewMessage ==
    /\ running
    /\ At("rest")
    /\ inbox # <<>>
    /\ inbox' = Tail(inbox)
    /\ Handle(Head(inbox))
    /\ UNCHANGED <<srvVars, running, player, callback, clientVars, answerVars, historyVars>>

\* Mutant of On_setDataSource: the status is not looked at.
On_setDataSourceUnchecked ==
    /\ At("setDataSource")
    /\ Done
    /\ Reply(TRUE)
    /\ m_sDataSrcUrl' = handler.msg.url
    /\ UNCHANGED <<m_iPlayStatus, m_PlaybackId, m_iRemaingLoopCnt, inbox, running, player,
                   callback, clientVars, stoppedId, historyVars>>

On_setDataSource ==
    /\ At("setDataSource")
    /\ Done
    /\ Reply(m_iPlayStatus = "IDLE")
    /\ m_sDataSrcUrl' = IF m_iPlayStatus = "IDLE" THEN handler.msg.url ELSE m_sDataSrcUrl
    /\ UNCHANGED <<m_iPlayStatus, m_PlaybackId, m_iRemaingLoopCnt, inbox, running, player,
                   callback, clientVars, stoppedId, historyVars>>

\* Mutant of On_Prepare: the status is not looked at.
On_PrepareUnchecked ==
    /\ At("Prepare")
    /\ Done
    /\ Reply(TRUE)
    /\ m_iPlayStatus' = "PREPARED"
    /\ UNCHANGED <<m_PlaybackId, m_sDataSrcUrl, m_iRemaingLoopCnt, inbox, running, player,
                   callback, clientVars, stoppedId, historyVars>>

On_Prepare ==
    /\ At("Prepare")
    /\ Done
    /\ Reply(m_iPlayStatus = "IDLE")
    /\ m_iPlayStatus' = IF m_iPlayStatus = "IDLE" THEN "PREPARED" ELSE m_iPlayStatus
    /\ UNCHANGED <<m_PlaybackId, m_sDataSrcUrl, m_iRemaingLoopCnt, inbox, running, player,
                   callback, clientVars, stoppedId, historyVars>>

\* Mutant of On_PlayRefused: no answer on this path.
On_PlayRefusedSilently ==
    /\ At("Play")
    /\ m_iPlayStatus # "PREPARED"
    /\ Done
    /\ UNCHANGED <<srvVars, inbox, running, player, callback, clientVars, answerVars, historyVars>>

On_PlayRefused ==
    /\ At("Play")
    /\ m_iPlayStatus # "PREPARED"
    /\ Done
    /\ Reply(FALSE)
    /\ UNCHANGED <<srvVars, inbox, running, player, callback, clientVars, stoppedId, historyVars>>

On_Play ==
    /\ At("Play")
    /\ m_iPlayStatus = "PREPARED"
    /\ m_iPlayStatus' = "PLAYING"
    /\ Goto("Play_id")
    /\ UNCHANGED <<m_PlaybackId, m_sDataSrcUrl, m_iRemaingLoopCnt, inbox, running, player,
                   callback, clientVars, answerVars, historyVars>>

\* m_PlaybackId++, twice when it comes to 0.
NextId(id) == IF id + 1 = IdModulus THEN 1 ELSE id + 1

On_PlayId ==
    /\ At("Play_id")
    /\ m_PlaybackId' = NextId(m_PlaybackId)
    /\ started' = handler.msg.call
    /\ source' = m_sDataSrcUrl
    /\ Goto("Play_start")
    /\ UNCHANGED <<m_iPlayStatus, m_sDataSrcUrl, m_iRemaingLoopCnt, inbox, running, player,
                   callback, clientVars, answerVars, announced, ends, asked>>

\* Mutant of On_PlayStart: a count that is left over is kept.
On_PlayStartKeepsCount ==
    /\ At("Play_start")
    /\ m_iRemaingLoopCnt' = IF m_iRemaingLoopCnt > 0 THEN m_iRemaingLoopCnt ELSE handler.msg.loops
    /\ asked' = handler.msg.loops
    /\ ends' = 0
    /\ \E ok \in BOOLEAN : Reply(ok) /\ player' = IF ok THEN handler.msg.call ELSE player
    /\ Done
    /\ UNCHANGED <<m_iPlayStatus, m_PlaybackId, m_sDataSrcUrl, inbox, running, callback,
                   clientVars, stoppedId, started, source, announced>>

\* The player can refuse the source; the status stays PLAYING all the same.
On_PlayStart ==
    /\ At("Play_start")
    /\ m_iRemaingLoopCnt' = handler.msg.loops
    /\ asked' = handler.msg.loops
    /\ ends' = 0
    /\ \E ok \in BOOLEAN : Reply(ok) /\ player' = IF ok THEN handler.msg.call ELSE player
    /\ Done
    /\ UNCHANGED <<m_iPlayStatus, m_PlaybackId, m_sDataSrcUrl, inbox, running, callback,
                   clientVars, stoppedId, started, source, announced>>

On_StopIdle ==
    /\ At("Stop")
    /\ m_iPlayStatus = "IDLE"
    /\ Goto("Stop_answer")
    /\ UNCHANGED <<srvVars, inbox, running, player, callback, clientVars, answerVars, historyVars>>

\* QNexusPlayer::Stop does not fail.
StopPlayer(at, next) ==
    /\ At(at)
    /\ player' = 0
    /\ Goto(next)
    /\ UNCHANGED <<srvVars, inbox, running, callback, clientVars, answerVars, historyVars>>

\* Mutant of On_Stop: the status is set before the outputs are read from it.
On_StopStatusFirst ==
    /\ At("Stop")
    /\ m_iPlayStatus # "IDLE"
    /\ m_iPlayStatus' = "IDLE"
    /\ player' = 0
    /\ Goto("Stop_output")
    /\ UNCHANGED <<m_PlaybackId, m_sDataSrcUrl, m_iRemaingLoopCnt, inbox, running, callback,
                   clientVars, answerVars, historyVars>>

On_Stop == m_iPlayStatus # "IDLE" /\ StopPlayer("Stop", "Stop_output")

\* The caller finds the identifier in the message; a caller that is gone does not.
On_StopOutput ==
    /\ At("Stop_output")
    /\ Drained
    /\ stoppedId' = IF m_iPlayStatus = "PLAYING" /\ handler.msg.call = client.call
                    THEN m_PlaybackId ELSE stoppedId
    /\ Goto("Stop_idle")
    /\ UNCHANGED <<srvVars, inbox, running, player, callback, clientVars, reply, historyVars>>

On_StopStatus ==
    /\ At("Stop_idle")
    /\ m_iPlayStatus' = "IDLE"
    /\ Goto("Stop_answer")
    /\ UNCHANGED <<m_PlaybackId, m_sDataSrcUrl, m_iRemaingLoopCnt, inbox, running, player,
                   callback, clientVars, answerVars, historyVars>>

On_StopAnswer ==
    /\ At("Stop_answer")
    /\ Reply(TRUE)
    /\ Done
    /\ UNCHANGED <<srvVars, inbox, running, player, callback, clientVars, stoppedId, historyVars>>

\* m_iRemaingLoopCnt is only compared with 0: it is kept at 0 when it goes below.
Decremented(n) == IF n = 0 THEN 0 ELSE n - 1

On_PlaybackEosIgnored ==
    /\ At("PlaybackEos")
    /\ handler.msg.id # m_PlaybackId
    /\ Done
    /\ UNCHANGED <<srvVars, inbox, running, player, callback, clientVars, answerVars, historyVars>>

\* Mutant of On_PlaybackEos: the identifiers are not compared.
On_PlaybackEosOfAny ==
    /\ At("PlaybackEos")
    /\ m_iRemaingLoopCnt' = Decremented(m_iRemaingLoopCnt)
    /\ IF m_iRemaingLoopCnt' > 0 \/ m_iPlayStatus = "IDLE" THEN Done ELSE Goto("Eos_stop")
    /\ UNCHANGED <<m_iPlayStatus, m_PlaybackId, m_sDataSrcUrl, inbox, running, player, callback,
                   clientVars, answerVars, historyVars>>

On_PlaybackEos ==
    /\ At("PlaybackEos")
    /\ handler.msg.id = m_PlaybackId
    /\ m_iRemaingLoopCnt' = Decremented(m_iRemaingLoopCnt)
    /\ IF m_iRemaingLoopCnt' > 0 \/ m_iPlayStatus = "IDLE" THEN Done ELSE Goto("Eos_stop")
    /\ UNCHANGED <<m_iPlayStatus, m_PlaybackId, m_sDataSrcUrl, inbox, running, player, callback,
                   clientVars, answerVars, historyVars>>

On_PlaybackEosStop == StopPlayer("Eos_stop", "Eos_idle")

\* The status, and sigPlaybackEos(m_PlaybackId, m_sDataSrcUrl, ..) to the application.
On_PlaybackEosStatus ==
    /\ At("Eos_idle")
    /\ Drained
    /\ m_iPlayStatus' = "IDLE"
    /\ announced' = announced \cup {started}
    /\ Done
    /\ UNCHANGED <<m_PlaybackId, m_sDataSrcUrl, m_iRemaingLoopCnt, inbox, running, player,
                   callback, clientVars, answerVars, started, source, ends, asked>>

-----------------------------------------------------------------------------
(* The Nexus thread.                                                       *)

MaxLoops == CHOOSE n \in LoopCounts : \A m \in LoopCounts : m <= n

\* Mutant of EndOfStream: the player loops only when Play asks for it.
EndOfStreamOnce ==
    /\ callback.pc = "none"
    /\ player # 0
    /\ asked > 1 \/ ends = 0
    /\ callback' = [pc |-> "onPlaybackEos"]
    /\ ends' = IF ends < MaxLoops THEN ends + 1 ELSE ends
    /\ UNCHANGED <<srvVars, inbox, handler, running, player, clientVars, answerVars,
                   started, source, announced, asked>>

\* The player loops whatever the loop count: it comes to the end again and again.
EndOfStream ==
    /\ callback.pc = "none"
    /\ player # 0
    /\ callback' = [pc |-> "onPlaybackEos"]
    /\ ends' = IF ends < MaxLoops THEN ends + 1 ELSE ends
    /\ UNCHANGED <<srvVars, inbox, handler, running, player, clientVars, answerVars,
                   started, source, announced, asked>>

onPlaybackEos ==
    /\ callback.pc = "onPlaybackEos"
    /\ callback' = [pc |-> "post",
                    msg |-> [kind |-> "PlaybackEos", id |-> m_PlaybackId, started |-> started]]
    /\ UNCHANGED <<srvVars, inbox, handler, running, player, clientVars, answerVars, historyVars>>

\* A full queue refuses the message; nothing tries again.
PostPlaybackEos ==
    /\ callback.pc = "post"
    /\ IF QueueFull THEN UNCHANGED inbox ELSE Post(callback.msg)
    /\ callback' = NoCallback
    /\ UNCHANGED <<srvVars, handler, running, player, clientVars, answerVars, historyVars>>

-----------------------------------------------------------------------------
ClientCalls == setDataSource \/ Prepare \/ Play \/ Stop \/ quit
ClientReturns == Answered \/ StopSeesIdle
Quits == ThreadEnds \/ ExitInstance \/ ExitInstanceEnds
Handlers ==
    \/ On_setDataSource \/ On_Prepare
    \/ On_PlayRefused \/ On_Play \/ On_PlayId \/ On_PlayStart
    \/ On_StopIdle \/ On_Stop \/ On_StopOutput \/ On_StopStatus \/ On_StopAnswer
    \/ On_PlaybackEosIgnored \/ On_PlaybackEos \/ On_PlaybackEosStop \/ On_PlaybackEosStatus
Callbacks == onPlaybackEos \/ PostPlaybackEos

Next ==
    \/ ClientCalls \/ ClientReturns \/ Quits
    \/ OnNewMessage \/ Handlers
    \/ EndOfStream \/ Callbacks

Spec == Init /\ [][Next]_vars

\* A thread that can take a step takes one: the threads block on nothing but what the
\* guards say, and the Stop loop looks again every 100 ms.  The application need not call.
FairSpec ==
    /\ Spec
    /\ WF_vars(OnNewMessage \/ Handlers)
    /\ WF_vars(ClientReturns)
    /\ WF_vars(Quits)
    /\ WF_vars(Callbacks)

\* In addition every media file comes to its end.
FiniteMediaSpec == FairSpec /\ WF_vars(EndOfStream)

-----------------------------------------------------------------------------
(* Properties.                                                             *)

HandlerPcs == {"setDataSource", "Prepare", "Play", "Play_id", "Play_start", "Stop", "Stop_output",
               "Stop_idle", "Stop_answer", "PlaybackEos", "Eos_stop", "Eos_idle"}

SrvTypeOK ==
    /\ m_iPlayStatus \in Statuses
    /\ m_PlaybackId \in Ids
    /\ m_sDataSrcUrl \in Urls \cup {NoUrl}
    /\ m_iRemaingLoopCnt \in Nat
    /\ running \in BOOLEAN

QueueTypeOK ==
    /\ inbox \in Seq(Messages) /\ Len(inbox) <= QueueLimit
    /\ handler \in {Rest} \cup [pc : HandlerPcs, msg : Messages]

PlayerTypeOK ==
    /\ player \in 0 .. MaxCalls
    /\ callback \in {NoCallback, [pc |-> "onPlaybackEos"]} \cup [pc : {"post"}, msg : Ends]

ClientOps == {"none", "setDataSource", "Prepare", "Play", "Stop", "quit", "exit", "destroy", "gone"}

ClientTypeOK ==
    /\ client \in [op : ClientOps, call : 0 .. MaxCalls]
    /\ calls \in 0 .. MaxCalls
    /\ reply \in [call : 0 .. MaxCalls, ok : BOOLEAN]
    /\ stoppedId \in Ids
    /\ stopKept \in BOOLEAN

HistoryTypeOK ==
    /\ started \in 0 .. MaxCalls
    /\ source \in Urls \cup {NoUrl}
    /\ announced \subseteq 0 .. MaxCalls
    /\ ends \in Nat
    /\ asked \in Nat

\* Types: the play status, the queue and every thread stay in the states the code knows.
TypeOK == SrvTypeOK /\ QueueTypeOK /\ PlayerTypeOK /\ ClientTypeOK /\ HistoryTypeOK

\* The player runs only while the status says PLAYING, at every step of every handler: a
\* setDataSource or a Prepare that is accepted never finds it running, and nothing is left
\* playing that Stop would take for stopped (it does nothing when the status is IDLE).
PlayerRunsOnlyWhilePlaying == player # 0 => m_iPlayStatus = "PLAYING"

\* Once a Stop has reported success, the player stays stopped until the application calls
\* Play again; Stop may report it before its message is handled, because the status is IDLE.
StoppedStaysStopped == stopKept => player = 0

\* While a playback is on, the source is the one it was started with: On_Stop and
\* On_PlaybackEos, which report m_sDataSrcUrl, name what was really played.
SourceIsTheOnePlayed ==
    m_iPlayStatus = "PLAYING" /\ handler.pc # "Play_id" => m_sDataSrcUrl = source

\* When no call is in progress and the status is IDLE, the end of the last playback was
\* announced: by sigPlaybackEos, or by the identifier that Stop returned.  The event log of
\* the user interface is written from these two.
EndIsAnnounced ==
    /\ m_iPlayStatus = "IDLE"
    /\ client.op = "none"
    /\ started # 0
    => started \in announced

\* A Stop ends no playback that the application asked for after that Stop, even when the
\* Stop returned early and left its message in the queue.
StopEndsEarlierPlayback ==
    On_Stop /\ m_iPlayStatus = "PLAYING" => handler.msg.call > started
StopEndsOnlyEarlierPlaybacks == [][StopEndsEarlierPlayback]_vars

\* An end of stream that was tagged before a playback began does not end it: this is what
\* the comparison of the identifiers in On_PlaybackEos is for.
EosEndsCurrentPlayback ==
    On_PlaybackEosStop /\ m_iPlayStatus = "PLAYING" => handler.msg.started = started
EosEndsOnlyTheCurrentPlayback == [][EosEndsCurrentPlayback]_vars

\* A playback ends by itself only when its stream came to its end as many times as Play asked
\* for.  The identifier of an end of stream is read after the end, so this needs a player
\* whose stop waits for the callback.
EndedAfterItsLoops == On_PlaybackEosStop /\ m_iPlayStatus = "PLAYING" => ends >= asked
PlaybackEndsAfterItsLoops == [][EndedAfterItsLoops]_vars

\* Every call returns: none waits for an answer that does not come, and quit waits neither
\* for a thread that does not end nor for a callback that waits for the queue.
CallsReturn == \A c \in Calls : client.call = c /\ client.op # "none"
                                    ~> client.op \in {"none", "gone"}

\* Every playback of a finite file ends, although a full queue can lose any of its ends of
\* stream: the player loops, and a later one gets through.
PlaybackEnds == \A c \in Calls : player = c ~> player # c

=============================================================================
