--------------------------- MODULE PlaybackControl ---------------------------
(***************************************************************************)
(* QWebBrowserApp (WebBrowser/WebBrowserApp.cpp): how the user interface   *)
(* controls the player.  It plays a file with its loops or a playlist of   *)
(* videos, moves on when a playback ends by itself (the signal             *)
(* PlaybackEos2, which arrives after the player is IDLE), when a duration  *)
(* timer expires, or when the user says so, and writes the end of every    *)
(* playback into the event log.  Where it is configured to, it plays the   *)
(* idle playlist when it has been idle for some time.                      *)
(*                                                                         *)
(* All of its handlers run in the main thread, and their D-Bus calls       *)
(* block; the player runs beside it.  A handler that goes on to play       *)
(* something leaves that in pending, whose steps follow before the next    *)
(* handler runs.  The player is seen from outside: a play gets the next    *)
(* playback identifier, a stop of an IDLE player does nothing, and a       *)
(* playback that ends by itself is announced, by a fault twice (MediaSrv). *)
(***************************************************************************)
EXTENDS Integers, Sequences

CONSTANTS
    Entries,   \* the playlist: videos [timed, loops], and loops back to its start [times] (-1: endless)
    Files,     \* orders of a single file: its loops (0: for ever) and whether it is timed
    IdleDetect,\* whether INI_KEY_IdleDetectTime is set; the idle playlist has the same Entries
    MaxOrders, \* bound on what the user does
    MaxPlays,  \* bound on playbacks; every later play fails
    Faults,    \* "playFails", "eosTwice"
    MaxFaults  \* bound on both together

N == Len(Entries)
IsLoop(e) == "times" \in DOMAIN Entries[e + 1]
IsTimed(e) == Entries[e + 1].timed
LoopsOf(e) == Entries[e + 1].loops

ASSUME ConstantsAssumption ==
    /\ N \in Nat
    /\ \A e \in 0 .. N - 1 :
          \/ Entries[e + 1] \in [timed : BOOLEAN, loops : Nat]
          \/ Entries[e + 1] \in [times : Nat \cup {-1}]
    /\ Files \subseteq [loops : Int, timed : BOOLEAN]
    /\ IdleDetect \in BOOLEAN
    /\ MaxOrders \in Nat /\ MaxPlays \in Nat /\ MaxFaults \in Nat
    /\ Faults \subseteq {"playFails", "eosTwice"}

MAX_EndedPlaybackIdList_SIZE == 30
NoPlayback == 0
Off == -1

VARIABLES
    player,                  \* the playback that runs, or NoPlayback
    lastId,                  \* the last identifier the player gave
    signals,                 \* PlaybackEos2 signals on their way
    m_PlaybackId,            \* the playback the interface waits for (m_strCurPlayUrl goes with it)
    mEndedPlaybackIdList,
    m_eCurPlayMediaFileType, \* "PLAYLIST" or "VIDEO"
    m_NextFileInfoToPlay,    \* [loops, timed, initZero, named] of the file to play again
    loaded,                  \* whether m_PlaylistDataA holds the list or is cleared
    cursor,                  \* QPlaylistData: m_CurEntryId, m_keydownflag and its static variables
    m_iHasLoopTimes,         \* per entry
    m_bIsNeedLoop,
    m_PlayDurationTimer,     \* Off, or the playback it was started for
    m_PlaylistDurationTimer,
    m_iStateType,            \* "State_Idle" or what plays
    m_PlayIdlePlayList_Timer,\* whether it runs
    m_bIsPlayingIdlePlayList,
    firstPosted,             \* QEVENT_TYPE_PlayFirstEntry is posted
    pending,                 \* what the handler has still to do
    logged,                  \* history: how often the end of each playback was logged
    stopped,                 \* history: stopped by the user, with nothing left that may play but
                             \* for the idle playlist
    file,                    \* history: the file ordered last: its loops, its starts, undisturbed
    row,                     \* history: the entry started last, and how often in a row, steps
                             \* back of the cursor apart
    budget                   \* orders and faults left

playerVars == <<player, lastId, signals>>
listVars == <<loaded, cursor, m_iHasLoopTimes, m_bIsNeedLoop>>
timerVars == <<m_PlayDurationTimer, m_PlaylistDurationTimer>>
logVars == <<mEndedPlaybackIdList, logged>>
fileVars == <<m_eCurPlayMediaFileType, m_NextFileInfoToPlay>>
idleVars == <<m_iStateType, m_PlayIdlePlayList_Timer, m_bIsPlayingIdlePlayList>>
vars == <<playerVars, m_PlaybackId, logVars, fileVars, listVars, timerVars, idleVars, firstPosted,
          pending, stopped, file, row, budget>>

Done == [op |-> "none", by |-> "none"]
Busy == pending # Done
NoRow == [entry |-> -1, starts |-> 0]

Init ==
    /\ player = NoPlayback /\ lastId = 0 /\ signals = <<>>
    /\ m_PlaybackId = NoPlayback
    /\ mEndedPlaybackIdList = <<>>
    /\ m_eCurPlayMediaFileType = "VIDEO"
    /\ m_NextFileInfoToPlay = [loops |-> 1, timed |-> FALSE, initZero |-> FALSE, named |-> FALSE]
    /\ loaded = FALSE
    /\ cursor = [m_CurEntryId |-> -1, m_keydownflag |-> 0, Keydown |-> 0, sicount |-> 0, keyupflag |-> 0]
    /\ m_iHasLoopTimes = [e \in 0 .. N - 1 |-> 0]
    /\ m_bIsNeedLoop = FALSE
    /\ m_PlayDurationTimer = Off /\ m_PlaylistDurationTimer = Off
    /\ m_iStateType = "State_Idle"
    /\ m_PlayIdlePlayList_Timer \in {FALSE, IdleDetect}
    /\ m_bIsPlayingIdlePlayList = FALSE
    /\ firstPosted = FALSE
    /\ pending = Done
    /\ logged = [id \in 1 .. MaxPlays |-> 0]
    /\ stopped = FALSE
    /\ file = [loops |-> 0, starts |-> 0, calm |-> FALSE]
    /\ row = NoRow
    /\ budget = [orders |-> MaxOrders, faults |-> MaxFaults]

-----------------------------------------------------------------------------
(* The player.                                                             *)

\* A playback ends by itself: the player is IDLE, then announces it.
EndOfStream ==
    /\ player # NoPlayback
    /\ player' = NoPlayback
    /\ \/ /\ signals' = Append(signals, player)
          /\ UNCHANGED budget
       \/ /\ "eosTwice" \in Faults /\ budget.faults > 0
          /\ signals' = signals \o <<player, player>>
          /\ budget' = [budget EXCEPT !.faults = @ - 1]
    /\ UNCHANGED <<lastId, m_PlaybackId, logVars, fileVars, listVars, timerVars, idleVars,
                   firstPosted, pending, stopped, file, row>>

-----------------------------------------------------------------------------
(* What the handlers share.                                                *)

Ended == {mEndedPlaybackIdList[i] : i \in DOMAIN mEndedPlaybackIdList}

\* Mutant of rememberEndedPlaybackId: what was logged is not remembered.
rememberNothing(id) ==
    IF id = NoPlayback \/ id \in Ended THEN UNCHANGED logVars
    ELSE /\ logged' = [logged EXCEPT ![id] = @ + 1]
         /\ UNCHANGED mEndedPlaybackIdList

\* The end of playback id goes into the log, unless it is remembered that it did.
rememberEndedPlaybackId(id) ==
    IF id = NoPlayback \/ id \in Ended THEN UNCHANGED logVars
    ELSE /\ mEndedPlaybackIdList' = IF Len(mEndedPlaybackIdList) < MAX_EndedPlaybackIdList_SIZE
                                    THEN Append(mEndedPlaybackIdList, id)
                                    ELSE Append(Tail(mEndedPlaybackIdList), id)
         /\ logged' = [logged EXCEPT ![id] = @ + 1]

\* The player is stopped if it runs; nothing announces this end.
stopMPlayerWithEventLog ==
    /\ rememberEndedPlaybackId(player)
    /\ player' = NoPlayback

\* What runs is stopped and the player plays: it answers with a new identifier, ...
PlayUrl ==
    /\ lastId < MaxPlays
    /\ rememberEndedPlaybackId(player)
    /\ lastId' = lastId + 1
    /\ player' = lastId + 1
    /\ m_PlaybackId' = lastId + 1
    /\ UNCHANGED <<signals, budget>>

\* ... or it refuses, and the interface still waits for the playback before.
PlayUrlFails ==
    /\ \/ lastId = MaxPlays /\ UNCHANGED budget
       \/ /\ "playFails" \in Faults /\ budget.faults > 0
          /\ budget' = [budget EXCEPT !.faults = @ - 1]
    /\ stopMPlayerWithEventLog
    /\ UNCHANGED <<lastId, signals, m_PlaybackId>>

\* Whether the idle timer runs after startIdelDetectTimer in State_Idle: not while the idle
\* playlist plays.
startIdelDetectTimer(runs, playsIdleList) == runs \/ (IdleDetect /\ ~playsIdleList)

\* The interface is idle, and from now on that is timed.
BecomesIdle(playsIdleList) ==
    /\ m_iStateType' = "State_Idle"
    /\ m_PlayIdlePlayList_Timer' = startIdelDetectTimer(m_PlayIdlePlayList_Timer, playsIdleList)
    /\ m_bIsPlayingIdlePlayList' = playsIdleList

StopPlayback(playsIdleList) ==
    /\ stopMPlayerWithEventLog
    /\ BecomesIdle(playsIdleList)

\* StopPlayDurationTimer and StopAllPlayDurationTimer.
StopPlayDurationTimer ==
    /\ m_PlayDurationTimer' = Off
    /\ m_PlaylistDurationTimer' = Off

-----------------------------------------------------------------------------
(* The playlist.                                                           *)

AtMost(a, b) == IF a < b THEN a ELSE b

\* QPlaylistData::MoveToNextPlayEntry.  A press of the DOWN key makes two events; the third
\* move since the last step back, with such an event among the moves, is taken for the
\* second of them and undone (sicount is only compared with 3).
MoveToNextPlayEntry(c, moveNext) ==
    LET moves == moveNext \/ c.m_keydownflag = 1
        id == IF moves THEN c.m_CurEntryId + 1 ELSE c.m_CurEntryId
        count == IF moves THEN AtMost(c.sicount + 1, 3) ELSE c.sicount
        down == IF c.m_keydownflag = 1 THEN 1 ELSE c.Keydown
        undone == id < N /\ count = 3 /\ down = 1
    IN [m_CurEntryId |-> IF undone /\ id > 0 THEN id - 1 ELSE id,
        m_keydownflag |-> 0,
        Keydown |-> IF undone THEN 0 ELSE down,
        sicount |-> IF undone THEN 1 ELSE count,
        keyupflag |-> c.keyupflag]

\* QPlaylistData::MoveToPreHeadPlayEntry: every second step back is undone, for the UP key.
MoveToPreHeadPlayEntry(c) ==
    LET moves == c.keyupflag = 0
    IN [m_CurEntryId |-> IF moves THEN c.m_CurEntryId - 1 ELSE c.m_CurEntryId,
        m_keydownflag |-> c.m_keydownflag,
        Keydown |-> c.Keydown,
        sicount |-> c.sicount,
        keyupflag |-> IF moves THEN 1 ELSE 0]

\* Where PlayNextEntry goes: first, previous, next, or the same entry again.
Moved ==
    IF ~loaded THEN cursor
    ELSE CASE pending.op = "first" -> MoveToNextPlayEntry([cursor EXCEPT !.m_CurEntryId = -1], TRUE)
           [] pending.op = "pre" -> MoveToPreHeadPlayEntry(cursor)
           [] pending.op = "next" -> MoveToNextPlayEntry(cursor, ~m_bIsNeedLoop)

\* A list is loaded, to start with its first entry.
LoadFromIniFile ==
    /\ loaded' = TRUE
    /\ cursor' = [cursor EXCEPT !.m_CurEntryId = -1]
    /\ m_iHasLoopTimes' = [e \in 0 .. N - 1 |-> 0]
    /\ m_bIsNeedLoop' = FALSE

\* The idle playlist counts as playing when its PlayNextEntry has returned.
IdleListPlays == m_bIsPlayingIdlePlayList \/ pending.by = "idle"

\* The list is cleared or at its end: what runs is stopped.
NoEntry ==
    /\ pending.op \in {"next", "first", "pre"}
    /\ ~loaded \/ Moved.m_CurEntryId >= N
    /\ cursor' = Moved
    /\ StopPlayDurationTimer
    /\ stopMPlayerWithEventLog
    /\ m_iStateType' = "State_Idle"
    /\ m_PlayIdlePlayList_Timer' = startIdelDetectTimer(FALSE, m_bIsPlayingIdlePlayList)
    /\ m_bIsPlayingIdlePlayList' = IdleListPlays
    /\ pending' = Done
    /\ UNCHANGED <<lastId, signals, m_PlaybackId, fileVars, loaded, m_iHasLoopTimes, m_bIsNeedLoop,
                   firstPosted, stopped, file, row, budget>>

\* Mutant of CountLoop: the last loop is not the last.
CountLoopFromOne(e) ==
    IF ~IsTimed(e) /\ LoopsOf(e) > 1 THEN UNCHANGED <<m_iHasLoopTimes, m_bIsNeedLoop>>
    ELSE /\ m_bIsNeedLoop' = (m_iHasLoopTimes[e] + 1 <= LoopsOf(e))
         /\ m_iHasLoopTimes' = [m_iHasLoopTimes EXCEPT ![e] = IF @ + 1 <= LoopsOf(e) THEN @ + 1 ELSE 0]

\* A video whose loops the player does leaves m_bIsNeedLoop as it is; any other is played
\* by the interface as often as its loops say.
CountLoop(e) ==
    IF ~IsTimed(e) /\ LoopsOf(e) > 1 THEN UNCHANGED <<m_iHasLoopTimes, m_bIsNeedLoop>>
    ELSE LET times == m_iHasLoopTimes[e] + 1 IN
         /\ m_bIsNeedLoop' = (times < LoopsOf(e))
         /\ m_iHasLoopTimes' = [m_iHasLoopTimes EXCEPT ![e] = IF times < LoopsOf(e) THEN times ELSE 0]

\* The entry is a video: it plays, and its duration is timed if it has one.
EntryPlays ==
    LET e == Moved.m_CurEntryId IN
    /\ pending.op \in {"next", "first", "pre"}
    /\ loaded /\ e \in 0 .. N - 1 /\ ~IsLoop(e)
    /\ cursor' = Moved
    /\ PlayUrl
    /\ CountLoop(e)
    /\ m_PlayDurationTimer' = Off
    /\ m_PlaylistDurationTimer' = IF IsTimed(e) THEN lastId + 1 ELSE Off
    /\ m_iStateType' = "State_PlayingVideoFile"
    /\ m_bIsPlayingIdlePlayList' = IdleListPlays
    /\ pending' = Done
    /\ row' = IF row.entry = e /\ Moved.Keydown = cursor.Keydown
              THEN [row EXCEPT !.starts = @ + 1] ELSE [entry |-> e, starts |-> 1]
    /\ UNCHANGED <<fileVars, loaded, m_PlayIdlePlayList_Timer, firstPosted, stopped, file>>

\* The video cannot be played: its timer is started all the same, and the next entry is tried.
EntryFails ==
    LET e == Moved.m_CurEntryId IN
    /\ pending.op \in {"next", "first", "pre"}
    /\ loaded /\ e \in 0 .. N - 1 /\ ~IsLoop(e)
    /\ cursor' = Moved
    /\ PlayUrlFails
    /\ CountLoop(e)
    /\ m_PlayDurationTimer' = Off
    /\ m_PlaylistDurationTimer' = IF IsTimed(e) THEN NoPlayback ELSE Off
    /\ m_iStateType' = "State_PlayingVideoFile"
    /\ pending' = [pending EXCEPT !.op = "next"]
    /\ row' = IF Moved.Keydown = cursor.Keydown THEN row ELSE NoRow
    /\ UNCHANGED <<fileVars, loaded, m_PlayIdlePlayList_Timer, m_bIsPlayingIdlePlayList, firstPosted,
                   stopped, file>>

\* The entry sends the list back to its start: by an event, against an endless recursion.
EntryLoops ==
    LET e == Moved.m_CurEntryId IN
    /\ pending.op \in {"next", "first", "pre"}
    /\ loaded /\ e \in 0 .. N - 1 /\ IsLoop(e)
    /\ cursor' = Moved
    /\ m_iHasLoopTimes' = [m_iHasLoopTimes EXCEPT ![e] = @ + 1]
    /\ firstPosted' =
           \/ firstPosted
           \/ /\ e > 0
              /\ Entries[e + 1].times = -1 \/ m_iHasLoopTimes[e] + 1 < Entries[e + 1].times
    /\ m_bIsPlayingIdlePlayList' = IdleListPlays
    /\ pending' = Done
    /\ UNCHANGED <<playerVars, m_PlaybackId, logVars, fileVars, loaded, m_bIsNeedLoop, timerVars,
                   m_iStateType, m_PlayIdlePlayList_Timer, stopped, file, row, budget>>

-----------------------------------------------------------------------------
(* A single file.                                                          *)

FileStep(f, by) == [op |-> "file", loops |-> f.loops, timed |-> f.timed, by |-> by]

\* What is kept to play the file again: a timed one counts this play at once, an untimed
\* one when it ends.  Of a timed one with negative loops nothing is kept, nor forgotten.
NextFile(loops, timed) ==
    IF timed /\ loops < 0
    THEN [m_NextFileInfoToPlay EXCEPT !.initZero = FALSE]
    ELSE [loops |-> IF timed /\ loops > 0 THEN loops - 1 ELSE loops, timed |-> timed,
          initZero |-> loops = 0, named |-> TRUE]

\* playMedia ends the idle playlist and, with the file to play, its StopPlayback times idleness.
FileIsTaken ==
    /\ m_iStateType' = "State_PlayingVideoFile"
    /\ m_PlayIdlePlayList_Timer' = startIdelDetectTimer(FALSE, FALSE)
    /\ m_bIsPlayingIdlePlayList' = FALSE

\* playMedia of a video: whatever runs is stopped, and the file plays, ...
FilePlays ==
    /\ pending.op = "file"
    /\ m_eCurPlayMediaFileType' = "VIDEO"
    /\ FileIsTaken
    /\ PlayUrl
    /\ m_PlayDurationTimer' = IF pending.timed THEN lastId + 1 ELSE Off
    /\ m_PlaylistDurationTimer' = Off
    /\ m_NextFileInfoToPlay' = NextFile(pending.loops, pending.timed)
    /\ file' = [file EXCEPT !.starts = @ + 1]
    /\ pending' = Done
    /\ UNCHANGED <<listVars, firstPosted, stopped, row>>

\* ... or does not, and the file to play again is still the one before.
FileFails ==
    /\ pending.op = "file"
    /\ m_eCurPlayMediaFileType' = "VIDEO"
    /\ FileIsTaken
    /\ PlayUrlFails
    /\ StopPlayDurationTimer
    /\ file' = [file EXCEPT !.calm = FALSE]
    /\ pending' = Done
    /\ UNCHANGED <<m_NextFileInfoToPlay, listVars, firstPosted, stopped, row>>

\* The file plays again, if it has a name (StopAll takes it).
PlayAgain(f, by) == pending' = IF f.named THEN FileStep(f, by) ELSE Done

-----------------------------------------------------------------------------
(* Ends of stream, timers and the posted event.                            *)

\* Mutant of Awaited: any end moves on what the interface waits for.
AwaitedOrNot(id) == TRUE

\* The signal names the playback the interface waits for.
Awaited(id) == id = m_PlaybackId

\* PlaybackEos2 of another playback than the one waited for is logged, and no more.
On_MP_PlaybackEosOther ==
    /\ ~Busy /\ signals # <<>>
    /\ ~Awaited(Head(signals))
    /\ signals' = Tail(signals)
    /\ rememberEndedPlaybackId(Head(signals))
    /\ UNCHANGED <<player, lastId, m_PlaybackId, fileVars, listVars, timerVars, idleVars, firstPosted,
                   pending, stopped, file, row, budget>>

\* The list goes on to its next entry (of the StopPlayback before, the player is IDLE already).
On_MP_PlaybackEosInList ==
    /\ ~Busy /\ signals # <<>>
    /\ Awaited(Head(signals))
    /\ m_eCurPlayMediaFileType = "PLAYLIST"
    /\ signals' = Tail(signals)
    /\ rememberEndedPlaybackId(Head(signals))
    /\ BecomesIdle(m_bIsPlayingIdlePlayList)
    /\ pending' = [op |-> "next", by |-> "eos"]
    /\ UNCHANGED <<player, lastId, m_PlaybackId, fileVars, listVars, timerVars, firstPosted, stopped,
                   file, row, budget>>

\* Mutant of On_MP_PlaybackEosOfFile: one loop too many.
On_MP_PlaybackEosOfFileOnceMore ==
    LET next == m_NextFileInfoToPlay IN
    /\ ~Busy /\ signals # <<>>
    /\ Awaited(Head(signals))
    /\ m_eCurPlayMediaFileType = "VIDEO"
    /\ signals' = Tail(signals)
    /\ rememberEndedPlaybackId(Head(signals))
    /\ IF next.loops > 0
       THEN /\ m_NextFileInfoToPlay' = [next EXCEPT !.loops = @ - 1]
            /\ PlayAgain(m_NextFileInfoToPlay', "eos")
       ELSE UNCHANGED <<m_NextFileInfoToPlay, pending>>
    /\ UNCHANGED <<player, lastId, m_PlaybackId, m_eCurPlayMediaFileType, listVars, timerVars,
                   idleVars, firstPosted, stopped, file, row, budget>>

\* The file plays again while it has loops left, or for ever.
On_MP_PlaybackEosOfFile ==
    LET next == m_NextFileInfoToPlay IN
    /\ ~Busy /\ signals # <<>>
    /\ Awaited(Head(signals))
    /\ m_eCurPlayMediaFileType = "VIDEO"
    /\ signals' = Tail(signals)
    /\ rememberEndedPlaybackId(Head(signals))
    /\ IF next.loops > 1
       THEN /\ m_NextFileInfoToPlay' = [next EXCEPT !.loops = @ - 1]
            /\ PlayAgain(m_NextFileInfoToPlay', "eos")
       ELSE /\ IF next.initZero THEN PlayAgain(next, "eos") ELSE UNCHANGED pending
            /\ UNCHANGED m_NextFileInfoToPlay
    /\ UNCHANGED <<player, lastId, m_PlaybackId, m_eCurPlayMediaFileType, listVars, timerVars,
                   idleVars, firstPosted, stopped, file, row, budget>>

\* A posted event is handled before the timers and the keys that come later.
OnTimer_checkPlayDurationTimeOut ==
    /\ ~Busy /\ ~firstPosted
    /\ m_PlayDurationTimer # Off
    /\ m_PlayDurationTimer' = Off
    /\ StopPlayback(m_bIsPlayingIdlePlayList)
    /\ IF m_NextFileInfoToPlay.loops # 0 \/ m_NextFileInfoToPlay.initZero
       THEN PlayAgain(m_NextFileInfoToPlay, "timer")
       ELSE UNCHANGED pending
    /\ UNCHANGED <<lastId, signals, m_PlaybackId, fileVars, listVars, m_PlaylistDurationTimer,
                   firstPosted, stopped, file, row, budget>>

OnTimer_checkPlaylistDurationTimeOut ==
    /\ ~Busy /\ ~firstPosted
    /\ m_PlaylistDurationTimer # Off
    /\ m_PlaylistDurationTimer' = Off
    /\ StopPlayback(m_bIsPlayingIdlePlayList)
    /\ pending' = [op |-> "next", by |-> "timer"]
    /\ UNCHANGED <<lastId, signals, m_PlaybackId, fileVars, listVars, m_PlayDurationTimer,
                   firstPosted, stopped, file, row, budget>>

PlayFirstEntry ==
    /\ ~Busy /\ firstPosted
    /\ firstPosted' = FALSE
    /\ pending' = [op |-> "first", by |-> "event"]
    /\ row' = NoRow
    /\ UNCHANGED <<playerVars, m_PlaybackId, logVars, fileVars, listVars, timerVars, idleVars, stopped,
                   file, budget>>

\* The idle timer fires: the idle playlist is loaded and starts, if the interface is idle still.
\* What kind of media an end belongs to (m_eCurPlayMediaFileType) is left as it was.
PlayIdlePlayListFile ==
    /\ ~Busy /\ ~firstPosted
    /\ m_PlayIdlePlayList_Timer
    /\ m_PlayIdlePlayList_Timer' = FALSE
    /\ IF m_iStateType = "State_Idle"
       THEN /\ m_iStateType' = "State_PlayingPlayList"
            /\ LoadFromIniFile
            /\ StopPlayDurationTimer
            /\ pending' = [op |-> "first", by |-> "idle"]
            /\ stopped' = FALSE
            /\ file' = [file EXCEPT !.calm = FALSE]
            /\ row' = NoRow
       ELSE UNCHANGED <<m_iStateType, listVars, timerVars, pending, stopped, file, row>>
    /\ UNCHANGED <<playerVars, m_PlaybackId, logVars, fileVars, m_bIsPlayingIdlePlayList, firstPosted,
                   budget>>

-----------------------------------------------------------------------------
(* The user, by D-Bus or by key.                                           *)

\* An order that plays something.
Orders ==
    /\ ~Busy
    /\ budget.orders > 0
    /\ budget' = [budget EXCEPT !.orders = @ - 1]
    /\ stopped' = FALSE
    /\ row' = NoRow

\* playMedia of a playlist: it is loaded again and starts.
PlayList ==
    /\ Orders
    /\ StopPlayDurationTimer
    /\ m_eCurPlayMediaFileType' = "PLAYLIST"
    /\ LoadFromIniFile
    /\ pending' = [op |-> "first", by |-> "order"]
    /\ file' = [file EXCEPT !.calm = FALSE]
    /\ m_PlayIdlePlayList_Timer' = FALSE
    /\ m_bIsPlayingIdlePlayList' = FALSE
    /\ UNCHANGED <<playerVars, m_PlaybackId, logVars, m_NextFileInfoToPlay, m_iStateType, firstPosted>>

\* playMedia of a file: what plays is stopped and the list is cleared.
PlayFile ==
    \E f \in Files :
        /\ Orders
        /\ StopPlayDurationTimer
        /\ stopMPlayerWithEventLog
        /\ loaded' = FALSE
        /\ pending' = FileStep(f, "order")
        /\ file' = [loops |-> f.loops, starts |-> 0, calm |-> ~f.timed /\ ~firstPosted]
        /\ UNCHANGED <<lastId, signals, m_PlaybackId, fileVars, cursor, m_iHasLoopTimes,
                       m_bIsNeedLoop, idleVars, firstPosted>>

\* setPlayNext.
setPlayNext ==
    /\ Orders
    /\ StopPlayDurationTimer
    /\ StopPlayback(m_bIsPlayingIdlePlayList)
    /\ pending' = [op |-> "next", by |-> "order"]
    /\ file' = [file EXCEPT !.calm = FALSE]
    /\ UNCHANGED <<lastId, signals, m_PlaybackId, fileVars, listVars, firstPosted>>

\* What a key or a button does first, whatever it is: idleness is timed anew, and the idle
\* playlist is stopped and dropped.
SomeoneIsThere ==
    IF m_bIsPlayingIdlePlayList
    THEN /\ StopPlayback(FALSE)
         /\ loaded' = FALSE
    ELSE /\ m_PlayIdlePlayList_Timer' = (m_PlayIdlePlayList_Timer /\ m_iStateType = "State_Idle")
         /\ UNCHANGED <<player, logVars, loaded, m_iStateType, m_bIsPlayingIdlePlayList>>

\* The end of the idle playlist that a key stopped is waited for no more (notify).
KeyWaits == m_PlaybackId' = IF m_bIsPlayingIdlePlayList THEN NoPlayback ELSE m_PlaybackId

\* One event of the DOWN key.
KeyDown ==
    /\ Orders /\ ~firstPosted
    /\ StopPlayDurationTimer
    /\ StopPlayback(FALSE)
    /\ KeyWaits
    /\ loaded' = (loaded /\ ~m_bIsPlayingIdlePlayList)
    /\ cursor' = [cursor EXCEPT !.m_keydownflag = 1]
    /\ pending' = [op |-> "next", by |-> "order"]
    /\ file' = [file EXCEPT !.calm = FALSE]
    /\ UNCHANGED <<lastId, signals, fileVars, m_iHasLoopTimes, m_bIsNeedLoop, firstPosted>>

\* One event of the UP key.  At the first entry it reads before the start of the list (line
\* 1045 of PlaylistData.cpp): what happens then is not modelled.
KeyUp ==
    /\ Orders /\ ~firstPosted
    /\ SomeoneIsThere
    /\ KeyWaits
    /\ loaded' => cursor.m_CurEntryId + cursor.keyupflag > 0
    /\ StopPlayDurationTimer
    /\ pending' = [op |-> "pre", by |-> "order"]
    /\ file' = [file EXCEPT !.calm = FALSE]
    /\ UNCHANGED <<lastId, signals, fileVars, cursor, m_iHasLoopTimes, m_bIsNeedLoop, firstPosted>>

\* Mutant of Stops: the interface waits for the playback still.
StopsStillWaiting ==
    /\ ~Busy
    /\ budget.orders > 0
    /\ budget' = [budget EXCEPT !.orders = @ - 1]
    /\ stopMPlayerWithEventLog
    /\ row' = NoRow
    /\ file' = [file EXCEPT !.calm = FALSE]
    /\ UNCHANGED <<lastId, signals, m_PlaybackId, m_eCurPlayMediaFileType, cursor, m_iHasLoopTimes,
                   m_bIsNeedLoop, firstPosted, pending>>

\* A stop: no end of stream is waited for any more, and what runs is stopped.
Stops ==
    /\ ~Busy
    /\ budget.orders > 0
    /\ budget' = [budget EXCEPT !.orders = @ - 1]
    /\ m_PlaybackId' = NoPlayback
    /\ stopMPlayerWithEventLog
    /\ row' = NoRow
    /\ file' = [file EXCEPT !.calm = FALSE]
    /\ UNCHANGED <<lastId, signals, m_eCurPlayMediaFileType, cursor, m_iHasLoopTimes, m_bIsNeedLoop,
                   firstPosted, pending>>

\* Nothing is left that may play: no timer, no list for the timer or the posted event.
NothingLeftToPlay ==
    /\ m_PlayDurationTimer' = Off
    /\ \/ ~loaded'
       \/ m_PlaylistDurationTimer' = Off /\ ~firstPosted

\* setPlayMode with StopAll: the STOP key's handler, then the list and the file are dropped.
StopAll ==
    /\ Stops
    /\ BecomesIdle(FALSE)
    /\ StopPlayDurationTimer
    /\ loaded' = FALSE
    /\ m_NextFileInfoToPlay' = [m_NextFileInfoToPlay EXCEPT !.named = FALSE]
    /\ stopped' = NothingLeftToPlay

\* setPlayMode with StopContent: the list is dropped, but not when the browser's window is
\* the active one.
StopContent ==
    /\ Stops
    /\ BecomesIdle(m_bIsPlayingIdlePlayList)
    /\ StopPlayDurationTimer
    /\ loaded' \in {FALSE, loaded}
    /\ UNCHANGED m_NextFileInfoToPlay
    /\ stopped' = NothingLeftToPlay

\* The STOP key of the remote control (notify): the list is dropped, the timers run on.
RemoteStop ==
    /\ Stops /\ ~firstPosted
    /\ BecomesIdle(FALSE)
    /\ loaded' = FALSE
    /\ UNCHANGED <<m_NextFileInfoToPlay, timerVars>>
    /\ stopped' = NothingLeftToPlay

\* StopMedia: only the player is stopped.
StopMedia ==
    /\ Stops
    /\ UNCHANGED <<m_NextFileInfoToPlay, timerVars, idleVars, loaded>>
    /\ stopped' = NothingLeftToPlay

\* A key that is no order: during the idle playlist it is a stop.
OtherKey ==
    /\ ~Busy /\ ~firstPosted
    /\ budget.orders > 0
    /\ budget' = [budget EXCEPT !.orders = @ - 1]
    /\ SomeoneIsThere
    /\ KeyWaits
    /\ UNCHANGED <<lastId, signals, fileVars, cursor, m_iHasLoopTimes, m_bIsNeedLoop, timerVars,
                   firstPosted, pending, file, row>>
    /\ stopped' = IF m_bIsPlayingIdlePlayList THEN NothingLeftToPlay ELSE stopped

\* A button of the device: the same, but an end of the idle playlist is still waited for.
On_GpioBtnKey ==
    /\ ~Busy
    /\ budget.orders > 0
    /\ budget' = [budget EXCEPT !.orders = @ - 1]
    /\ SomeoneIsThere
    /\ UNCHANGED <<lastId, signals, m_PlaybackId, fileVars, cursor, m_iHasLoopTimes, m_bIsNeedLoop,
                   timerVars, firstPosted, pending, stopped, file, row>>

Handler ==
    \/ On_MP_PlaybackEosOther \/ On_MP_PlaybackEosInList \/ On_MP_PlaybackEosOfFile
    \/ OnTimer_checkPlayDurationTimeOut \/ OnTimer_checkPlaylistDurationTimeOut
    \/ PlayFirstEntry \/ PlayIdlePlayListFile

User ==
    \/ PlayList \/ PlayFile \/ setPlayNext \/ KeyDown \/ KeyUp
    \/ StopAll \/ StopContent \/ RemoteStop \/ StopMedia
    \/ OtherKey \/ On_GpioBtnKey

Next ==
    \/ EndOfStream
    \/ NoEntry \/ EntryPlays \/ EntryFails \/ EntryLoops \/ FilePlays \/ FileFails
    \/ Handler
    \/ User

Spec == Init /\ [][Next]_vars

-----------------------------------------------------------------------------
(* Properties.                                                             *)

Causes == {"eos", "timer", "event", "order", "idle"}
Steps ==
    {Done} \cup [op : {"next", "first", "pre"}, by : Causes]
           \cup [op : {"file"}, loops : Int, timed : BOOLEAN, by : Causes]

PlayerTypeOK ==
    /\ player \in 0 .. MaxPlays
    /\ lastId \in 0 .. MaxPlays
    /\ signals \in Seq(1 .. MaxPlays)
    /\ m_PlaybackId \in 0 .. MaxPlays

LogTypeOK ==
    /\ mEndedPlaybackIdList \in Seq(1 .. MaxPlays)
    /\ logged \in [1 .. MaxPlays -> Nat]

FileTypeOK ==
    /\ m_eCurPlayMediaFileType \in {"PLAYLIST", "VIDEO"}
    /\ m_NextFileInfoToPlay \in [loops : Int, timed : BOOLEAN, initZero : BOOLEAN, named : BOOLEAN]
    /\ file \in [loops : Int, starts : Nat, calm : BOOLEAN]

Cursors == [m_CurEntryId : Int, m_keydownflag : 0 .. 1, Keydown : 0 .. 1, sicount : 0 .. 3,
            keyupflag : 0 .. 1]

ListTypeOK ==
    /\ loaded \in BOOLEAN
    /\ cursor \in Cursors
    /\ m_iHasLoopTimes \in [0 .. N - 1 -> Nat]
    /\ m_bIsNeedLoop \in BOOLEAN
    /\ row \in [entry : -1 .. N - 1, starts : Nat]

TimerTypeOK ==
    /\ m_PlayDurationTimer \in Off .. MaxPlays
    /\ m_PlaylistDurationTimer \in Off .. MaxPlays
    /\ firstPosted \in BOOLEAN

IdleTypeOK ==
    /\ m_iStateType \in {"State_Idle", "State_PlayingVideoFile", "State_PlayingPlayList"}
    /\ m_PlayIdlePlayList_Timer \in {FALSE, IdleDetect}
    /\ m_bIsPlayingIdlePlayList \in BOOLEAN

TypeOK ==
    /\ PlayerTypeOK
    /\ LogTypeOK
    /\ FileTypeOK
    /\ ListTypeOK
    /\ TimerTypeOK
    /\ IdleTypeOK
    /\ pending \in Steps
    /\ stopped \in BOOLEAN
    /\ budget \in [orders : 0 .. MaxOrders, faults : 0 .. MaxFaults]

\* Every playback's end gets into the event log once, whoever ends it (a stop, its own end,
\* announced once or twice, or both at the same time): never twice, and once when nothing is
\* on its way (lines 2936-2970 against stopMPlayerWithEventLog).
EveryEndIsLoggedOnce ==
    \A id \in 1 .. lastId :
        /\ logged[id] <= 1
        /\ ~Busy /\ signals = <<>> /\ id # player => logged[id] = 1

Quiet == ~Busy /\ ~firstPosted /\ player = NoPlayback /\ signals = <<>>

\* A file that is to play L times, with no duration, has played L times when all is quiet, if
\* the user let it, no play failed and no posted start of a list, which is not taken back,
\* stopped it: ends announced late or twice do not count, and the idle timer that runs meanwhile
\* starts nothing (lines 3027-3055, 5418, 6032).
FilePlaysItsLoops == Quiet /\ file.calm /\ file.loops > 0 => file.starts = file.loops

\* After a stop that leaves nothing to play, nothing plays until the user orders it or, where that is
\* configured, the idle timer starts the idle playlist: whatever ends, duration timers and events were
\* on their way (lines 1779, 3165, 4571, 4586, 8216, 16634).
StopIsFinal ==
    [][stopped =>
          /\ lastId' = lastId
          /\ stopped' \/ User \/ (IdleDetect /\ PlayIdlePlayListFile)]_vars

\* What plays is cut by the user, by the timer that was started for it, or by the posted start of
\* the list: never by the end, the timer or the failure of an earlier playback, nor by the idle
\* playlist, whose timer may run while something plays (lines 1779, 6032).
PlaybackIsNotCut ==
    [][player # NoPlayback /\ player' # player =>
          \/ EndOfStream \/ User
          \/ pending.by \in {"order", "event"}
          \/ m_PlayDurationTimer = player /\ m_PlayDurationTimer' = Off
          \/ m_PlaylistDurationTimer = player /\ m_PlaylistDurationTimer' = Off]_vars

\* An entry whose loops the interface counts starts in a row at most as often as they say, whether
\* its playbacks end by themselves or by the timer (lines 1885-1897).
EntryPlaysItsLoops ==
    row.entry # -1 /\ (IsTimed(row.entry) \/ LoopsOf(row.entry) <= 1) =>
        row.starts <= (IF LoopsOf(row.entry) > 1 THEN LoopsOf(row.entry) ELSE 1)

=============================================================================
