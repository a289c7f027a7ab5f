------------------------ MODULE PlaybackControlProofs ------------------------
(***************************************************************************)
(* PlaybackControl for any playlist, any files, any number of orders and   *)
(* playbacks, and any faults.                                              *)
(***************************************************************************)
EXTENDS PlaybackControl, FiniteSetTheorems, SequenceTheorems, TLAPS

-----------------------------------------------------------------------------
(* Types.                                                                  *)

Budgets == [orders : 0 .. MaxOrders, faults : 0 .. MaxFaults]
NextFiles == [loops : Int, timed : BOOLEAN, initZero : BOOLEAN, named : BOOLEAN]
FileStarts == [loops : Int, starts : Nat, calm : BOOLEAN]
Rows == [entry : -1 .. N - 1, starts : Nat]

\* An entry that is no loop is a video.
LEMMA EntryTypes ==
    ASSUME NEW e \in 0 .. N - 1, ~IsLoop(e)
    PROVE  IsTimed(e) \in BOOLEAN /\ LoopsOf(e) \in Nat
BY ConstantsAssumption DEF IsLoop, IsTimed, LoopsOf

\* A list that starts again and a key that is pressed leave a cursor.
LEMMA CursorType ==
    ASSUME NEW c \in Cursors
    PROVE  /\ [c EXCEPT !.m_CurEntryId = -1] \in Cursors
           /\ [c EXCEPT !.m_keydownflag = 1] \in Cursors
<1>1. [c EXCEPT !.m_CurEntryId = -1] \in Cursors
    BY DEF Cursors
<1>2. [c EXCEPT !.m_keydownflag = 1] \in Cursors
    BY DEF Cursors
<1>3. QED
    BY <1>1, <1>2

\* The cursor stays a cursor wherever PlayNextEntry moves it.
LEMMA MovedType ==
    ASSUME ListTypeOK, pending.op \in {"next", "first", "pre"}
    PROVE  Moved \in Cursors
<1> USE DEF Cursors
<1>1. cursor \in Cursors /\ m_bIsNeedLoop \in BOOLEAN
    BY DEF ListTypeOK
<1>2. ASSUME NEW c \in Cursors, NEW moveNext \in BOOLEAN
      PROVE  MoveToNextPlayEntry(c, moveNext) \in Cursors
    BY ConstantsAssumption DEF MoveToNextPlayEntry, AtMost
<1>3. MoveToPreHeadPlayEntry(cursor) \in Cursors
    BY <1>1 DEF MoveToPreHeadPlayEntry
<1>4. [cursor EXCEPT !.m_CurEntryId = -1] \in Cursors
    BY <1>1
<1>5. QED
    BY <1>1, <1>2, <1>3, <1>4 DEF Moved

\* What is remembered of a playback keeps the types of the log.
LEMMA RememberType ==
    ASSUME LogTypeOK, NEW id \in 0 .. MaxPlays, rememberEndedPlaybackId(id)
    PROVE  LogTypeOK'
<1>1. CASE id = NoPlayback \/ id \in Ended
    BY <1>1 DEF LogTypeOK, rememberEndedPlaybackId, logVars
<1>2. CASE id # NoPlayback /\ id \notin Ended
    <2>1. id \in 1 .. MaxPlays
        BY <1>2, ConstantsAssumption DEF NoPlayback
    <2>2. logged' = [logged EXCEPT ![id] = @ + 1]
        BY <1>2 DEF rememberEndedPlaybackId
    <2>3. mEndedPlaybackIdList' \in Seq(1 .. MaxPlays)
        <3> DEFINE list == mEndedPlaybackIdList
        <3>1. list \in Seq(1 .. MaxPlays)
            BY DEF LogTypeOK
        <3>2. CASE Len(list) < MAX_EndedPlaybackIdList_SIZE
            <4>1. mEndedPlaybackIdList' = Append(list, id)
                BY <1>2, <3>2 DEF rememberEndedPlaybackId
            <4>2. Append(list, id) \in Seq(1 .. MaxPlays)
                BY <2>1, <3>1
            <4>3. QED
                BY <4>1, <4>2
        <3>3. CASE ~(Len(list) < MAX_EndedPlaybackIdList_SIZE)
            <4>1. list # <<>>
                BY <3>1, <3>3 DEF MAX_EndedPlaybackIdList_SIZE
            <4>2. Tail(list) \in Seq(1 .. MaxPlays)
                BY <3>1, <4>1
            <4>3. mEndedPlaybackIdList' = Append(Tail(list), id)
                BY <1>2, <3>3 DEF rememberEndedPlaybackId
            <4>4. Append(Tail(list), id) \in Seq(1 .. MaxPlays)
                BY <2>1, <4>2
            <4>5. QED
                BY <4>3, <4>4
        <3>4. QED
            BY <3>2, <3>3
    <2>4. QED
        BY <2>1, <2>2, <2>3 DEF LogTypeOK
<1>3. QED
    BY <1>1, <1>2

\* A stop keeps the types of what it changes.
LEMMA StopType ==
    ASSUME PlayerTypeOK, LogTypeOK, stopMPlayerWithEventLog
    PROVE  player' \in 0 .. MaxPlays /\ LogTypeOK'
<1>1. player \in 0 .. MaxPlays
    BY DEF PlayerTypeOK
<1>2. QED
    BY <1>1, RememberType, ConstantsAssumption DEF stopMPlayerWithEventLog, NoPlayback

\* So does a play, whether it succeeds or not.
LEMMA PlayType ==
    ASSUME PlayerTypeOK, LogTypeOK, budget \in Budgets, PlayUrl \/ PlayUrlFails
    PROVE  PlayerTypeOK' /\ LogTypeOK' /\ budget' \in Budgets
<1>1. CASE PlayUrl
    <2>1. player \in 0 .. MaxPlays /\ rememberEndedPlaybackId(player)
        BY <1>1 DEF PlayerTypeOK, PlayUrl
    <2>2. QED
        BY <1>1, <2>1, RememberType, ConstantsAssumption DEF PlayUrl, PlayerTypeOK
<1>2. CASE PlayUrlFails
    <2>1. player' \in 0 .. MaxPlays /\ LogTypeOK'
        BY <1>2, StopType DEF PlayUrlFails
    <2>2. budget' \in Budgets
        BY <1>2, ConstantsAssumption DEF PlayUrlFails, Budgets
    <2>3. QED
        BY <1>2, <2>1, <2>2 DEF PlayUrlFails, PlayerTypeOK
<1>3. QED
    BY <1>1, <1>2

\* The interface that becomes idle keeps the types of what times it.
LEMMA BecomesIdleType ==
    ASSUME IdleTypeOK, NEW plays \in BOOLEAN, BecomesIdle(plays)
    PROVE  IdleTypeOK'
<1>1. m_PlayIdlePlayList_Timer' = (m_PlayIdlePlayList_Timer \/ (IdleDetect /\ ~plays))
    BY DEF BecomesIdle, startIdelDetectTimer
<1>2. m_PlayIdlePlayList_Timer \in {FALSE, IdleDetect} /\ IdleDetect \in BOOLEAN
    BY ConstantsAssumption DEF IdleTypeOK
<1>3. m_PlayIdlePlayList_Timer' \in {FALSE, IdleDetect}
    BY <1>1, <1>2
<1>4. QED
    BY <1>3 DEF BecomesIdle, IdleTypeOK

\* So does every step.
LEMMA IdleType ==
    ASSUME IdleTypeOK, [Next]_vars
    PROVE  IdleTypeOK'
<1> USE DEF idleVars
<1>a. /\ m_bIsPlayingIdlePlayList \in BOOLEAN /\ IdleListPlays \in BOOLEAN
      /\ IdleDetect \in BOOLEAN /\ m_PlayIdlePlayList_Timer \in {FALSE, IdleDetect}
    BY ConstantsAssumption DEF IdleTypeOK, IdleListPlays
<1>b. ASSUME NEW plays \in BOOLEAN
      PROVE  startIdelDetectTimer(FALSE, plays) \in {FALSE, IdleDetect}
    BY <1>a DEF startIdelDetectTimer
<1>c. ASSUME SomeoneIsThere
      PROVE  IdleTypeOK'
    <2>1. CASE m_bIsPlayingIdlePlayList
        BY <1>c, <2>1, BecomesIdleType DEF SomeoneIsThere, StopPlayback
    <2>2. CASE ~m_bIsPlayingIdlePlayList
        <3>1. /\ m_PlayIdlePlayList_Timer' = (m_PlayIdlePlayList_Timer /\ m_iStateType = "State_Idle")
              /\ UNCHANGED <<m_iStateType, m_bIsPlayingIdlePlayList>>
            BY <1>c, <2>2 DEF SomeoneIsThere
        <3>2. m_PlayIdlePlayList_Timer' \in {FALSE, IdleDetect}
            BY <1>a, <3>1
        <3>3. QED
            BY <3>1, <3>2 DEF IdleTypeOK
    <2>3. QED
        BY <2>1, <2>2
<1>1. CASE EndOfStream \/ PlayFile \/ StopMedia \/ UNCHANGED vars
    BY <1>1 DEF EndOfStream, PlayFile, StopMedia, vars, IdleTypeOK
<1>2. CASE NoEntry
    BY <1>2, <1>a, <1>b DEF NoEntry, IdleTypeOK
<1>3. CASE EntryPlays \/ EntryFails \/ EntryLoops
    BY <1>3, <1>a DEF EntryPlays, EntryFails, EntryLoops, IdleTypeOK
<1>4. CASE FilePlays \/ FileFails
    BY <1>4, <1>b DEF FilePlays, FileFails, FileIsTaken, IdleTypeOK
<1>5. CASE On_MP_PlaybackEosOther \/ On_MP_PlaybackEosOfFile \/ PlayFirstEntry
    BY <1>5 DEF On_MP_PlaybackEosOther, On_MP_PlaybackEosOfFile, PlayFirstEntry, IdleTypeOK
<1>6. CASE \/ On_MP_PlaybackEosInList \/ OnTimer_checkPlayDurationTimeOut
           \/ OnTimer_checkPlaylistDurationTimeOut \/ setPlayNext \/ StopContent
    BY <1>6, <1>a, BecomesIdleType
       DEF On_MP_PlaybackEosInList, OnTimer_checkPlayDurationTimeOut,
           OnTimer_checkPlaylistDurationTimeOut, setPlayNext, StopContent, StopPlayback
<1>7. CASE PlayIdlePlayListFile
    BY <1>7 DEF PlayIdlePlayListFile, IdleTypeOK
<1>8. CASE PlayList
    BY <1>8 DEF PlayList, IdleTypeOK
<1>9. CASE KeyDown \/ StopAll \/ RemoteStop
    BY <1>9, BecomesIdleType DEF KeyDown, StopAll, RemoteStop, StopPlayback
<1>10. CASE KeyUp \/ OtherKey \/ On_GpioBtnKey
    BY <1>10, <1>c DEF KeyUp, OtherKey, On_GpioBtnKey
<1>11. QED
    BY <1>1, <1>2, <1>3, <1>4, <1>5, <1>6, <1>7, <1>8, <1>9, <1>10 DEF Next, Handler, User

\* Where an entry was started or tried, its loops stay counted.
LEMMA CountType ==
    ASSUME ListTypeOK, NEW e \in 0 .. N - 1, ~IsLoop(e), CountLoop(e)
    PROVE  m_iHasLoopTimes' \in [0 .. N - 1 -> Nat] /\ m_bIsNeedLoop' \in BOOLEAN
<1>1. IsTimed(e) \in BOOLEAN /\ LoopsOf(e) \in Nat
    BY EntryTypes
<1>2. m_iHasLoopTimes \in [0 .. N - 1 -> Nat] /\ m_bIsNeedLoop \in BOOLEAN
    BY DEF ListTypeOK
<1>3. CASE ~IsTimed(e) /\ LoopsOf(e) > 1
    BY <1>2, <1>3 DEF CountLoop
<1>4. CASE ~(~IsTimed(e) /\ LoopsOf(e) > 1)
    <2> DEFINE times == m_iHasLoopTimes[e] + 1
    <2>1. times \in Nat /\ (times < LoopsOf(e)) \in BOOLEAN
        BY <1>1, <1>2
    <2>2. /\ m_bIsNeedLoop' = (times < LoopsOf(e))
          /\ m_iHasLoopTimes' = [m_iHasLoopTimes EXCEPT ![e] = IF times < LoopsOf(e) THEN times ELSE 0]
        BY <1>4 DEF CountLoop
    <2>3. m_iHasLoopTimes' \in [0 .. N - 1 -> Nat]
        BY <1>2, <2>1, <2>2
    <2>4. QED
        BY <2>1, <2>2, <2>3
<1>5. QED
    BY <1>3, <1>4

\* The interface begins with nothing.
LEMMA InitType == Init => TypeOK
<1> SUFFICES ASSUME Init PROVE TypeOK
    OBVIOUS
<1>1. PlayerTypeOK
    BY ConstantsAssumption DEF Init, PlayerTypeOK, NoPlayback
<1>2. LogTypeOK
    BY ConstantsAssumption DEF Init, LogTypeOK
<1>3. FileTypeOK
    BY DEF Init, FileTypeOK
<1>4. ListTypeOK
    <2>1. cursor \in Cursors
        BY DEF Init, Cursors
    <2>2. m_iHasLoopTimes \in [0 .. N - 1 -> Nat]
        BY DEF Init
    <2>3. row = [entry |-> -1, starts |-> 0]
        BY DEF Init, NoRow
    <2>4. row \in Rows
        BY <2>3, ConstantsAssumption DEF Rows
    <2>5. loaded = FALSE /\ m_bIsNeedLoop = FALSE
        BY DEF Init
    <2>6. QED
        BY <2>1, <2>2, <2>4, <2>5 DEF ListTypeOK, Rows
<1>5. TimerTypeOK
    <2>1. m_PlayDurationTimer = -1 /\ m_PlaylistDurationTimer = -1 /\ firstPosted = FALSE
        BY DEF Init, Off
    <2>2. -1 \in -1 .. MaxPlays
        BY ConstantsAssumption
    <2>3. QED
        BY <2>1, <2>2 DEF TimerTypeOK, Off
<1>6. budget \in Budgets
    BY ConstantsAssumption DEF Init, Budgets
<1>7. IdleTypeOK
    BY DEF Init, IdleTypeOK
<1>8. QED
    BY <1>1, <1>2, <1>3, <1>4, <1>5, <1>6, <1>7 DEF Init, TypeOK, Budgets, Steps, Done

\* What a handler still has to do keeps the types.
LEMMA PendingType ==
    ASSUME TypeOK, NoEntry \/ EntryPlays \/ EntryFails \/ EntryLoops \/ FilePlays \/ FileFails
    PROVE  TypeOK'
<1> USE ConstantsAssumption DEF listVars, timerVars, fileVars, logVars, playerVars, NoPlayback, Off
<1>a. /\ PlayerTypeOK /\ LogTypeOK /\ FileTypeOK /\ ListTypeOK /\ TimerTypeOK
      /\ pending \in Steps /\ stopped \in BOOLEAN /\ budget \in Budgets
    BY DEF TypeOK, Budgets
<1>z. IdleTypeOK'
    BY IdleType DEF TypeOK, Next, Handler, User
<1>1. CASE NoEntry
    <2>1. cursor' \in Cursors
        BY <1>1, <1>a, MovedType DEF NoEntry
    <2>2. player' \in 0 .. MaxPlays /\ LogTypeOK'
        BY <1>1, <1>a, StopType DEF NoEntry
    <2>3. PlayerTypeOK' /\ FileTypeOK' /\ ListTypeOK' /\ TimerTypeOK'
        BY <1>1, <1>a, <2>1, <2>2
           DEF NoEntry, PlayerTypeOK, FileTypeOK, ListTypeOK, TimerTypeOK, StopPlayDurationTimer
    <2>4. QED
        BY <1>z, <1>1, <1>a, <2>2, <2>3 DEF NoEntry, TypeOK, Budgets, Steps
<1>2. CASE EntryPlays
    <2> DEFINE e == Moved.m_CurEntryId
    <2>1. e \in 0 .. N - 1 /\ ~IsLoop(e) /\ CountLoop(e) /\ PlayUrl
        BY <1>2 DEF EntryPlays
    <2>2. m_iHasLoopTimes' \in [0 .. N - 1 -> Nat] /\ m_bIsNeedLoop' \in BOOLEAN
        BY <1>a, <2>1, CountType
    <2>3. cursor' \in Cursors
        BY <1>2, <1>a, MovedType DEF EntryPlays
    <2>4. PlayerTypeOK' /\ LogTypeOK' /\ budget' \in Budgets
        BY <1>a, <2>1, PlayType
    <2>5. row' \in Rows
        BY <1>2, <1>a, <2>1 DEF EntryPlays, ListTypeOK, Rows
    <2>6. TimerTypeOK'
        BY <1>2, <1>a, SMTT(30) DEF EntryPlays, PlayUrl, TimerTypeOK, PlayerTypeOK
    <2>7. ListTypeOK' /\ FileTypeOK'
        BY <1>2, <1>a, <2>2, <2>3, <2>5 DEF EntryPlays, ListTypeOK, FileTypeOK, Rows
    <2>8. QED
        BY <1>z, <1>2, <1>a, <2>4, <2>6, <2>7 DEF EntryPlays, TypeOK, Budgets, Steps
<1>3. CASE EntryFails
    <2> DEFINE e == Moved.m_CurEntryId
    <2>1. e \in 0 .. N - 1 /\ ~IsLoop(e) /\ CountLoop(e) /\ PlayUrlFails
        BY <1>3 DEF EntryFails
    <2>2. m_iHasLoopTimes' \in [0 .. N - 1 -> Nat] /\ m_bIsNeedLoop' \in BOOLEAN
        BY <1>a, <2>1, CountType
    <2>3. cursor' \in Cursors
        BY <1>3, <1>a, MovedType DEF EntryFails
    <2>4. PlayerTypeOK' /\ LogTypeOK' /\ budget' \in Budgets
        BY <1>a, <2>1, PlayType
    <2>5. row' \in Rows
        BY <1>3, <1>a DEF EntryFails, ListTypeOK, Rows, NoRow
    <2>6. TimerTypeOK'
        BY <1>3, <1>a DEF EntryFails, TimerTypeOK
    <2>7. ListTypeOK' /\ FileTypeOK'
        BY <1>3, <1>a, <2>2, <2>3, <2>5 DEF EntryFails, ListTypeOK, FileTypeOK, Rows
    <2>8. pending' \in Steps
        BY <1>3, <1>a DEF EntryFails, Steps, Done
    <2>9. QED
        BY <1>z, <1>3, <1>a, <2>4, <2>6, <2>7, <2>8 DEF EntryFails, TypeOK, Budgets
<1>4. CASE EntryLoops
    <2>1. cursor' \in Cursors
        BY <1>4, <1>a, MovedType DEF EntryLoops
    <2>2. PlayerTypeOK' /\ LogTypeOK' /\ FileTypeOK' /\ TimerTypeOK'
        BY <1>4, <1>a DEF EntryLoops, PlayerTypeOK, LogTypeOK, FileTypeOK, TimerTypeOK
    <2>3. ListTypeOK'
        <3>1. m_iHasLoopTimes' \in [0 .. N - 1 -> Nat]
            BY <1>4, <1>a, SMTT(30) DEF EntryLoops, ListTypeOK
        <3>2. UNCHANGED <<loaded, m_bIsNeedLoop, row>>
            BY <1>4 DEF EntryLoops
        <3>3. QED
            BY <1>a, <2>1, <3>1, <3>2 DEF ListTypeOK
    <2>4. QED
        BY <1>z, <1>4, <1>a, <2>2, <2>3 DEF EntryLoops, TypeOK, Budgets, Steps
<1>5. CASE FilePlays
    <2>1. /\ pending.loops \in Int /\ pending.timed \in BOOLEAN
          /\ [m_NextFileInfoToPlay EXCEPT !.initZero = FALSE] \in NextFiles
        <3>1. pending.op = "file"
            BY <1>5 DEF FilePlays
        <3>2. pending \in [op : {"file"}, loops : Int, timed : BOOLEAN, by : Causes]
            BY <1>a, <3>1 DEF Steps, Done
        <3>3. m_NextFileInfoToPlay \in NextFiles
            BY <1>a DEF FileTypeOK, NextFiles
        <3>4. QED
            BY <3>2, <3>3 DEF NextFiles
    <2>2. NextFile(pending.loops, pending.timed) \in NextFiles
        BY <2>1 DEF NextFile, NextFiles
    <2>3. PlayerTypeOK' /\ LogTypeOK' /\ budget' \in Budgets
        BY <1>5, <1>a, PlayType DEF FilePlays
    <2>4. FileTypeOK'
        BY <1>5, <1>a, <2>2 DEF FilePlays, FileTypeOK, NextFiles
    <2>5. TimerTypeOK' /\ ListTypeOK'
        <3>1. /\ lastId < MaxPlays /\ lastId \in 0 .. MaxPlays
              /\ m_PlayDurationTimer' \in {lastId + 1, Off} /\ m_PlaylistDurationTimer' = Off
              /\ UNCHANGED <<listVars, firstPosted, row>>
            BY <1>5, <1>a DEF FilePlays, PlayUrl, PlayerTypeOK
        <3>2. lastId + 1 \in Off .. MaxPlays /\ Off \in Off .. MaxPlays
            BY <3>1, ConstantsAssumption DEF Off
        <3>3. QED
            BY <1>a, <3>1, <3>2 DEF TimerTypeOK, ListTypeOK, listVars
    <2>6. QED
        BY <1>z, <1>5, <1>a, <2>3, <2>4, <2>5 DEF FilePlays, TypeOK, Budgets, Steps
<1>6. CASE FileFails
    <2>1. PlayerTypeOK' /\ LogTypeOK' /\ budget' \in Budgets
        BY <1>6, <1>a, PlayType DEF FileFails
    <2>2. FileTypeOK'
        BY <1>6, <1>a DEF FileFails, FileTypeOK
    <2>3. TimerTypeOK' /\ ListTypeOK'
        BY <1>6, <1>a DEF FileFails, StopPlayDurationTimer, TimerTypeOK, ListTypeOK
    <2>4. QED
        BY <1>z, <1>6, <1>a, <2>1, <2>2, <2>3 DEF FileFails, TypeOK, Budgets, Steps
<1>7. QED
    BY <1>1, <1>2, <1>3, <1>4, <1>5, <1>6

\* A file that plays again is a step to do.
LEMMA PlayAgainType ==
    ASSUME pending \in Steps, NEW f \in NextFiles, NEW by \in Causes, PlayAgain(f, by)
    PROVE  pending' \in Steps
BY DEF NextFiles, PlayAgain, FileStep, Steps, Causes

\* An end of stream takes the first signal.
LEMMA SignalType ==
    ASSUME PlayerTypeOK, LogTypeOK, signals # <<>>, signals' = Tail(signals),
           rememberEndedPlaybackId(Head(signals))
    PROVE  signals' \in Seq(1 .. MaxPlays) /\ LogTypeOK'
<1>1. signals \in Seq(1 .. MaxPlays)
    BY DEF PlayerTypeOK
<1>2. Head(signals) \in 1 .. MaxPlays /\ Tail(signals) \in Seq(1 .. MaxPlays)
    BY <1>1, HeadTailProperties
<1>3. Head(signals) \in 0 .. MaxPlays
    BY <1>2, ConstantsAssumption
<1>4. QED
    BY <1>2, <1>3, RememberType

\* The end of a playback, the timers and the posted event keep the types.
LEMMA HandlerType ==
    ASSUME TypeOK, EndOfStream \/ Handler
    PROVE  TypeOK'
<1> USE ConstantsAssumption DEF listVars, timerVars, fileVars, logVars, playerVars, NoPlayback, Off
<1>a. /\ PlayerTypeOK /\ LogTypeOK /\ FileTypeOK /\ ListTypeOK /\ TimerTypeOK
      /\ pending \in Steps /\ stopped \in BOOLEAN /\ budget \in Budgets
    BY DEF TypeOK, Budgets
<1>z. IdleTypeOK'
    BY IdleType DEF TypeOK, Next, Handler, User
<1>b. m_NextFileInfoToPlay \in NextFiles
    BY <1>a DEF FileTypeOK, NextFiles
<1>1. CASE EndOfStream
    <2>1. player \in 1 .. MaxPlays /\ signals \in Seq(1 .. MaxPlays)
        BY <1>1, <1>a DEF EndOfStream, PlayerTypeOK
    <2>2. /\ Append(signals, player) \in Seq(1 .. MaxPlays)
          /\ signals \o <<player, player>> \in Seq(1 .. MaxPlays)
        BY <2>1
    <2>3. signals' \in Seq(1 .. MaxPlays)
        BY <1>1, <2>2 DEF EndOfStream
    <2>4. budget' \in Budgets
        BY <1>1, <1>a DEF EndOfStream, Budgets
    <2>5. PlayerTypeOK' /\ LogTypeOK'
        BY <1>1, <1>a, <2>3 DEF EndOfStream, PlayerTypeOK, LogTypeOK
    <2>6. FileTypeOK' /\ ListTypeOK' /\ TimerTypeOK'
        BY <1>1, <1>a DEF EndOfStream, FileTypeOK, ListTypeOK, TimerTypeOK
    <2>7. QED
        BY <1>z, <1>1, <1>a, <2>4, <2>5, <2>6 DEF EndOfStream, TypeOK, Budgets
<1>2. CASE On_MP_PlaybackEosOther
    <2>1. signals' \in Seq(1 .. MaxPlays) /\ LogTypeOK'
        BY <1>2, <1>a, SignalType DEF On_MP_PlaybackEosOther
    <2>2. PlayerTypeOK' /\ FileTypeOK' /\ ListTypeOK' /\ TimerTypeOK'
        BY <1>2, <1>a, <2>1
           DEF On_MP_PlaybackEosOther, PlayerTypeOK, FileTypeOK, ListTypeOK, TimerTypeOK
    <2>3. QED
        BY <1>z, <1>2, <1>a, <2>1, <2>2 DEF On_MP_PlaybackEosOther, TypeOK, Budgets
<1>3. CASE On_MP_PlaybackEosInList
    <2>1. signals' \in Seq(1 .. MaxPlays) /\ LogTypeOK'
        BY <1>3, <1>a, SignalType DEF On_MP_PlaybackEosInList
    <2>2. PlayerTypeOK' /\ FileTypeOK' /\ ListTypeOK' /\ TimerTypeOK'
        BY <1>3, <1>a, <2>1
           DEF On_MP_PlaybackEosInList, PlayerTypeOK, FileTypeOK, ListTypeOK, TimerTypeOK
    <2>3. pending' \in Steps
        BY <1>3 DEF On_MP_PlaybackEosInList, Steps, Causes
    <2>4. QED
        BY <1>z, <1>3, <1>a, <2>1, <2>2, <2>3 DEF On_MP_PlaybackEosInList, TypeOK, Budgets
<1>4. CASE On_MP_PlaybackEosOfFile
    <2> DEFINE next == m_NextFileInfoToPlay
    <2>1. signals' \in Seq(1 .. MaxPlays) /\ LogTypeOK'
        BY <1>4, <1>a, SignalType DEF On_MP_PlaybackEosOfFile
    <2>2. next.loops > 1 => [next EXCEPT !.loops = @ - 1] \in NextFiles
        BY <1>b DEF NextFiles
    <2>3. m_NextFileInfoToPlay' \in NextFiles
        BY <1>4, <1>b, <2>2 DEF On_MP_PlaybackEosOfFile
    <2>4. pending' \in Steps
        BY <1>4, <1>a, <1>b, <2>3, PlayAgainType DEF On_MP_PlaybackEosOfFile, Causes
    <2>5. PlayerTypeOK' /\ ListTypeOK' /\ TimerTypeOK'
        BY <1>4, <1>a, <2>1 DEF On_MP_PlaybackEosOfFile, PlayerTypeOK, ListTypeOK, TimerTypeOK
    <2>6. FileTypeOK'
        BY <1>4, <1>a, <2>3 DEF On_MP_PlaybackEosOfFile, FileTypeOK, NextFiles
    <2>7. QED
        BY <1>z, <1>4, <1>a, <2>1, <2>4, <2>5, <2>6 DEF On_MP_PlaybackEosOfFile, TypeOK, Budgets
<1>5. CASE OnTimer_checkPlayDurationTimeOut
    <2>1. player' \in 0 .. MaxPlays /\ LogTypeOK'
        BY <1>5, <1>a, StopType DEF OnTimer_checkPlayDurationTimeOut, StopPlayback
    <2>2. pending' \in Steps
        BY <1>5, <1>a, <1>b, PlayAgainType DEF OnTimer_checkPlayDurationTimeOut, Causes
    <2>3. PlayerTypeOK' /\ FileTypeOK' /\ ListTypeOK' /\ TimerTypeOK'
        BY <1>5, <1>a, <2>1
           DEF OnTimer_checkPlayDurationTimeOut, PlayerTypeOK, FileTypeOK, ListTypeOK, TimerTypeOK
    <2>4. QED
        BY <1>z, <1>5, <1>a, <2>1, <2>2, <2>3 DEF OnTimer_checkPlayDurationTimeOut, TypeOK, Budgets
<1>6. CASE OnTimer_checkPlaylistDurationTimeOut
    <2>1. player' \in 0 .. MaxPlays /\ LogTypeOK'
        BY <1>6, <1>a, StopType DEF OnTimer_checkPlaylistDurationTimeOut, StopPlayback
    <2>2. pending' \in Steps
        BY <1>6 DEF OnTimer_checkPlaylistDurationTimeOut, Steps, Causes
    <2>3. PlayerTypeOK' /\ FileTypeOK' /\ ListTypeOK' /\ TimerTypeOK'
        BY <1>6, <1>a, <2>1
           DEF OnTimer_checkPlaylistDurationTimeOut, PlayerTypeOK, FileTypeOK, ListTypeOK, TimerTypeOK
    <2>4. QED
        BY <1>z, <1>6, <1>a, <2>1, <2>2, <2>3 DEF OnTimer_checkPlaylistDurationTimeOut, TypeOK, Budgets
<1>7. CASE PlayFirstEntry
    <2>1. pending' \in Steps
        BY <1>7 DEF PlayFirstEntry, Steps, Causes
    <2>2. row' \in Rows
        <3>1. row' = [entry |-> -1, starts |-> 0]
            BY <1>7 DEF PlayFirstEntry, NoRow
        <3>2. QED
            BY <3>1 DEF Rows
    <2>3. PlayerTypeOK' /\ LogTypeOK' /\ FileTypeOK' /\ TimerTypeOK'
        BY <1>7, <1>a DEF PlayFirstEntry, PlayerTypeOK, LogTypeOK, FileTypeOK, TimerTypeOK
    <2>4. ListTypeOK'
        BY <1>7, <1>a, <2>2 DEF PlayFirstEntry, ListTypeOK, Rows
    <2>5. QED
        BY <1>z, <1>7, <1>a, <2>1, <2>3, <2>4 DEF PlayFirstEntry, TypeOK, Budgets
<1>8. CASE PlayIdlePlayListFile
    <2>1. pending' \in Steps /\ stopped' \in BOOLEAN
        <3>1. [op |-> "first", by |-> "idle"] \in Steps
            BY DEF Steps, Causes
        <3>2. /\ pending' = pending \/ pending' = [op |-> "first", by |-> "idle"]
              /\ stopped' = stopped \/ stopped' = FALSE
            BY <1>8 DEF PlayIdlePlayListFile
        <3>3. QED
            BY <1>a, <3>1, <3>2
    <2>2. row' \in Rows
        <3>1. row' = row \/ row' = [entry |-> -1, starts |-> 0]
            BY <1>8 DEF PlayIdlePlayListFile, NoRow
        <3>2. QED
            BY <1>a, <3>1 DEF ListTypeOK, Rows
    <2>3. [cursor EXCEPT !.m_CurEntryId = -1] \in Cursors
        BY <1>a, CursorType DEF ListTypeOK
    <2>4. cursor' \in Cursors /\ loaded' \in BOOLEAN /\ m_bIsNeedLoop' \in BOOLEAN
        BY <1>8, <1>a, <2>3 DEF PlayIdlePlayListFile, LoadFromIniFile, ListTypeOK
    <2>5. m_iHasLoopTimes' \in [0 .. N - 1 -> Nat]
        BY <1>8, <1>a DEF PlayIdlePlayListFile, LoadFromIniFile, ListTypeOK
    <2>6. ListTypeOK'
        BY <2>2, <2>4, <2>5 DEF ListTypeOK, Rows
    <2>7. FileTypeOK'
        BY <1>8, <1>a DEF PlayIdlePlayListFile, FileTypeOK
    <2>8. PlayerTypeOK' /\ LogTypeOK' /\ TimerTypeOK'
        BY <1>8, <1>a
           DEF PlayIdlePlayListFile, StopPlayDurationTimer, PlayerTypeOK, LogTypeOK, TimerTypeOK
    <2>9. QED
        BY <1>z, <1>8, <1>a, <2>1, <2>6, <2>7, <2>8 DEF PlayIdlePlayListFile, TypeOK, Budgets
<1>9. QED
    BY <1>1, <1>2, <1>3, <1>4, <1>5, <1>6, <1>7, <1>8 DEF Handler

\* What every order changes.
LEMMA OrdersType ==
    ASSUME budget \in Budgets, Orders
    PROVE  budget' \in Budgets /\ row' \in Rows /\ stopped' \in BOOLEAN
<1>1. budget' \in Budgets
    BY ConstantsAssumption DEF Orders, Budgets
<1>2. row' = [entry |-> -1, starts |-> 0] /\ stopped' = FALSE
    BY DEF Orders, NoRow
<1>3. row' \in Rows
    BY <1>2, ConstantsAssumption DEF Rows
<1>4. QED
    BY <1>1, <1>2, <1>3

\* What every stop changes.
LEMMA StopsType ==
    ASSUME TypeOK, Stops
    PROVE  /\ PlayerTypeOK' /\ LogTypeOK'
           /\ budget' \in Budgets /\ row' \in Rows /\ pending' \in Steps
           /\ file' \in FileStarts /\ cursor' \in Cursors /\ m_bIsNeedLoop' \in BOOLEAN
           /\ m_iHasLoopTimes' \in [0 .. N - 1 -> Nat]
           /\ m_eCurPlayMediaFileType' \in {"PLAYLIST", "VIDEO"} /\ firstPosted' \in BOOLEAN
<1>a. /\ PlayerTypeOK /\ LogTypeOK /\ FileTypeOK /\ ListTypeOK /\ TimerTypeOK
      /\ pending \in Steps /\ budget \in Budgets
    BY DEF TypeOK, Budgets
<1>1. player' \in 0 .. MaxPlays /\ LogTypeOK'
    BY <1>a, StopType DEF Stops
<1>2. PlayerTypeOK'
    BY <1>a, <1>1, ConstantsAssumption DEF Stops, PlayerTypeOK, NoPlayback
<1>3. budget' \in Budgets
    BY <1>a, ConstantsAssumption DEF Stops, Budgets
<1>4. row' = [entry |-> -1, starts |-> 0]
    BY DEF Stops, NoRow
<1>5. row' \in Rows
    BY <1>4, ConstantsAssumption DEF Rows
<1>6. file' \in FileStarts
    BY <1>a DEF Stops, FileTypeOK, FileStarts
<1>7. QED
    BY <1>a, <1>1, <1>2, <1>3, <1>5, <1>6 DEF Stops, FileTypeOK, ListTypeOK, TimerTypeOK

\* What a key or a button changes before anything else.
LEMMA SomeoneType ==
    ASSUME PlayerTypeOK, LogTypeOK, ListTypeOK, SomeoneIsThere
    PROVE  player' \in 0 .. MaxPlays /\ LogTypeOK' /\ loaded' \in BOOLEAN
<1>1. CASE m_bIsPlayingIdlePlayList
    BY <1>1, StopType DEF SomeoneIsThere, StopPlayback
<1>2. CASE ~m_bIsPlayingIdlePlayList
    BY <1>2 DEF SomeoneIsThere, PlayerTypeOK, LogTypeOK, ListTypeOK, logVars
<1>3. QED
    BY <1>1, <1>2

\* A key or a button stops what runs, or leaves it; it may end the wait for it.
LEMMA SomeoneStops ==
    ASSUME KeyUp \/ OtherKey \/ On_GpioBtnKey
    PROVE  /\ player' = NoPlayback \/ player' = player
           /\ m_PlaybackId' = NoPlayback \/ m_PlaybackId' = m_PlaybackId
           /\ UNCHANGED <<lastId, signals>>
<1>1. SomeoneIsThere /\ UNCHANGED <<lastId, signals>>
    BY DEF KeyUp, OtherKey, On_GpioBtnKey
<1>2. player' = NoPlayback \/ player' = player
    BY <1>1 DEF SomeoneIsThere, StopPlayback, stopMPlayerWithEventLog
<1>3. m_PlaybackId' = NoPlayback \/ m_PlaybackId' = m_PlaybackId
    BY DEF KeyUp, OtherKey, On_GpioBtnKey, KeyWaits
<1>4. QED
    BY <1>1, <1>2, <1>3

\* What the user does keeps the types.
LEMMA UserType ==
    ASSUME TypeOK, User
    PROVE  TypeOK'
<1> USE ConstantsAssumption DEF listVars, timerVars, fileVars, logVars, playerVars, NoPlayback, Off
<1>a. /\ PlayerTypeOK /\ LogTypeOK /\ FileTypeOK /\ ListTypeOK /\ TimerTypeOK
      /\ pending \in Steps /\ stopped \in BOOLEAN /\ budget \in Budgets
    BY DEF TypeOK, Budgets
<1>z. IdleTypeOK'
    BY IdleType DEF TypeOK, Next, Handler, User
<1>b. [file EXCEPT !.calm = FALSE] \in FileStarts
    BY <1>a DEF FileTypeOK, FileStarts
<1>c. [cursor EXCEPT !.m_CurEntryId = -1] \in Cursors
    BY <1>a, CursorType DEF ListTypeOK
<1>e. [cursor EXCEPT !.m_keydownflag = 1] \in Cursors
    BY <1>a, CursorType DEF ListTypeOK
<1>d. StopPlayDurationTimer /\ firstPosted' = firstPosted => TimerTypeOK'
    BY <1>a DEF StopPlayDurationTimer, TimerTypeOK
<1>1. CASE PlayList
    <2>1. budget' \in Budgets /\ row' \in Rows /\ stopped' \in BOOLEAN
        BY <1>1, <1>a, OrdersType DEF PlayList
    <2>2. pending' \in Steps
        BY <1>1 DEF PlayList, Steps, Causes
    <2>3. m_iHasLoopTimes' \in [0 .. N - 1 -> Nat] /\ cursor' \in Cursors
        BY <1>1, <1>c DEF PlayList, LoadFromIniFile
    <2>4. ListTypeOK' /\ TimerTypeOK'
        BY <1>1, <1>d, <2>1, <2>3 DEF PlayList, LoadFromIniFile, ListTypeOK, Rows
    <2>5. FileTypeOK'
        BY <1>1, <1>a, <1>b DEF PlayList, FileTypeOK, FileStarts
    <2>6. PlayerTypeOK' /\ LogTypeOK'
        BY <1>1, <1>a DEF PlayList, PlayerTypeOK, LogTypeOK
    <2>7. QED
        BY <1>z, <2>1, <2>2, <2>4, <2>5, <2>6 DEF TypeOK, Budgets
<1>2. CASE PlayFile
    <2>1. PICK f \in Files :
              /\ Orders /\ StopPlayDurationTimer /\ stopMPlayerWithEventLog
              /\ loaded' = FALSE
              /\ pending' = FileStep(f, "order")
              /\ file' = [loops |-> f.loops, starts |-> 0, calm |-> ~f.timed /\ ~firstPosted]
              /\ UNCHANGED <<lastId, signals, m_PlaybackId, fileVars, cursor, m_iHasLoopTimes,
                             m_bIsNeedLoop, firstPosted>>
        BY <1>2 DEF PlayFile
    <2>2. f.loops \in Int /\ f.timed \in BOOLEAN
        OBVIOUS
    <2>3. budget' \in Budgets /\ row' \in Rows /\ stopped' \in BOOLEAN
        BY <2>1, <1>a, OrdersType
    <2>4. pending' \in Steps
        BY <2>1, <2>2 DEF FileStep, Steps, Causes
    <2>5. file' \in FileStarts
        BY <2>1, <2>2, <1>a DEF FileStarts, TimerTypeOK
    <2>6. player' \in 0 .. MaxPlays /\ LogTypeOK'
        BY <2>1, <1>a, StopType
    <2>7. PlayerTypeOK' /\ FileTypeOK'
        BY <2>1, <1>a, <2>5, <2>6 DEF PlayerTypeOK, FileTypeOK, FileStarts
    <2>8. ListTypeOK' /\ TimerTypeOK'
        BY <2>1, <1>a, <1>d, <2>3 DEF ListTypeOK, Rows
    <2>9. QED
        BY <1>z, <2>3, <2>4, <2>6, <2>7, <2>8 DEF TypeOK, Budgets
<1>3. CASE setPlayNext
    <2>1. budget' \in Budgets /\ row' \in Rows /\ stopped' \in BOOLEAN
        BY <1>3, <1>a, OrdersType DEF setPlayNext
    <2>2. pending' \in Steps
        BY <1>3 DEF setPlayNext, Steps, Causes
    <2>3. player' \in 0 .. MaxPlays /\ LogTypeOK'
        BY <1>3, <1>a, StopType DEF setPlayNext, StopPlayback
    <2>4. ListTypeOK' /\ TimerTypeOK'
        BY <1>3, <1>a, <1>d, <2>1 DEF setPlayNext, ListTypeOK, Rows
    <2>5. PlayerTypeOK' /\ FileTypeOK'
        BY <1>3, <1>a, <1>b, <2>3 DEF setPlayNext, PlayerTypeOK, FileTypeOK, FileStarts
    <2>6. QED
        BY <1>z, <2>1, <2>2, <2>3, <2>4, <2>5 DEF TypeOK, Budgets
<1>4. CASE KeyDown
    <2>1. budget' \in Budgets /\ row' \in Rows /\ stopped' \in BOOLEAN
        BY <1>4, <1>a, OrdersType DEF KeyDown
    <2>2. pending' \in Steps
        BY <1>4 DEF KeyDown, Steps, Causes
    <2>3. player' \in 0 .. MaxPlays /\ LogTypeOK'
        BY <1>4, <1>a, StopType DEF KeyDown, StopPlayback
    <2>4. ListTypeOK' /\ TimerTypeOK'
        BY <1>4, <1>a, <1>d, <1>e, <2>1 DEF KeyDown, ListTypeOK, Rows
    <2>5. PlayerTypeOK' /\ FileTypeOK'
        BY <1>4, <1>a, <1>b, <2>3 DEF KeyDown, KeyWaits, PlayerTypeOK, FileTypeOK, FileStarts
    <2>6. QED
        BY <1>z, <2>1, <2>2, <2>3, <2>4, <2>5 DEF TypeOK, Budgets
<1>5. CASE KeyUp
    <2>1. budget' \in Budgets /\ row' \in Rows /\ stopped' \in BOOLEAN
        BY <1>5, <1>a, OrdersType DEF KeyUp
    <2>2. pending' \in Steps
        BY <1>5 DEF KeyUp, Steps, Causes
    <2>3. player' \in 0 .. MaxPlays /\ LogTypeOK' /\ loaded' \in BOOLEAN
        BY <1>5, <1>a, SomeoneType DEF KeyUp
    <2>4. ListTypeOK' /\ TimerTypeOK'
        BY <1>5, <1>a, <1>d, <2>1, <2>3 DEF KeyUp, ListTypeOK, Rows
    <2>5. PlayerTypeOK' /\ FileTypeOK'
        BY <1>5, <1>a, <1>b, <2>3 DEF KeyUp, KeyWaits, PlayerTypeOK, FileTypeOK, FileStarts
    <2>6. QED
        BY <1>z, <2>1, <2>2, <2>3, <2>4, <2>5 DEF TypeOK, Budgets
<1>6. CASE StopAll
    <2>1. Stops /\ StopPlayDurationTimer /\ loaded' = FALSE
        BY <1>6 DEF StopAll
    <2>2. m_NextFileInfoToPlay' \in NextFiles
        BY <1>6, <1>a DEF StopAll, FileTypeOK, NextFiles
    <2>3. stopped' \in BOOLEAN
        BY <1>6 DEF StopAll, NothingLeftToPlay
    <2>4. firstPosted' = firstPosted
        BY <2>1 DEF Stops
    <2>5. QED
        BY <1>z, <1>d, <2>1, <2>2, <2>3, <2>4, StopsType
           DEF TypeOK, Budgets, ListTypeOK, FileTypeOK, Rows, NextFiles, FileStarts
<1>7. CASE StopContent
    <2>1. Stops /\ StopPlayDurationTimer /\ loaded' \in BOOLEAN
        BY <1>7, <1>a DEF StopContent, ListTypeOK
    <2>2. m_NextFileInfoToPlay' \in NextFiles
        BY <1>7, <1>a DEF StopContent, FileTypeOK, NextFiles
    <2>3. stopped' \in BOOLEAN
        BY <1>7 DEF StopContent, NothingLeftToPlay
    <2>4. firstPosted' = firstPosted
        BY <2>1 DEF Stops
    <2>5. QED
        BY <1>z, <1>d, <2>1, <2>2, <2>3, <2>4, StopsType
           DEF TypeOK, Budgets, ListTypeOK, FileTypeOK, Rows, NextFiles, FileStarts
<1>8. CASE RemoteStop
    <2>1. Stops /\ UNCHANGED timerVars /\ loaded' = FALSE
        BY <1>8 DEF RemoteStop
    <2>2. m_NextFileInfoToPlay' \in NextFiles
        BY <1>8, <1>a DEF RemoteStop, FileTypeOK, NextFiles
    <2>3. stopped' \in BOOLEAN
        BY <1>8 DEF RemoteStop, NothingLeftToPlay
    <2>4. TimerTypeOK'
        BY <1>a, <2>1 DEF Stops, TimerTypeOK
    <2>5. QED
        BY <1>z, <2>1, <2>2, <2>3, <2>4, StopsType
           DEF TypeOK, Budgets, ListTypeOK, FileTypeOK, Rows, NextFiles, FileStarts
<1>9. CASE StopMedia
    <2>1. Stops /\ UNCHANGED timerVars /\ loaded' \in BOOLEAN
        BY <1>9, <1>a DEF StopMedia, ListTypeOK
    <2>2. m_NextFileInfoToPlay' \in NextFiles
        BY <1>9, <1>a DEF StopMedia, FileTypeOK, NextFiles
    <2>3. stopped' \in BOOLEAN
        BY <1>9 DEF StopMedia, NothingLeftToPlay
    <2>4. TimerTypeOK'
        BY <1>a, <2>1 DEF Stops, TimerTypeOK
    <2>5. QED
        BY <1>z, <2>1, <2>2, <2>3, <2>4, StopsType
           DEF TypeOK, Budgets, ListTypeOK, FileTypeOK, Rows, NextFiles, FileStarts
<1>10. CASE OtherKey \/ On_GpioBtnKey
    <2>1. /\ SomeoneIsThere /\ budget' = [budget EXCEPT !.orders = @ - 1] /\ budget.orders > 0
          /\ UNCHANGED <<lastId, signals, fileVars, cursor, m_iHasLoopTimes, m_bIsNeedLoop, timerVars,
                         firstPosted, pending, file, row>>
        BY <1>10 DEF OtherKey, On_GpioBtnKey
    <2>2. player' \in 0 .. MaxPlays /\ LogTypeOK' /\ loaded' \in BOOLEAN
        BY <1>a, <2>1, SomeoneType
    <2>3. m_PlaybackId' \in 0 .. MaxPlays /\ stopped' \in BOOLEAN
        <3>1. /\ m_PlaybackId' = m_PlaybackId \/ m_PlaybackId' = NoPlayback
              /\ stopped' = stopped \/ stopped' = NothingLeftToPlay
            BY <1>10 DEF OtherKey, On_GpioBtnKey, KeyWaits
        <3>2. m_PlaybackId \in 0 .. MaxPlays /\ 0 \in 0 .. MaxPlays
            BY <1>a DEF PlayerTypeOK
        <3>3. NothingLeftToPlay \in BOOLEAN
            BY DEF NothingLeftToPlay
        <3>4. QED
            BY <1>a, <3>1, <3>2, <3>3
    <2>4. budget' \in Budgets
        BY <1>a, <2>1 DEF Budgets
    <2>5. PlayerTypeOK' /\ FileTypeOK' /\ ListTypeOK' /\ TimerTypeOK'
        BY <1>a, <2>1, <2>2, <2>3 DEF PlayerTypeOK, FileTypeOK, ListTypeOK, TimerTypeOK
    <2>6. QED
        BY <1>z, <1>a, <2>1, <2>2, <2>3, <2>4, <2>5 DEF TypeOK, Budgets
<1>11. QED
    BY <1>1, <1>2, <1>3, <1>4, <1>5, <1>6, <1>7, <1>8, <1>9, <1>10 DEF User

\* Every step keeps the types.
LEMMA NextType == TypeOK /\ [Next]_vars => TypeOK'
<1> SUFFICES ASSUME TypeOK, [Next]_vars PROVE TypeOK'
    OBVIOUS
<1>1. CASE Next
    BY <1>1, PendingType, HandlerType, UserType DEF Next
<1>2. CASE UNCHANGED vars
    <2>1. IdleTypeOK'
        BY IdleType DEF TypeOK
    <2>2. QED
        BY <1>2, <2>1 DEF TypeOK, PlayerTypeOK, LogTypeOK, FileTypeOK, ListTypeOK, TimerTypeOK,
                          vars, playerVars, logVars, fileVars, listVars, timerVars
<1>3. QED
    BY <1>1, <1>2

\* The state of the interface keeps its types, whatever the user, the player and the timers do.
THEOREM TypeCorrect == Spec => []TypeOK
BY InitType, NextType, PTL DEF Spec

-----------------------------------------------------------------------------
(* A stop is final.                                                        *)

\* What holds while the interface is stopped, which StopIsFinal alone does not say: it waits
\* for no playback, and a timer or an event that is left finds the list cleared.
NothingPlays ==
    stopped =>
        /\ m_PlaybackId = NoPlayback
        /\ m_PlayDurationTimer = Off
        /\ \/ ~loaded /\ pending.op # "file"
           \/ m_PlaylistDurationTimer = Off /\ ~firstPosted /\ pending = Done

\* No signal names NoPlayback.
LEMMA SignalsName ==
    ASSUME PlayerTypeOK, signals # <<>>
    PROVE  Head(signals) # NoPlayback
<1>1. signals \in Seq(1 .. MaxPlays)
    BY DEF PlayerTypeOK
<1>2. Head(signals) \in 1 .. MaxPlays
    BY <1>1, HeadTailProperties
<1>3. QED
    BY <1>2, ConstantsAssumption DEF NoPlayback

\* A stopped interface stays stopped, and plays nothing.
LEMMA NothingPlaysStep ==
    ASSUME TypeOK, NothingPlays, [Next]_vars
    PROVE  /\ NothingPlays'
           /\ stopped => /\ lastId' = lastId
                         /\ stopped' \/ User \/ (IdleDetect /\ PlayIdlePlayListFile)
<1> USE DEF NothingPlays, playerVars, logVars, fileVars, listVars, timerVars
<1>a. PlayerTypeOK /\ pending.op \in {"none", "next", "first", "pre", "file"}
    BY DEF TypeOK, Steps, Done
<1>b. stopped \in BOOLEAN
    BY DEF TypeOK
<1>1. CASE EndOfStream
    BY <1>1 DEF EndOfStream
<1>2. CASE NoEntry
    BY <1>2 DEF NoEntry, StopPlayDurationTimer, Done
<1>3. CASE EntryPlays \/ EntryFails
    BY <1>3 DEF EntryPlays, EntryFails, Done
<1>4. CASE EntryLoops
    BY <1>4 DEF EntryLoops, Done
<1>5. CASE FilePlays \/ FileFails
    BY <1>5 DEF FilePlays, FileFails, Done
<1>6. CASE On_MP_PlaybackEosOther
    BY <1>6 DEF On_MP_PlaybackEosOther
<1>7. CASE On_MP_PlaybackEosInList \/ On_MP_PlaybackEosOfFile
    <2>1. ~stopped
        BY <1>7, <1>a, SignalsName DEF On_MP_PlaybackEosInList, On_MP_PlaybackEosOfFile, Awaited
    <2>2. stopped' = stopped
        BY <1>7 DEF On_MP_PlaybackEosInList, On_MP_PlaybackEosOfFile
    <2>3. QED
        BY <2>1, <2>2
<1>8. CASE OnTimer_checkPlayDurationTimeOut
    BY <1>8 DEF OnTimer_checkPlayDurationTimeOut
<1>9. CASE OnTimer_checkPlaylistDurationTimeOut
    BY <1>9 DEF OnTimer_checkPlaylistDurationTimeOut
<1>10. CASE PlayFirstEntry
    BY <1>10 DEF PlayFirstEntry
<1>11. CASE PlayIdlePlayListFile
    <2>1. lastId' = lastId /\ m_PlayIdlePlayList_Timer
        BY <1>11 DEF PlayIdlePlayListFile
    <2>2. IdleDetect
        BY <2>1, ConstantsAssumption DEF TypeOK, IdleTypeOK
    <2>3. CASE m_iStateType = "State_Idle"
        BY <1>11, <2>1, <2>2, <2>3 DEF PlayIdlePlayListFile
    <2>4. CASE m_iStateType # "State_Idle"
        BY <1>11, <2>1, <2>2, <2>4 DEF PlayIdlePlayListFile
    <2>5. QED
        BY <2>3, <2>4
<1>12. CASE PlayList \/ PlayFile \/ setPlayNext \/ KeyDown \/ KeyUp
    <2>1. ~stopped' /\ lastId' = lastId
        BY <1>12 DEF PlayList, PlayFile, setPlayNext, KeyDown, KeyUp, Orders
    <2>2. User
        BY <1>12 DEF User
    <2>3. QED
        BY <2>1, <2>2
<1>13. CASE StopAll \/ StopContent \/ RemoteStop \/ StopMedia
    <2>1. Stops /\ stopped' = NothingLeftToPlay
        BY <1>13 DEF StopAll, StopContent, RemoteStop, StopMedia
    <2>2. /\ m_PlaybackId' = NoPlayback /\ lastId' = lastId
          /\ pending' = Done /\ firstPosted' = firstPosted
        BY <2>1 DEF Stops, Busy
    <2>3. User
        BY <1>13 DEF User
    <2>4. QED
        BY <2>1, <2>2, <2>3 DEF NothingLeftToPlay, Done
<1>14. CASE OtherKey \/ On_GpioBtnKey
    <2>1. /\ SomeoneIsThere /\ pending = Done
          /\ UNCHANGED <<lastId, timerVars, firstPosted, pending>>
        BY <1>14 DEF OtherKey, On_GpioBtnKey, Busy
    <2>2. /\ m_PlaybackId' = m_PlaybackId \/ m_PlaybackId' = NoPlayback
          /\ stopped' = stopped \/ (stopped' = NothingLeftToPlay /\ m_PlaybackId' = NoPlayback)
        BY <1>14 DEF OtherKey, On_GpioBtnKey, KeyWaits
    <2>3. loaded' = loaded \/ loaded' = FALSE
        BY <2>1 DEF SomeoneIsThere
    <2>4. User
        BY <1>14 DEF User
    <2>5. NothingPlays'
        BY <2>1, <2>2, <2>3 DEF NothingLeftToPlay, Done
    <2>6. QED
        BY <2>1, <2>4, <2>5
<1>15. CASE UNCHANGED vars
    BY <1>15 DEF vars
<1>16. QED
    BY <1>1, <1>2, <1>3, <1>4, <1>5, <1>6, <1>7, <1>8, <1>9, <1>10, <1>11, <1>12, <1>13, <1>14,
       <1>15
       DEF Next, Handler, User

\* After a stop that leaves nothing to play nothing plays until the user orders it or the idle
\* timer, where it is configured, starts the idle playlist: for any playlist and whatever ends,
\* duration timers, events and faults were on their way.
THEOREM StopsAreFinal == Spec => StopIsFinal
<1>1. Init => NothingPlays
    BY DEF Init, NothingPlays
<1>2. TypeOK /\ NothingPlays /\ [Next]_vars => NothingPlays'
    BY NothingPlaysStep
<1>3. TypeOK /\ NothingPlays /\ [Next]_vars => 
      [stopped => /\ lastId' = lastId
                  /\ stopped' \/ User \/ (IdleDetect /\ PlayIdlePlayListFile)]_vars
    BY NothingPlaysStep
<1>4. QED
    BY <1>1, <1>2, <1>3, TypeCorrect, PTL DEF Spec, StopIsFinal

-----------------------------------------------------------------------------
(* What plays is not cut by what belongs to an earlier playback.           *)

\* Only the last playback runs: the interface waits for it, if for any, and no signal names it.
OnlyTheLastPlays ==
    /\ m_PlaybackId <= lastId
    /\ \A i \in DOMAIN signals : signals[i] <= lastId /\ signals[i] # player
    /\ player # NoPlayback => player = lastId /\ m_PlaybackId \in {NoPlayback, player}

\* While a playback runs, the timers are its own, and the ends and timers of earlier ones have
\* nothing left to do.
TimersOfThePlayer ==
    player # NoPlayback =>
        /\ m_PlayDurationTimer \in {Off, player}
        /\ m_PlaylistDurationTimer \in {Off, player}
        /\ Busy => pending.by \in {"order", "event"}

\* A signal names a playback.
LEMMA SignalElements ==
    ASSUME signals \in Seq(1 .. MaxPlays)
    PROVE  \A i \in DOMAIN signals : signals[i] \in 1 .. MaxPlays
BY ElementOfSeq, LenProperties

\* Taking a signal leaves signals that were there.
LEMMA FewerSignals ==
    ASSUME PlayerTypeOK, signals # <<>>, signals' = Tail(signals)
    PROVE  \A i \in DOMAIN signals' : \E j \in DOMAIN signals : signals'[i] = signals[j]
<1>1. signals \in Seq(1 .. MaxPlays)
    BY DEF PlayerTypeOK
<1>2. /\ Len(Tail(signals)) = Len(signals) - 1
      /\ \A i \in 1 .. Len(Tail(signals)) : Tail(signals)[i] = signals[i + 1]
      /\ Tail(signals) \in Seq(1 .. MaxPlays)
    BY <1>1, HeadTailProperties
<1>3. DOMAIN signals' = 1 .. Len(Tail(signals)) /\ DOMAIN signals = 1 .. Len(signals)
    BY <1>1, <1>2
<1>4. QED
    BY <1>2, <1>3

\* An end that is announced, once or twice, adds signals of that playback and no other.
LEMMA MoreSignals ==
    ASSUME signals \in Seq(1 .. MaxPlays), NEW p \in 1 .. MaxPlays,
           signals' = Append(signals, p) \/ signals' = signals \o <<p, p>>
    PROVE  \A i \in DOMAIN signals' :
               signals'[i] = p \/ (\E j \in DOMAIN signals : signals'[i] = signals[j])
<1>1. CASE signals' = Append(signals, p)
    <2>1. /\ DOMAIN signals' = 1 .. Len(signals) + 1 /\ DOMAIN signals = 1 .. Len(signals)
          /\ \A i \in 1 .. Len(signals) : signals'[i] = signals[i]
          /\ signals'[Len(signals) + 1] = p
          /\ Len(signals) \in Nat
        BY <1>1, AppendProperties, LenProperties
    <2>2. QED
        BY <2>1
<1>2. CASE signals' = signals \o <<p, p>>
    <2>1. /\ DOMAIN signals' = 1 .. Len(signals) + 2 /\ DOMAIN signals = 1 .. Len(signals)
          /\ \A i \in 1 .. Len(signals) : signals'[i] = signals[i]
          /\ signals'[Len(signals) + 1] = p /\ signals'[Len(signals) + 2] = p
          /\ Len(signals) \in Nat
        BY <1>2, ConcatProperties, LenProperties
    <2>2. QED
        BY <2>1
<1>3. QED
    BY <1>1, <1>2

\* They are added behind those that were there.
LEMMA SignalsKept ==
    ASSUME signals \in Seq(1 .. MaxPlays), NEW p \in 1 .. MaxPlays,
           signals' = Append(signals, p) \/ signals' = signals \o <<p, p>>
    PROVE  /\ \A i \in DOMAIN signals : i \in DOMAIN signals' /\ signals'[i] = signals[i]
           /\ \E i \in DOMAIN signals' : signals'[i] = p
<1>1. /\ DOMAIN signals = 1 .. Len(signals) /\ Len(signals) \in Nat
      /\ DOMAIN signals' = 1 .. Len(signals) + 1 \/ DOMAIN signals' = 1 .. Len(signals) + 2
      /\ \A i \in 1 .. Len(signals) : signals'[i] = signals[i]
      /\ signals'[Len(signals) + 1] = p
    <2>1. CASE signals' = Append(signals, p)
        BY <2>1, AppendProperties, LenProperties
    <2>2. CASE signals' = signals \o <<p, p>>
        BY <2>2, ConcatProperties, LenProperties
    <2>3. QED
        BY <2>1, <2>2
<1>2. QED
    BY <1>1

\* A step of the player, of a handler or of the user keeps the last playback the only one.
LEMMA OnlyTheLastPlaysStep ==
    ASSUME TypeOK, OnlyTheLastPlays, [Next]_vars
    PROVE  OnlyTheLastPlays'
<1> USE DEF OnlyTheLastPlays, playerVars, logVars, fileVars, listVars, timerVars
<1>a. /\ PlayerTypeOK
      /\ player \in 0 .. MaxPlays /\ lastId \in 0 .. MaxPlays /\ m_PlaybackId \in 0 .. MaxPlays
      /\ signals \in Seq(1 .. MaxPlays)
    BY DEF TypeOK, PlayerTypeOK
<1>b. \A i \in DOMAIN signals : signals[i] \in 1 .. MaxPlays
    BY <1>a, SignalElements
<1>c. ASSUME player' = NoPlayback, UNCHANGED <<lastId, signals, m_PlaybackId>>
      PROVE  OnlyTheLastPlays'
    BY <1>b, <1>c DEF NoPlayback
<1>d. ASSUME PlayUrl
      PROVE  OnlyTheLastPlays'
    BY <1>a, <1>b, <1>d, ConstantsAssumption DEF PlayUrl, NoPlayback
<1>e. ASSUME PlayUrlFails
      PROVE  OnlyTheLastPlays'
    BY <1>c, <1>e DEF PlayUrlFails, stopMPlayerWithEventLog
<1>1. CASE EndOfStream
    <2>1. player \in 1 .. MaxPlays /\ player' = 0 /\ player = lastId
        BY <1>1, <1>a DEF EndOfStream, NoPlayback
    <2>2. signals' = Append(signals, player) \/ signals' = signals \o <<player, player>>
        BY <1>1 DEF EndOfStream
    <2>3. \A i \in DOMAIN signals' :
              signals'[i] = player \/ (\E j \in DOMAIN signals : signals'[i] = signals[j])
        BY <1>a, <2>1, <2>2, MoreSignals
    <2>4. lastId' = lastId /\ m_PlaybackId' = m_PlaybackId
        BY <1>1 DEF EndOfStream
    <2>5. QED
        BY <1>a, <1>b, <2>1, <2>3, <2>4 DEF NoPlayback
<1>2. CASE NoEntry
    BY <1>2, <1>c DEF NoEntry, stopMPlayerWithEventLog
<1>3. CASE EntryPlays \/ FilePlays
    BY <1>3, <1>d DEF EntryPlays, FilePlays
<1>4. CASE EntryFails \/ FileFails
    BY <1>4, <1>e DEF EntryFails, FileFails
<1>5. CASE EntryLoops \/ PlayFirstEntry
    BY <1>5 DEF EntryLoops, PlayFirstEntry
<1>6. CASE On_MP_PlaybackEosOther \/ On_MP_PlaybackEosInList \/ On_MP_PlaybackEosOfFile
    <2>1. /\ signals # <<>> /\ signals' = Tail(signals)
          /\ UNCHANGED <<player, lastId, m_PlaybackId>>
        BY <1>6 DEF On_MP_PlaybackEosOther, On_MP_PlaybackEosInList, On_MP_PlaybackEosOfFile
    <2>2. \A i \in DOMAIN signals' : \E j \in DOMAIN signals : signals'[i] = signals[j]
        BY <1>a, <2>1, FewerSignals
    <2>3. QED
        BY <2>1, <2>2
<1>7. CASE OnTimer_checkPlayDurationTimeOut \/ OnTimer_checkPlaylistDurationTimeOut
    BY <1>7, <1>c DEF OnTimer_checkPlayDurationTimeOut, OnTimer_checkPlaylistDurationTimeOut,
                      StopPlayback, stopMPlayerWithEventLog
<1>8. CASE PlayList \/ PlayIdlePlayListFile
    BY <1>8 DEF PlayList, PlayIdlePlayListFile
<1>9. CASE PlayFile \/ setPlayNext
    BY <1>9, <1>c DEF PlayFile, setPlayNext, StopPlayback, stopMPlayerWithEventLog
<1>10. CASE KeyDown
    <2>1. /\ player' = NoPlayback /\ UNCHANGED <<lastId, signals>>
          /\ m_PlaybackId' = NoPlayback \/ m_PlaybackId' = m_PlaybackId
        BY <1>10 DEF KeyDown, KeyWaits, StopPlayback, stopMPlayerWithEventLog
    <2>2. QED
        BY <1>a, <1>b, <2>1 DEF NoPlayback
<1>11. CASE KeyUp \/ OtherKey \/ On_GpioBtnKey
    <2>1. /\ player' = NoPlayback \/ player' = player
          /\ m_PlaybackId' = NoPlayback \/ m_PlaybackId' = m_PlaybackId
          /\ UNCHANGED <<lastId, signals>>
        BY <1>11, SomeoneStops
    <2>2. QED
        BY <1>a, <1>b, <2>1 DEF NoPlayback
<1>12. CASE StopAll \/ StopContent \/ RemoteStop \/ StopMedia
    <2>1. Stops
        BY <1>12 DEF StopAll, StopContent, RemoteStop, StopMedia
    <2>2. player' = NoPlayback /\ m_PlaybackId' = NoPlayback /\ UNCHANGED <<lastId, signals>>
        BY <2>1 DEF Stops, stopMPlayerWithEventLog
    <2>3. QED
        BY <1>a, <1>b, <2>2 DEF NoPlayback
<1>13. CASE UNCHANGED vars
    BY <1>13 DEF vars
<1>14. QED
    BY <1>1, <1>2, <1>3, <1>4, <1>5, <1>6, <1>7, <1>8, <1>9, <1>10, <1>11, <1>12, <1>13
       DEF Next, Handler, User

\* An end that moves the interface on comes when nothing plays: what plays is waited for and
\* no signal names it.
LEMMA EndsComeAfterThePlayer ==
    ASSUME PlayerTypeOK, OnlyTheLastPlays, signals # <<>>, Awaited(Head(signals))
    PROVE  player = NoPlayback
<1>1. signals \in Seq(1 .. MaxPlays)
    BY DEF PlayerTypeOK
<1>2. 1 \in DOMAIN signals /\ Head(signals) = signals[1]
    BY <1>1
<1>3. Head(signals) # player /\ m_PlaybackId = Head(signals)
    BY <1>2 DEF OnlyTheLastPlays, Awaited
<1>4. QED
    BY <1>3, SignalsName DEF OnlyTheLastPlays

\* While the interface is idle nothing plays: the idle timer starts its list only then.
IdlePlaysNothing == m_iStateType = "State_Idle" => player = NoPlayback

LEMMA IdlePlaysNothingStep ==
    ASSUME TypeOK, OnlyTheLastPlays, IdlePlaysNothing, [Next]_vars
    PROVE  IdlePlaysNothing'
<1> USE DEF IdlePlaysNothing, playerVars, idleVars
<1>1. CASE EndOfStream \/ NoEntry \/ FilePlays \/ FileFails
    BY <1>1 DEF EndOfStream, NoEntry, FilePlays, FileFails, PlayUrlFails, FileIsTaken,
                stopMPlayerWithEventLog
<1>2. CASE EntryPlays \/ EntryFails \/ EntryLoops
    BY <1>2 DEF EntryPlays, EntryFails, EntryLoops
<1>3. CASE \/ On_MP_PlaybackEosOther \/ On_MP_PlaybackEosOfFile \/ PlayFirstEntry
           \/ OnTimer_checkPlayDurationTimeOut \/ OnTimer_checkPlaylistDurationTimeOut
           \/ PlayIdlePlayListFile
    BY <1>3 DEF On_MP_PlaybackEosOther, On_MP_PlaybackEosOfFile, PlayFirstEntry,
                OnTimer_checkPlayDurationTimeOut, OnTimer_checkPlaylistDurationTimeOut,
                PlayIdlePlayListFile, StopPlayback, stopMPlayerWithEventLog
<1>4. CASE On_MP_PlaybackEosInList
    <2>1. PlayerTypeOK /\ signals # <<>> /\ Awaited(Head(signals)) /\ player' = player
        BY <1>4 DEF On_MP_PlaybackEosInList, TypeOK
    <2>2. QED
        BY <2>1, EndsComeAfterThePlayer
<1>5. CASE PlayList \/ PlayFile \/ setPlayNext \/ KeyDown
    BY <1>5 DEF PlayList, PlayFile, setPlayNext, KeyDown, StopPlayback, stopMPlayerWithEventLog
<1>6. CASE StopAll \/ StopContent \/ RemoteStop \/ StopMedia
    BY <1>6 DEF StopAll, StopContent, RemoteStop, StopMedia, Stops, stopMPlayerWithEventLog
<1>7. CASE KeyUp \/ OtherKey \/ On_GpioBtnKey
    <2>1. SomeoneIsThere
        BY <1>7 DEF KeyUp, OtherKey, On_GpioBtnKey
    <2>2. QED
        BY <2>1 DEF SomeoneIsThere, StopPlayback, stopMPlayerWithEventLog
<1>8. CASE UNCHANGED vars
    BY <1>8 DEF vars
<1>9. QED
    BY <1>1, <1>2, <1>3, <1>4, <1>5, <1>6, <1>7, <1>8 DEF Next, Handler, User

\* What cuts the player's playback.
MayCut ==
    player # NoPlayback /\ player' # player =>
        \/ EndOfStream \/ User
        \/ pending.by \in {"order", "event"}
        \/ m_PlayDurationTimer = player /\ m_PlayDurationTimer' = Off
        \/ m_PlaylistDurationTimer = player /\ m_PlaylistDurationTimer' = Off

\* The timers stay those of the playback that runs, and what cuts it may.
LEMMA TimersOfThePlayerStep ==
    ASSUME TypeOK, OnlyTheLastPlays, IdlePlaysNothing, TimersOfThePlayer, [Next]_vars
    PROVE  TimersOfThePlayer' /\ MayCut
<1> USE DEF TimersOfThePlayer, playerVars, logVars, fileVars, listVars, timerVars
<1>a. /\ PlayerTypeOK
      /\ player \in 0 .. MaxPlays /\ lastId \in 0 .. MaxPlays
      /\ pending # Done => pending.by \in Causes
    BY DEF TypeOK, PlayerTypeOK, Steps
<1>1. CASE EndOfStream
    BY <1>1 DEF EndOfStream, MayCut
<1>2. CASE NoEntry
    BY <1>2, <1>a DEF NoEntry, stopMPlayerWithEventLog, MayCut, Busy, Done, Causes
<1>3. CASE EntryPlays
    <2>1. /\ Busy /\ pending' = Done /\ player' = lastId + 1
          /\ m_PlayDurationTimer' = Off /\ m_PlaylistDurationTimer' \in {Off, lastId + 1}
        BY <1>3 DEF EntryPlays, PlayUrl, Busy, Done
    <2>2. QED
        BY <2>1, <1>a DEF MayCut, Busy
<1>4. CASE FilePlays
    <2>1. /\ Busy /\ pending' = Done /\ player' = lastId + 1
          /\ m_PlaylistDurationTimer' = Off /\ m_PlayDurationTimer' \in {Off, lastId + 1}
        BY <1>4 DEF FilePlays, PlayUrl, Busy, Done
    <2>2. QED
        BY <2>1, <1>a DEF MayCut, Busy
<1>5. CASE EntryFails \/ FileFails
    <2>1. Busy /\ player' = NoPlayback
        BY <1>5 DEF EntryFails, FileFails, PlayUrlFails, stopMPlayerWithEventLog, Busy, Done
    <2>2. QED
        BY <2>1, <1>a DEF MayCut, Busy
<1>6. CASE EntryLoops
    BY <1>6 DEF EntryLoops, MayCut, Busy, Done
<1>7. CASE On_MP_PlaybackEosOther
    BY <1>7 DEF On_MP_PlaybackEosOther, MayCut, Busy
<1>8. CASE On_MP_PlaybackEosInList \/ On_MP_PlaybackEosOfFile
    <2>1. player = NoPlayback
        BY <1>8, <1>a, EndsComeAfterThePlayer DEF On_MP_PlaybackEosInList, On_MP_PlaybackEosOfFile
    <2>2. player' = player
        BY <1>8 DEF On_MP_PlaybackEosInList, On_MP_PlaybackEosOfFile
    <2>3. QED
        BY <2>1, <2>2 DEF MayCut
<1>9. CASE OnTimer_checkPlayDurationTimeOut
    BY <1>9 DEF OnTimer_checkPlayDurationTimeOut, StopPlayback, stopMPlayerWithEventLog, MayCut
<1>10. CASE OnTimer_checkPlaylistDurationTimeOut
    BY <1>10 DEF OnTimer_checkPlaylistDurationTimeOut, StopPlayback, stopMPlayerWithEventLog, MayCut
<1>11. CASE PlayFirstEntry
    BY <1>11 DEF PlayFirstEntry, MayCut, Busy
<1>12. CASE PlayList
    BY <1>12 DEF PlayList, StopPlayDurationTimer, MayCut, User
<1>13. CASE KeyUp
    <2>1. /\ player' = NoPlayback \/ player' = player
          /\ m_PlayDurationTimer' = Off /\ m_PlaylistDurationTimer' = Off
          /\ pending'.by = "order"
        BY <1>13, SomeoneStops DEF KeyUp, StopPlayDurationTimer
    <2>2. QED
        BY <1>13, <2>1 DEF MayCut, User
<1>14. CASE PlayFile \/ setPlayNext \/ KeyDown
    BY <1>14 DEF PlayFile, setPlayNext, KeyDown, StopPlayback, stopMPlayerWithEventLog, MayCut, User
<1>15. CASE StopAll \/ StopContent \/ RemoteStop \/ StopMedia
    BY <1>15 DEF StopAll, StopContent, RemoteStop, StopMedia, Stops, stopMPlayerWithEventLog,
                 MayCut, User
<1>16. CASE OtherKey \/ On_GpioBtnKey
    <2>1. /\ player' = NoPlayback \/ player' = player
          /\ UNCHANGED <<m_PlayDurationTimer, m_PlaylistDurationTimer, pending>>
        BY <1>16, SomeoneStops DEF OtherKey, On_GpioBtnKey
    <2>2. QED
        BY <1>16, <2>1 DEF MayCut, User, Busy
<1>17. CASE PlayIdlePlayListFile
    <2>1. player' = player
        BY <1>17 DEF PlayIdlePlayListFile
    <2>2. CASE m_iStateType = "State_Idle"
        BY <2>1, <2>2 DEF IdlePlaysNothing, MayCut
    <2>3. CASE m_iStateType # "State_Idle"
        BY <1>17, <2>1, <2>3 DEF PlayIdlePlayListFile, MayCut, Busy
    <2>4. QED
        BY <2>2, <2>3
<1>18. CASE UNCHANGED vars
    BY <1>18 DEF vars, MayCut, Busy
<1>19. QED
    BY <1>1, <1>2, <1>3, <1>4, <1>5, <1>6, <1>7, <1>8, <1>9, <1>10, <1>11, <1>12, <1>13, <1>14,
       <1>15, <1>16, <1>17, <1>18 DEF Next, Handler, User

\* No playback is cut by the end, the timer or the failure of an earlier one, for any playlist
\* and whatever the user does.
THEOREM NoPlaybackIsCut == Spec => PlaybackIsNotCut
<1>1. Init => OnlyTheLastPlays /\ IdlePlaysNothing /\ TimersOfThePlayer
    BY DEF Init, OnlyTheLastPlays, IdlePlaysNothing, TimersOfThePlayer, NoPlayback
<1>2. TypeOK /\ OnlyTheLastPlays /\ [Next]_vars => OnlyTheLastPlays'
    BY OnlyTheLastPlaysStep
<1>3. TypeOK /\ OnlyTheLastPlays /\ IdlePlaysNothing /\ [Next]_vars => IdlePlaysNothing'
    BY IdlePlaysNothingStep
<1>4. TypeOK /\ OnlyTheLastPlays /\ IdlePlaysNothing /\ TimersOfThePlayer /\ [Next]_vars
      => TimersOfThePlayer' /\ [MayCut]_vars
    BY TimersOfThePlayerStep
<1>5. Spec => [][MayCut]_vars
    BY <1>1, <1>2, <1>3, <1>4, TypeCorrect, PTL DEF Spec
<1>6. QED
    BY <1>5 DEF PlaybackIsNotCut, MayCut

-----------------------------------------------------------------------------
(* Every end is logged once.                                               *)

\* The log knows every end exactly once, and the list of ended playbacks names none twice.
LoggedIsRemembered ==
    /\ \A id \in 1 .. MaxPlays : logged[id] = IF id \in Ended THEN 1 ELSE 0
    /\ \A i, j \in DOMAIN mEndedPlaybackIdList :
          mEndedPlaybackIdList[i] = mEndedPlaybackIdList[j] => i = j

\* A playback that was begun has ended and is logged, runs, or has a signal under way.
EndsAreUnderWay ==
    /\ player <= lastId
    /\ \A id \in 1 .. lastId :
          \/ id \in Ended \/ id = player
          \/ \E i \in DOMAIN signals : signals[i] = id

\* A list that names at most n playbacks, and none twice, is shorter than n when it misses one.
LEMMA MissingOne ==
    ASSUME NEW n \in Nat, NEW list \in Seq(1 .. n), NEW id \in 1 .. n,
           \A i, j \in DOMAIN list : list[i] = list[j] => i = j,
           \A i \in DOMAIN list : list[i] # id
    PROVE  Len(list) < n
<1> DEFINE S == 1 .. Len(list)
           T == (1 .. n) \ {id}
<1>1. Len(list) \in Nat /\ list \in [S -> 1 .. n] /\ DOMAIN list = S
    BY LenProperties
<1>2. \A m \in Nat : IsFiniteSet(1 .. m) /\ Cardinality(1 .. m) = m
    BY FS_Interval
<1>3. IsFiniteSet(T) /\ Cardinality(T) = n - 1
    BY <1>2, FS_RemoveElement
<1>4. IsFiniteSet(S) /\ Cardinality(S) = Len(list)
    BY <1>1, <1>2
<1>5. list \in Injection(S, T)
    BY <1>1 DEF Injection, IsInjective
<1>6. Cardinality(S) <= Cardinality(T)
    BY <1>3, <1>4, <1>5, FS_Injection
<1>7. QED
    BY <1>1, <1>3, <1>4, <1>6

\* While there are no more playbacks than the list holds, remembering one forgets none.
LEMMA RememberStep ==
    ASSUME MaxPlays <= MAX_EndedPlaybackIdList_SIZE, LogTypeOK, LoggedIsRemembered,
           NEW id \in 0 .. MaxPlays, rememberEndedPlaybackId(id)
    PROVE  LoggedIsRemembered' /\ Ended' = Ended \cup ({id} \ {NoPlayback})
<1>a. mEndedPlaybackIdList \in Seq(1 .. MaxPlays) /\ logged \in [1 .. MaxPlays -> Nat]
    BY DEF LogTypeOK
<1>1. CASE id = NoPlayback \/ id \in Ended
    <2>1. UNCHANGED <<mEndedPlaybackIdList, logged>>
        BY <1>1 DEF rememberEndedPlaybackId, logVars
    <2>2. Ended' = Ended
        BY <2>1 DEF Ended
    <2>3. QED
        BY <1>1, <2>1, <2>2 DEF LoggedIsRemembered
<1>2. CASE id # NoPlayback /\ id \notin Ended
    <2> DEFINE list == mEndedPlaybackIdList
    <2>1. id \in 1 .. MaxPlays
        BY <1>2, ConstantsAssumption DEF NoPlayback
    <2>2. /\ \A i, j \in DOMAIN list : list[i] = list[j] => i = j
          /\ \A i \in DOMAIN list : list[i] # id
        BY <1>2 DEF LoggedIsRemembered, Ended
    <2>3. Len(list) < MaxPlays
        BY <1>a, <2>1, <2>2, MissingOne, ConstantsAssumption
    <2>4. Len(list) < MAX_EndedPlaybackIdList_SIZE
        BY <1>a, <2>3, LenProperties, ConstantsAssumption DEF MAX_EndedPlaybackIdList_SIZE
    <2>5. list' = Append(list, id) /\ logged' = [logged EXCEPT ![id] = @ + 1]
        BY <1>2, <2>4 DEF rememberEndedPlaybackId
    <2>6. /\ Len(list) \in Nat /\ DOMAIN list = 1 .. Len(list)
          /\ DOMAIN list' = 1 .. Len(list) + 1
          /\ \A i \in 1 .. Len(list) : list'[i] = list[i]
          /\ list'[Len(list) + 1] = id
        BY <1>a, <2>1, <2>5, AppendProperties, LenProperties
    <2>7. Ended' = Ended \cup {id}
        BY <2>6 DEF Ended
    <2>8. \A i, j \in DOMAIN list' : list'[i] = list'[j] => i = j
        BY <2>2, <2>6
    <2>9. \A x \in 1 .. MaxPlays : logged'[x] = IF x \in Ended' THEN 1 ELSE 0
        BY <1>a, <1>2, <2>1, <2>5, <2>7 DEF LoggedIsRemembered
    <2>10. QED
        BY <1>2, <2>7, <2>8, <2>9 DEF LoggedIsRemembered
<1>3. QED
    BY <1>1, <1>2

\* The end of what runs is remembered before it is stopped.
LEMMA StopRemembers ==
    ASSUME MaxPlays <= MAX_EndedPlaybackIdList_SIZE, PlayerTypeOK, LogTypeOK, LoggedIsRemembered,
           EndsAreUnderWay, rememberEndedPlaybackId(player), signals' = signals
    PROVE  /\ LoggedIsRemembered'
           /\ player' = NoPlayback /\ lastId' = lastId => EndsAreUnderWay'
           /\ player' = lastId + 1 /\ lastId' = lastId + 1 => EndsAreUnderWay'
<1>1. player \in 0 .. MaxPlays /\ lastId \in 0 .. MaxPlays
    BY DEF PlayerTypeOK
<1>2. LoggedIsRemembered' /\ Ended' = Ended \cup ({player} \ {NoPlayback})
    BY <1>1, RememberStep
<1>3. \A id \in 1 .. lastId : id \in Ended' \/ (\E i \in DOMAIN signals' : signals'[i] = id)
    BY <1>1, <1>2, ConstantsAssumption DEF EndsAreUnderWay, NoPlayback
<1>4. QED
    BY <1>1, <1>2, <1>3, ConstantsAssumption DEF EndsAreUnderWay, NoPlayback

\* A signal that is taken is remembered.
LEMMA SignalRemembers ==
    ASSUME MaxPlays <= MAX_EndedPlaybackIdList_SIZE, PlayerTypeOK, LogTypeOK, LoggedIsRemembered,
           EndsAreUnderWay, signals # <<>>, signals' = Tail(signals),
           rememberEndedPlaybackId(Head(signals)), UNCHANGED <<player, lastId>>
    PROVE  LoggedIsRemembered' /\ EndsAreUnderWay'
<1>1. signals \in Seq(1 .. MaxPlays)
    BY DEF PlayerTypeOK
<1>2. /\ Head(signals) \in 1 .. MaxPlays
      /\ Tail(signals) \in Seq(1 .. MaxPlays)
      /\ Len(Tail(signals)) = Len(signals) - 1
      /\ \A i \in 1 .. Len(Tail(signals)) : Tail(signals)[i] = signals[i + 1]
    BY <1>1, HeadTailProperties
<1>3. LoggedIsRemembered' /\ Ended' = Ended \cup ({Head(signals)} \ {NoPlayback})
    BY <1>2, RememberStep, ConstantsAssumption
<1>4. Ended' = Ended \cup {Head(signals)}
    BY <1>2, <1>3, ConstantsAssumption DEF NoPlayback
<1>5. DOMAIN signals = 1 .. Len(signals) /\ DOMAIN signals' = 1 .. Len(signals) - 1
    BY <1>1, <1>2, LenProperties
<1>6. \A i \in DOMAIN signals : i = 1 \/ (i - 1 \in DOMAIN signals' /\ signals'[i - 1] = signals[i])
    BY <1>1, <1>2, <1>5, LenProperties
<1>7. Head(signals) = signals[1]
    BY <1>1
<1>8. \A id \in 1 .. lastId : id \in Ended' \/ id = player \/ (\E i \in DOMAIN signals' : signals'[i] = id)
    BY <1>4, <1>6, <1>7 DEF EndsAreUnderWay
<1>9. QED
    BY <1>3, <1>8 DEF EndsAreUnderWay

\* Every step keeps the log and the list in step, and loses no end.
LEMMA LoggedStep ==
    ASSUME MaxPlays <= MAX_EndedPlaybackIdList_SIZE, TypeOK, LoggedIsRemembered, EndsAreUnderWay,
           [Next]_vars
    PROVE  LoggedIsRemembered' /\ EndsAreUnderWay'
<1> USE DEF playerVars, logVars, fileVars, listVars, timerVars
<1>a. PlayerTypeOK /\ LogTypeOK
    BY DEF TypeOK
<1>b. ASSUME UNCHANGED <<mEndedPlaybackIdList, logged>>
      PROVE  LoggedIsRemembered' /\ Ended' = Ended
    BY <1>b DEF LoggedIsRemembered, Ended
<1>c. ASSUME UNCHANGED <<mEndedPlaybackIdList, logged, player, lastId, signals>>
      PROVE  LoggedIsRemembered' /\ EndsAreUnderWay'
    BY <1>b, <1>c DEF EndsAreUnderWay
<1>d. ASSUME stopMPlayerWithEventLog, UNCHANGED <<lastId, signals>>
      PROVE  LoggedIsRemembered' /\ EndsAreUnderWay'
    BY <1>a, <1>d, StopRemembers DEF stopMPlayerWithEventLog
<1>e. ASSUME PlayUrl \/ PlayUrlFails
      PROVE  LoggedIsRemembered' /\ EndsAreUnderWay'
    <2>1. CASE PlayUrl
        BY <1>a, <2>1, StopRemembers DEF PlayUrl
    <2>2. CASE PlayUrlFails
        BY <1>d, <2>2 DEF PlayUrlFails
    <2>3. QED
        BY <1>e, <2>1, <2>2
<1>1. CASE EndOfStream
    <2>1. /\ player \in 1 .. MaxPlays /\ player' = 0 /\ lastId' = lastId
          /\ lastId \in 0 .. MaxPlays /\ signals \in Seq(1 .. MaxPlays)
        BY <1>1, <1>a DEF EndOfStream, PlayerTypeOK, NoPlayback
    <2>2. LoggedIsRemembered' /\ Ended' = Ended
        BY <1>1, <1>b DEF EndOfStream
    <2>3. signals' = Append(signals, player) \/ signals' = signals \o <<player, player>>
        BY <1>1 DEF EndOfStream
    <2>4. /\ \A i \in DOMAIN signals : i \in DOMAIN signals' /\ signals'[i] = signals[i]
          /\ \E i \in DOMAIN signals' : signals'[i] = player
        BY <2>1, <2>3, SignalsKept
    <2>5. \A id \in 1 .. lastId : id \in Ended' \/ (\E i \in DOMAIN signals' : signals'[i] = id)
        BY <2>1, <2>2, <2>4 DEF EndsAreUnderWay
    <2>6. QED
        BY <2>1, <2>2, <2>5 DEF EndsAreUnderWay
<1>2. CASE NoEntry
    BY <1>2, <1>d DEF NoEntry
<1>3. CASE EntryPlays \/ FilePlays \/ EntryFails \/ FileFails
    BY <1>3, <1>e DEF EntryPlays, FilePlays, EntryFails, FileFails
<1>4. CASE EntryLoops \/ PlayFirstEntry
    BY <1>4, <1>c DEF EntryLoops, PlayFirstEntry
<1>5. CASE On_MP_PlaybackEosOther \/ On_MP_PlaybackEosInList \/ On_MP_PlaybackEosOfFile
    <2>1. /\ signals # <<>> /\ signals' = Tail(signals) /\ rememberEndedPlaybackId(Head(signals))
          /\ UNCHANGED <<player, lastId>>
        BY <1>5 DEF On_MP_PlaybackEosOther, On_MP_PlaybackEosInList, On_MP_PlaybackEosOfFile
    <2>2. QED
        BY <1>a, <2>1, SignalRemembers
<1>6. CASE OnTimer_checkPlayDurationTimeOut \/ OnTimer_checkPlaylistDurationTimeOut
    BY <1>6, <1>d
       DEF OnTimer_checkPlayDurationTimeOut, OnTimer_checkPlaylistDurationTimeOut, StopPlayback
<1>7. CASE PlayList \/ PlayIdlePlayListFile
    BY <1>7, <1>c DEF PlayList, PlayIdlePlayListFile
<1>8. CASE PlayFile \/ setPlayNext \/ KeyDown
    BY <1>8, <1>d DEF PlayFile, setPlayNext, KeyDown, StopPlayback
<1>9. CASE StopAll \/ StopContent \/ RemoteStop \/ StopMedia
    BY <1>9, <1>d DEF StopAll, StopContent, RemoteStop, StopMedia, Stops
<1>10. CASE KeyUp \/ OtherKey \/ On_GpioBtnKey
    <2>1. SomeoneIsThere /\ UNCHANGED <<lastId, signals>>
        BY <1>10 DEF KeyUp, OtherKey, On_GpioBtnKey
    <2>2. CASE m_bIsPlayingIdlePlayList
        BY <1>d, <2>1, <2>2 DEF SomeoneIsThere, StopPlayback
    <2>3. CASE ~m_bIsPlayingIdlePlayList
        BY <1>c, <2>1, <2>3 DEF SomeoneIsThere
    <2>4. QED
        BY <2>2, <2>3
<1>11. CASE UNCHANGED vars
    BY <1>11, <1>c DEF vars
<1>12. QED
    BY <1>1, <1>2, <1>3, <1>4, <1>5, <1>6, <1>7, <1>8, <1>9, <1>10, <1>11 DEF Next, Handler, User

\* The end of every playback is logged once, whoever ends it, for any playlist and any faults,
\* while there are no more playbacks than the list of ended ones holds.
THEOREM EndsAreLoggedOnce ==
    ASSUME MaxPlays <= MAX_EndedPlaybackIdList_SIZE
    PROVE  Spec => []EveryEndIsLoggedOnce
<1>1. Init => LoggedIsRemembered /\ EndsAreUnderWay
    BY ConstantsAssumption DEF Init, LoggedIsRemembered, EndsAreUnderWay, Ended, NoPlayback
<1>2. TypeOK /\ LoggedIsRemembered /\ EndsAreUnderWay /\ [Next]_vars
          => LoggedIsRemembered' /\ EndsAreUnderWay'
    BY LoggedStep
<1>3. TypeOK /\ LoggedIsRemembered /\ EndsAreUnderWay => EveryEndIsLoggedOnce
    BY ConstantsAssumption
       DEF TypeOK, PlayerTypeOK, LoggedIsRemembered, EndsAreUnderWay, EveryEndIsLoggedOnce
<1>4. QED
    BY <1>1, <1>2, <1>3, TypeCorrect, PTL DEF Spec
-----------------------------------------------------------------------------
(* A file plays its loops.                                                 *)

\* The file that the user ordered last and let play waits for its first start, ...
FileOrdered ==
    pending = FileStep([loops |-> file.loops, timed |-> FALSE], "order") /\ file.starts = 0

\* ... with n plays to go, the one that runs included, ...
LoopsLeft(n) ==
    /\ m_eCurPlayMediaFileType = "VIDEO" /\ n > 0
    /\ m_NextFileInfoToPlay = [loops |-> n, timed |-> FALSE, initZero |-> FALSE, named |-> TRUE]

\* ... is played again, ...
FileAgain ==
    pending = FileStep(m_NextFileInfoToPlay, "eos") /\ LoopsLeft(file.loops - file.starts)

\* ... or plays, and its end is announced, once if it is the last; meanwhile the idle timer may run,
\* but finds the interface playing.
EndComes ==
    \/ player # NoPlayback /\ player = m_PlaybackId
    \/ \E i \in DOMAIN signals : signals[i] = m_PlaybackId
FileRuns ==
    LET n == file.loops - file.starts + 1 IN
    /\ pending = Done /\ LoopsLeft(n) /\ (n = 1 \/ EndComes)
    /\ m_iStateType # "State_Idle" /\ ~m_bIsPlayingIdlePlayList

\* Neither a list nor a timer is left that could play something else.
FileIsAlone ==
    ~firstPosted /\ ~loaded /\ m_PlayDurationTimer = Off /\ m_PlaylistDurationTimer = Off

FileInv ==
    file.calm /\ file.loops > 0 => FileIsAlone /\ (FileOrdered \/ FileAgain \/ FileRuns)

\* The end of the playback that is waited for stays announced until it is taken.
LEMMA EndStaysAnnounced ==
    ASSUME PlayerTypeOK, UNCHANGED m_PlaybackId, EndComes,
           EndOfStream \/ On_MP_PlaybackEosOther
    PROVE  EndComes'
<1>a. player \in 0 .. MaxPlays /\ signals \in Seq(1 .. MaxPlays)
    BY DEF PlayerTypeOK
<1>1. CASE EndOfStream
    <2>1. /\ player \in 1 .. MaxPlays
          /\ signals' = Append(signals, player) \/ signals' = signals \o <<player, player>>
        <3>1. player # 0
            BY <1>1 DEF EndOfStream, NoPlayback
        <3>2. signals' = Append(signals, player) \/ signals' = signals \o <<player, player>>
            BY <1>1 DEF EndOfStream
        <3>3. player \in 1 .. MaxPlays
            BY <1>a, <3>1, ConstantsAssumption
        <3>4. QED
            BY <3>2, <3>3
    <2>2. /\ \A i \in DOMAIN signals : i \in DOMAIN signals' /\ signals'[i] = signals[i]
          /\ \E i \in DOMAIN signals' : signals'[i] = player
        BY <1>a, <2>1, SignalsKept
    <2>3. QED
        BY <2>2 DEF EndComes
<1>2. CASE On_MP_PlaybackEosOther
    <2>1. /\ signals # <<>> /\ signals' = Tail(signals) /\ player' = player
          /\ Head(signals) # m_PlaybackId
        BY <1>2 DEF On_MP_PlaybackEosOther, Awaited
    <2>2. ASSUME NEW i \in DOMAIN signals, signals[i] = m_PlaybackId
          PROVE  \E j \in DOMAIN signals' : signals'[j] = m_PlaybackId
        <3>1. /\ Tail(signals) \in Seq(1 .. MaxPlays)
              /\ Len(Tail(signals)) = Len(signals) - 1
              /\ \A j \in 1 .. Len(Tail(signals)) : Tail(signals)[j] = signals[j + 1]
            BY <1>a, <2>1, HeadTailProperties
        <3>2. i \in 1 .. Len(signals) /\ i # 1 /\ DOMAIN signals' = 1 .. Len(signals) - 1
            BY <1>a, <2>1, <2>2, <3>1, LenProperties
        <3>3. i - 1 \in DOMAIN signals' /\ signals'[i - 1] = signals[i]
            BY <1>a, <2>1, <3>1, <3>2, LenProperties
        <3>4. QED
            BY <2>2, <3>3
    <2>3. QED
        BY <2>1, <2>2 DEF EndComes
<1>3. QED
    BY <1>1, <1>2

\* Every step leaves the file its loops, or disturbs it.
LEMMA FileStepKeeps ==
    ASSUME TypeOK, FileInv, [Next]_vars
    PROVE  FileInv'
<1> USE DEF FileInv, FileIsAlone, playerVars, logVars, fileVars, listVars, timerVars, idleVars
<1>a. /\ PlayerTypeOK /\ lastId \in 0 .. MaxPlays /\ loaded \in BOOLEAN
      /\ file \in [loops : Int, starts : Nat, calm : BOOLEAN]
    BY DEF TypeOK, PlayerTypeOK, FileTypeOK, ListTypeOK
<1>b. /\ FileOrdered => pending.op = "file" /\ Busy
      /\ FileAgain => pending.op = "file" /\ Busy
      /\ FileRuns => pending.op = "none" /\ ~Busy
    BY DEF FileOrdered, FileAgain, FileRuns, FileStep, Busy, Done
<1>c. ASSUME UNCHANGED <<pending, file, fileVars, m_iStateType, m_bIsPlayingIdlePlayList>>
      PROVE  /\ FileOrdered => FileOrdered'
             /\ FileAgain => FileAgain'
             /\ FileRuns /\ (EndComes => EndComes') => FileRuns'
    BY <1>c DEF FileOrdered, FileAgain, FileRuns, LoopsLeft
<1>1. CASE EndOfStream \/ On_MP_PlaybackEosOther
    <2>1. UNCHANGED <<m_PlaybackId, pending, file, fileVars, listVars, timerVars, idleVars, firstPosted>>
        BY <1>1 DEF EndOfStream, On_MP_PlaybackEosOther
    <2>2. EndComes => EndComes'
        BY <1>1, <1>a, <2>1, EndStaysAnnounced
    <2>3. QED
        BY <1>c, <2>1, <2>2
<1>2. CASE NoEntry \/ EntryPlays \/ EntryFails \/ EntryLoops
    <2>1. pending.op \in {"next", "first", "pre"} /\ file' = file
        BY <1>2 DEF NoEntry, EntryPlays, EntryFails, EntryLoops
    <2>2. QED
        BY <1>b, <2>1
<1>3. CASE FilePlays
    <2> SUFFICES ASSUME file.calm, file.loops > 0
                 PROVE  FileIsAlone' /\ FileRuns'
        BY <1>3, <1>a DEF FilePlays
    <2>1. /\ file' = [file EXCEPT !.starts = @ + 1] /\ m_eCurPlayMediaFileType' = "VIDEO"
          /\ m_NextFileInfoToPlay' = NextFile(pending.loops, pending.timed)
          /\ pending' = Done /\ player' = lastId + 1 /\ m_PlaybackId' = lastId + 1
          /\ m_PlayDurationTimer' = (IF pending.timed THEN lastId + 1 ELSE Off)
          /\ m_PlaylistDurationTimer' = Off /\ UNCHANGED <<loaded, firstPosted>>
          /\ m_iStateType' = "State_PlayingVideoFile" /\ m_bIsPlayingIdlePlayList' = FALSE
        BY <1>3 DEF FilePlays, PlayUrl, FileIsTaken
    <2>2. EndComes'
        BY <1>a, <2>1 DEF EndComes, NoPlayback
    <2>3. file'.loops = file.loops /\ file'.starts = file.starts + 1
        BY <1>a, <2>1
    <2>4. /\ pending.loops = file.loops - file.starts /\ pending.timed = FALSE /\ pending.loops > 0
          /\ pending.loops \in Int
        <3>1. CASE FileOrdered
            BY <1>a, <3>1 DEF FileOrdered, FileStep
        <3>2. CASE FileAgain
            BY <1>a, <3>2 DEF FileAgain, LoopsLeft, FileStep
        <3>3. QED
            BY <1>3, <1>b, <3>1, <3>2 DEF FilePlays
    <2>5. PICK n \in Int : n = pending.loops
        BY <2>4
    <2>6. m_NextFileInfoToPlay' = [loops |-> n, timed |-> FALSE, initZero |-> FALSE, named |-> TRUE]
        <3>1. m_NextFileInfoToPlay' = NextFile(n, FALSE)
            BY <2>1, <2>4, <2>5
        <3>2. n # 0
            BY <2>4, <2>5
        <3>3. QED
            BY <3>1, <3>2 DEF NextFile
    <2>7. n = (file.loops - file.starts + 1)'
        BY <1>a, <2>3, <2>4, <2>5
    <2>8. LoopsLeft(file.loops - file.starts + 1)'
        BY <2>1, <2>4, <2>5, <2>6, <2>7 DEF LoopsLeft
    <2>9. FileRuns'
        BY <2>1, <2>2, <2>8 DEF FileRuns
    <2>10. FileIsAlone'
        BY <1>3, <2>1, <2>4
    <2>11. QED
        BY <2>9, <2>10
<1>4. CASE FileFails
    BY <1>4, <1>a DEF FileFails
<1>5. CASE On_MP_PlaybackEosInList
    BY <1>5, <1>b DEF On_MP_PlaybackEosInList, FileRuns, LoopsLeft
<1>6. CASE On_MP_PlaybackEosOfFile
    <2> SUFFICES ASSUME file.calm, file.loops > 0
                 PROVE  FileIsAlone' /\ (FileAgain' \/ FileRuns')
        BY <1>6 DEF On_MP_PlaybackEosOfFile
    <2> DEFINE next == m_NextFileInfoToPlay
               n == file.loops - file.starts + 1
    <2>1. FileRuns /\ LoopsLeft(n) /\ n \in Int
        BY <1>6, <1>a, <1>b DEF On_MP_PlaybackEosOfFile, FileRuns
    <2>2. next.loops = n /\ next.named /\ ~next.initZero /\ n > 0
        BY <2>1 DEF LoopsLeft
    <2>3. UNCHANGED <<m_eCurPlayMediaFileType, file, listVars, timerVars, idleVars, firstPosted>>
        BY <1>6 DEF On_MP_PlaybackEosOfFile
    <2>4. CASE next.loops > 1
        <3>1. /\ next' = [next EXCEPT !.loops = @ - 1] /\ PlayAgain(next', "eos")
            BY <1>6, <2>4 DEF On_MP_PlaybackEosOfFile
        <3>2. LoopsLeft(file.loops - file.starts)'
            <4>1. next = [loops |-> n, timed |-> FALSE, initZero |-> FALSE, named |-> TRUE]
                BY <2>1 DEF LoopsLeft
            <4>2. next' = [loops |-> n - 1, timed |-> FALSE, initZero |-> FALSE, named |-> TRUE]
                BY <2>1, <3>1, <4>1
            <4>3. n - 1 = (file.loops - file.starts)' /\ n - 1 > 0
                BY <1>a, <2>2, <2>3, <2>4
            <4>4. QED
                BY <2>1, <2>3, <4>2, <4>3 DEF LoopsLeft
        <3>3. pending' = FileStep(next', "eos")
            BY <3>1, <3>2 DEF PlayAgain, LoopsLeft
        <3>4. QED
            BY <2>3, <3>2, <3>3 DEF FileAgain
    <2>5. CASE next.loops = 1
        <3>1. UNCHANGED <<m_NextFileInfoToPlay, pending>>
            BY <1>6, <2>2, <2>5 DEF On_MP_PlaybackEosOfFile
        <3>2. FileRuns'
            BY <2>1, <2>2, <2>3, <2>5, <3>1 DEF FileRuns, LoopsLeft
        <3>3. QED
            BY <2>3, <3>2
    <2>6. QED
        BY <2>1, <2>2, <2>4, <2>5
<1>7. CASE \/ OnTimer_checkPlayDurationTimeOut \/ OnTimer_checkPlaylistDurationTimeOut
           \/ PlayFirstEntry
    BY <1>7 DEF OnTimer_checkPlayDurationTimeOut, OnTimer_checkPlaylistDurationTimeOut, PlayFirstEntry
<1>8. CASE PlayFile
    <2>1. PICK f \in Files : /\ file' = [loops |-> f.loops, starts |-> 0, calm |-> ~f.timed /\ ~firstPosted]
                             /\ pending' = FileStep(f, "order")
        BY <1>8 DEF PlayFile
    <2>2. loaded' = FALSE /\ firstPosted' = firstPosted /\ StopPlayDurationTimer
        BY <1>8 DEF PlayFile
    <2>3. f.timed \in BOOLEAN
        BY <2>1, ConstantsAssumption
    <2>4. ASSUME file'.calm PROVE FileIsAlone' /\ FileOrdered'
        BY <2>1, <2>2, <2>3, <2>4 DEF StopPlayDurationTimer, FileOrdered, FileStep
    <2>5. QED
        BY <2>4
<1>9. CASE PlayList \/ setPlayNext \/ KeyDown \/ KeyUp
    BY <1>9, <1>a DEF PlayList, setPlayNext, KeyDown, KeyUp
<1>10. CASE StopAll \/ StopContent \/ RemoteStop \/ StopMedia
    <2>1. Stops
        BY <1>10 DEF StopAll, StopContent, RemoteStop, StopMedia
    <2>2. QED
        BY <1>a, <2>1 DEF Stops
<1>11. CASE PlayIdlePlayListFile
    <2>1. CASE m_iStateType = "State_Idle"
        <3>1. file' = [file EXCEPT !.calm = FALSE]
            BY <1>11, <2>1 DEF PlayIdlePlayListFile
        <3>2. QED
            BY <1>a, <3>1
    <2>2. CASE m_iStateType # "State_Idle"
        <3>1. /\ UNCHANGED <<pending, file, fileVars, listVars, timerVars, m_iStateType>>
              /\ UNCHANGED <<m_bIsPlayingIdlePlayList, playerVars, m_PlaybackId, firstPosted>>
            BY <1>11, <2>2 DEF PlayIdlePlayListFile
        <3>2. QED
            BY <1>c, <3>1 DEF EndComes
    <2>3. QED
        BY <2>1, <2>2
<1>12. CASE OtherKey \/ On_GpioBtnKey
    <2> SUFFICES ASSUME file.calm, file.loops > 0
                 PROVE  FileIsAlone' /\ FileRuns'
        BY <1>12 DEF OtherKey, On_GpioBtnKey
    <2>1. FileRuns
        BY <1>12, <1>b DEF OtherKey, On_GpioBtnKey
    <2>2. SomeoneIsThere /\ UNCHANGED <<signals, fileVars, timerVars, firstPosted, pending, file>>
        BY <1>12 DEF OtherKey, On_GpioBtnKey
    <2>3. UNCHANGED <<player, loaded, m_iStateType, m_bIsPlayingIdlePlayList>>
        BY <2>1, <2>2 DEF SomeoneIsThere, FileRuns
    <2>4. m_PlaybackId' = m_PlaybackId
        BY <1>12, <2>1 DEF OtherKey, On_GpioBtnKey, KeyWaits, FileRuns
    <2>5. QED
        BY <1>c, <2>1, <2>2, <2>3, <2>4 DEF EndComes
<1>13. CASE UNCHANGED vars
    BY <1>13, <1>c DEF vars, EndComes
<1>14. QED
    BY <1>1, <1>2, <1>3, <1>4, <1>5, <1>6, <1>7, <1>8, <1>9, <1>10, <1>11, <1>12, <1>13
       DEF Next, Handler, User

\* A file that is to play L times has played L times when all is quiet, if the user let it and no
\* play failed, for any file, however late or often its ends are announced.
THEOREM FilesPlayTheirLoops == Spec => []FilePlaysItsLoops
<1>1. Init => FileInv
    BY DEF Init, FileInv
<1>2. TypeOK /\ FileInv => FilePlaysItsLoops
    <2> SUFFICES ASSUME TypeOK, FileInv, Quiet, file.calm, file.loops > 0
                 PROVE  file.starts = file.loops
        BY DEF FilePlaysItsLoops
    <2>1. FileRuns /\ ~EndComes
        BY DEF FileInv, Quiet, Busy, Done, FileOrdered, FileAgain, FileStep, EndComes
    <2>2. file.loops - file.starts + 1 = 1
        BY <2>1 DEF FileRuns
    <2>3. file.loops \in Int /\ file.starts \in Nat
        BY DEF TypeOK, FileTypeOK
    <2>4. QED
        BY <2>2, <2>3
<1>3. QED
    BY <1>1, <1>2, FileStepKeeps, TypeCorrect, PTL DEF Spec
-----------------------------------------------------------------------------
(* An entry plays its loops.                                               *)

\* The entries whose loops the interface counts, and how often it is to start them.
Counted(e) == IsTimed(e) \/ LoopsOf(e) <= 1
TimesOf(e) == IF LoopsOf(e) > 1 THEN LoopsOf(e) ELSE 1

\* The DOWN key, a step back and a start from the first entry break a row off.
RowIsBroken ==
    /\ loaded /\ cursor.m_keydownflag = 1 => pending.op \in {"next", "first"} /\ row = NoRow
    /\ pending.op \in {"first", "pre"} => row = NoRow

\* The list has gone past the entry of the row; or is at it, and has counted its starts if it is to
\* start again; or is at a loop that could not start another round.
RowIsBehind ==
    LET e == row.entry
        cur == cursor.m_CurEntryId
    IN \/ e < cur
       \/ /\ e = cur
          /\ Counted(e) /\ m_bIsNeedLoop =>
                row.starts <= m_iHasLoopTimes[e] /\ m_iHasLoopTimes[e] < LoopsOf(e)
       \/ m_bIsNeedLoop /\ cur \in 0 .. N - 1 /\ IsLoop(cur)

RowInv ==
    /\ RowIsBroken
    /\ row.entry # -1 =>
          /\ row.entry \in 0 .. N - 1 /\ ~IsLoop(row.entry)
          /\ Counted(row.entry) => row.starts <= TimesOf(row.entry)
          /\ RowIsBehind

\* Without the DOWN key the list stays where it is to play again, and else goes one on; only a move
\* that is undone changes Keydown.
LEMMA NextMove ==
    ASSUME ListTypeOK, loaded, pending.op = "next", cursor.m_keydownflag # 1
    PROVE  /\ Moved.m_keydownflag = 0
           /\ Moved.Keydown = cursor.Keydown =>
                 Moved.m_CurEntryId = IF m_bIsNeedLoop THEN cursor.m_CurEntryId
                                                       ELSE cursor.m_CurEntryId + 1
           /\ ~m_bIsNeedLoop => Moved.m_CurEntryId \in {cursor.m_CurEntryId, cursor.m_CurEntryId + 1}
<1>1. Moved = MoveToNextPlayEntry(cursor, ~m_bIsNeedLoop)
    BY DEF Moved
<1>2. cursor \in Cursors /\ cursor.m_CurEntryId \in Int /\ m_bIsNeedLoop \in BOOLEAN
    BY DEF ListTypeOK, Cursors
<1>3. CASE m_bIsNeedLoop
    BY <1>1, <1>2, <1>3 DEF MoveToNextPlayEntry
<1>4. CASE ~m_bIsNeedLoop
    BY <1>1, <1>2, <1>4 DEF MoveToNextPlayEntry
<1>5. QED
    BY <1>3, <1>4

\* The DOWN key is taken note of once, and a step back does not take note of it.
LEMMA KeyIsTaken ==
    ASSUME ListTypeOK, loaded, pending.op \in {"next", "first", "pre"}, RowIsBroken
    PROVE  Moved.m_keydownflag = 0
<1>1. cursor \in Cursors
    BY DEF ListTypeOK
<1>2. CASE pending.op = "pre"
    <2>1. cursor.m_keydownflag = 0
        BY <1>1, <1>2 DEF RowIsBroken, Cursors
    <2>2. QED
        BY <1>2, <2>1 DEF Moved, MoveToPreHeadPlayEntry
<1>3. CASE pending.op \in {"next", "first"}
    BY <1>3 DEF Moved, MoveToNextPlayEntry
<1>4. QED
    BY <1>2, <1>3

\* An entry that is started, or tried, is counted up to its loops.
LEMMA CountedUp ==
    ASSUME ListTypeOK, NEW e \in 0 .. N - 1, ~IsLoop(e), CountLoop(e), Counted(e), m_bIsNeedLoop'
    PROVE  /\ m_iHasLoopTimes'[e] = m_iHasLoopTimes[e] + 1
           /\ m_iHasLoopTimes[e] + 1 < LoopsOf(e)
           /\ m_iHasLoopTimes[e] \in Nat
<1>1. IsTimed(e) \in BOOLEAN /\ LoopsOf(e) \in Nat
    BY EntryTypes
<1>2. m_iHasLoopTimes \in [0 .. N - 1 -> Nat]
    BY DEF ListTypeOK
<1>3. ~(~IsTimed(e) /\ LoopsOf(e) > 1)
    BY <1>1 DEF Counted
<1>4. /\ m_iHasLoopTimes[e] + 1 < LoopsOf(e)
      /\ m_iHasLoopTimes' = [m_iHasLoopTimes EXCEPT ![e] = m_iHasLoopTimes[e] + 1]
    BY <1>3 DEF CountLoop
<1>5. QED
    BY <1>2, <1>4

\* An entry that is started begins a row, or goes on with one that may.
LEMMA RowGoesOn ==
    ASSUME TypeOK, RowInv, EntryPlays
    PROVE  RowInv'
<1> DEFINE e == Moved.m_CurEntryId
<1>a. /\ ListTypeOK /\ e \in 0 .. N - 1 /\ ~IsLoop(e) /\ CountLoop(e) /\ loaded
      /\ pending.op \in {"next", "first", "pre"} /\ pending' = Done /\ cursor' = Moved
      /\ row' = IF row.entry = e /\ Moved.Keydown = cursor.Keydown
                THEN [row EXCEPT !.starts = @ + 1] ELSE [entry |-> e, starts |-> 1]
    BY DEF TypeOK, EntryPlays
<1>b. /\ IsTimed(e) \in BOOLEAN /\ LoopsOf(e) \in Nat /\ e \in Int /\ row \in Rows
      /\ row.starts \in Nat /\ m_bIsNeedLoop \in BOOLEAN /\ e # -1
      /\ cursor.m_CurEntryId \in Int
    BY <1>a, EntryTypes DEF ListTypeOK, Rows, Cursors
<1>1. RowIsBroken'
    BY <1>a, KeyIsTaken DEF RowInv, RowIsBroken, Done
<1>2. \/ row' = [entry |-> e, starts |-> 1]
      \/ /\ row' = [entry |-> e, starts |-> row.starts + 1]
         /\ Counted(e) => row.starts <= m_iHasLoopTimes[e] /\ m_iHasLoopTimes[e] < LoopsOf(e)
    <2> SUFFICES ASSUME row.entry = e, Moved.Keydown = cursor.Keydown
                 PROVE  /\ row' = [entry |-> e, starts |-> row.starts + 1]
                        /\ Counted(e) => row.starts <= m_iHasLoopTimes[e] /\ m_iHasLoopTimes[e] < LoopsOf(e)
        BY <1>a
    <2>1. row' = [entry |-> e, starts |-> row.starts + 1]
        BY <1>a, <1>b DEF Rows
    <2>2. row # NoRow
        BY <1>b DEF NoRow
    <2>3. pending.op = "next" /\ cursor.m_keydownflag # 1
        BY <1>a, <2>2 DEF RowInv, RowIsBroken
    <2>4. e = IF m_bIsNeedLoop THEN cursor.m_CurEntryId ELSE cursor.m_CurEntryId + 1
        BY <1>a, <2>3, NextMove
    <2>5. RowIsBehind
        BY <1>b DEF RowInv
    <2>6. m_bIsNeedLoop /\ cursor.m_CurEntryId = e
        <3>1. CASE ~m_bIsNeedLoop
            BY <1>b, <2>4, <2>5, <3>1 DEF RowIsBehind
        <3>2. QED
            BY <1>b, <2>4, <3>1
    <2>7. Counted(e) => row.starts <= m_iHasLoopTimes[e] /\ m_iHasLoopTimes[e] < LoopsOf(e)
        BY <1>a, <1>b, <2>5, <2>6 DEF RowIsBehind
    <2>8. QED
        BY <2>1, <2>7
<1>3. row'.entry = e /\ row'.starts \in Nat
    BY <1>b, <1>2
<1>4. ASSUME Counted(e) PROVE row'.starts <= TimesOf(e)
    <2>1. m_iHasLoopTimes[e] \in Nat
        BY <1>a DEF ListTypeOK
    <2>2. QED
        BY <1>b, <1>2, <1>4, <2>1 DEF TimesOf
<1>5. ASSUME Counted(e), m_bIsNeedLoop'
      PROVE  row'.starts <= m_iHasLoopTimes'[e] /\ m_iHasLoopTimes'[e] < LoopsOf(e)
    <2>1. /\ m_iHasLoopTimes'[e] = m_iHasLoopTimes[e] + 1
          /\ m_iHasLoopTimes[e] + 1 < LoopsOf(e) /\ m_iHasLoopTimes[e] \in Nat
        BY <1>a, <1>5, CountedUp
    <2>2. QED
        BY <1>b, <1>2, <1>5, <2>1
<1>6. PICK k \in 0 .. N - 1 : k = e /\ k = row'.entry /\ k = cursor'.m_CurEntryId
    BY <1>a, <1>3
<1>7. RowIsBehind'
    BY <1>5, <1>6 DEF RowIsBehind
<1>8. row'.entry \in 0 .. N - 1 /\ ~IsLoop(row'.entry)
    BY <1>a, <1>3
<1>9. Counted(row'.entry) => row'.starts <= TimesOf(row'.entry)
    BY <1>4, <1>6
<1>10. QED
    BY <1>1, <1>7, <1>8, <1>9 DEF RowInv, Counted, TimesOf, IsTimed, LoopsOf, IsLoop

\* An entry that is tried in vain, a loop and the end of the list leave the row behind.
LEMMA RowStays ==
    ASSUME TypeOK, RowInv, EntryFails \/ EntryLoops \/ NoEntry
    PROVE  RowInv'
<1> DEFINE e == Moved.m_CurEntryId
           cur == cursor.m_CurEntryId
<1>a. /\ ListTypeOK /\ pending.op \in {"next", "first", "pre"} /\ cursor' = Moved
      /\ loaded' = loaded
    BY DEF TypeOK, EntryFails, EntryLoops, NoEntry, listVars
<1>b. /\ cur \in Int /\ e \in Int /\ row \in Rows /\ m_bIsNeedLoop \in BOOLEAN
      /\ N \in Nat /\ m_iHasLoopTimes \in [0 .. N - 1 -> Nat]
    BY <1>a, MovedType, ConstantsAssumption DEF ListTypeOK, Rows, Cursors
<1>c. pending'.op \in {"none", "next"}
    <2>1. CASE pending' = Done
        BY <2>1 DEF Done
    <2>2. CASE pending' = [pending EXCEPT !.op = "next"]
        <3>1. pending \in [op : {"next", "first", "pre"}, by : Causes]
            BY <1>a DEF TypeOK, Steps, Done
        <3>2. QED
            BY <2>2, <3>1
    <2>3. QED
        BY <2>1, <2>2 DEF EntryFails, EntryLoops, NoEntry
<1>d. row' = row \/ row' = NoRow
    BY DEF EntryFails, EntryLoops, NoEntry
<1>1. RowIsBroken'
    <2>1. loaded => Moved.m_keydownflag = 0
        BY <1>a, KeyIsTaken DEF RowInv
    <2>2. QED
        BY <1>a, <1>c, <2>1 DEF RowIsBroken
<1>2. ASSUME row'.entry # -1
      PROVE  RowIsBehind' /\ row' = row
    <2>1. row' = row /\ row.entry # -1 /\ row # NoRow
        BY <1>d, <1>2 DEF NoRow
    <2>2. /\ pending.op = "next" /\ (loaded => cursor.m_keydownflag # 1)
          /\ row.entry \in 0 .. N - 1 /\ ~IsLoop(row.entry) /\ RowIsBehind
        BY <1>a, <2>1 DEF RowInv, RowIsBroken
    <2>3. PICK k \in 0 .. N - 1 : k = row.entry /\ k = row'.entry
        BY <2>1, <2>2
    <2>4. PICK c \in Int : c = e /\ c = cursor'.m_CurEntryId
        BY <1>a, <1>b
    <2>5. CASE NoEntry
        <3>1. UNCHANGED <<m_iHasLoopTimes, m_bIsNeedLoop>>
            BY <2>5 DEF NoEntry
        <3>2. CASE ~loaded
            BY <1>a, <2>1, <2>2, <3>1, <3>2 DEF Moved, RowIsBehind
        <3>3. CASE loaded /\ c >= N
            BY <1>b, <2>1, <2>3, <2>4, <3>3 DEF RowIsBehind
        <3>4. QED
            BY <2>4, <2>5, <3>2, <3>3 DEF NoEntry
    <2>6. CASE EntryFails
        <3>1. Moved.Keydown = cursor.Keydown /\ loaded /\ CountLoop(e) /\ e \in 0 .. N - 1 /\ ~IsLoop(e)
            BY <2>1, <2>6 DEF EntryFails
        <3>2. e = IF m_bIsNeedLoop THEN cur ELSE cur + 1
            BY <1>a, <2>2, <3>1, NextMove
        <3>3. \/ k < c
              \/ k = c /\ m_bIsNeedLoop
                 /\ (Counted(k) => row.starts <= m_iHasLoopTimes[k] /\ m_iHasLoopTimes[k] < LoopsOf(k))
            <4>1. CASE m_bIsNeedLoop
                BY <1>b, <2>2, <2>3, <2>4, <3>1, <3>2, <4>1 DEF RowIsBehind
            <4>2. CASE ~m_bIsNeedLoop
                <5>1. c = cur + 1
                    BY <2>4, <3>2, <4>2
                <5>2. k < cur \/ k = cur
                    BY <2>2, <2>3, <4>2 DEF RowIsBehind
                <5>3. QED
                    BY <1>b, <5>1, <5>2
            <4>3. QED
                BY <1>b, <4>1, <4>2
        <3>4. ASSUME k = c, Counted(k), m_bIsNeedLoop'
              PROVE  row'.starts <= m_iHasLoopTimes'[k] /\ m_iHasLoopTimes'[k] < LoopsOf(k)
            <4>1. /\ m_iHasLoopTimes'[k] = m_iHasLoopTimes[k] + 1
                  /\ m_iHasLoopTimes[k] + 1 < LoopsOf(k) /\ m_iHasLoopTimes[k] \in Nat
                BY <1>a, <2>4, <3>1, <3>4, CountedUp
            <4>2. row.starts <= m_iHasLoopTimes[k] /\ row.starts \in Nat
                BY <1>b, <2>3, <3>3, <3>4 DEF Rows
            <4>3. LoopsOf(k) \in Nat
                BY <2>4, <3>1, <3>4, EntryTypes
            <4>4. QED
                BY <2>1, <4>1, <4>2, <4>3
        <3>5. QED
            BY <2>1, <2>3, <2>4, <3>3, <3>4 DEF RowIsBehind
    <2>7. CASE EntryLoops
        <3>1. loaded /\ e \in 0 .. N - 1 /\ IsLoop(e) /\ m_bIsNeedLoop' = m_bIsNeedLoop
            BY <2>7 DEF EntryLoops
        <3>2. k # e
            BY <2>2, <2>3, <3>1
        <3>3. CASE m_bIsNeedLoop
            <4>1. m_bIsNeedLoop' /\ cursor'.m_CurEntryId \in 0 .. N - 1 /\ IsLoop(cursor'.m_CurEntryId)
                BY <1>a, <3>1, <3>3
            <4>2. QED
                BY <2>1, <4>1 DEF RowIsBehind, IsLoop
        <3>4. CASE ~m_bIsNeedLoop
            <4>1. e \in {cur, cur + 1} /\ k <= cur
                BY <1>a, <1>b, <2>2, <2>3, <3>1, <3>4, NextMove DEF RowIsBehind
            <4>2. k < c
                BY <1>b, <2>4, <3>2, <4>1
            <4>3. QED
                BY <2>1, <2>3, <2>4, <4>2 DEF RowIsBehind
        <3>5. QED
            BY <1>b, <3>3, <3>4
    <2>8. QED
        BY <2>1, <2>5, <2>6, <2>7
<1>3. QED
    BY <1>1, <1>2 DEF RowInv, Counted, TimesOf, IsTimed, LoopsOf, IsLoop

\* Every step.
LEMMA RowStep ==
    ASSUME TypeOK, RowInv, [Next]_vars
    PROVE  RowInv'
<1> USE DEF playerVars, logVars, fileVars, listVars, timerVars
<1>a. ListTypeOK /\ loaded \in BOOLEAN /\ (~Busy => pending.op = "none")
    BY DEF TypeOK, ListTypeOK, Busy, Done
<1>b. ASSUME UNCHANGED <<listVars, row>>, RowIsBroken'
      PROVE  RowInv'
    BY <1>b DEF RowInv, RowIsBehind, Counted, TimesOf, IsTimed, LoopsOf, IsLoop
<1>c. ASSUME row' = NoRow, RowIsBroken'
      PROVE  RowInv'
    BY <1>c DEF RowInv, NoRow
<1>d. RowIsBroken
    BY DEF RowInv
<1>1. CASE EndOfStream \/ On_MP_PlaybackEosOther \/ UNCHANGED vars
    BY <1>1, <1>b, <1>d DEF EndOfStream, On_MP_PlaybackEosOther, vars, RowIsBroken
<1>2. CASE FilePlays \/ FileFails
    <2>1. pending.op = "file" /\ pending' = Done /\ UNCHANGED <<listVars, row>>
        BY <1>2 DEF FilePlays, FileFails
    <2>2. QED
        BY <1>b, <1>d, <2>1 DEF RowIsBroken, Done
<1>3. CASE \/ On_MP_PlaybackEosInList \/ On_MP_PlaybackEosOfFile
           \/ OnTimer_checkPlayDurationTimeOut \/ OnTimer_checkPlaylistDurationTimeOut
    <2>1. UNCHANGED <<listVars, row>> /\ pending.op = "none"
        BY <1>3, <1>a DEF On_MP_PlaybackEosInList, On_MP_PlaybackEosOfFile,
           OnTimer_checkPlayDurationTimeOut, OnTimer_checkPlaylistDurationTimeOut
    <2>2. pending'.op \in {"none", "next", "file"}
        BY <1>3, <1>a, <2>1 DEF On_MP_PlaybackEosInList, On_MP_PlaybackEosOfFile,
           OnTimer_checkPlayDurationTimeOut, OnTimer_checkPlaylistDurationTimeOut, PlayAgain, FileStep, Done
    <2>3. QED
        BY <1>b, <1>d, <2>1, <2>2 DEF RowIsBroken
<1>4. CASE PlayFirstEntry \/ PlayList \/ (PlayIdlePlayListFile /\ m_iStateType = "State_Idle")
    <2>1. row' = NoRow /\ pending'.op = "first"
        BY <1>4 DEF PlayFirstEntry, PlayList, PlayIdlePlayListFile, Orders
    <2>2. QED
        BY <1>c, <2>1 DEF RowIsBroken
<1>5. CASE PlayFile \/ setPlayNext \/ KeyDown
    <2>1. row' = NoRow /\ (pending'.op = "next" \/ (pending'.op = "file" /\ ~loaded'))
        <3>1. row' = NoRow
            BY <1>5 DEF PlayFile, setPlayNext, KeyDown, Orders
        <3>2. CASE PlayFile
            BY <3>1, <3>2 DEF PlayFile, FileStep
        <3>3. CASE setPlayNext \/ KeyDown
            <4>1. pending' = [op |-> "next", by |-> "order"]
                BY <3>3 DEF setPlayNext, KeyDown
            <4>2. QED
                BY <3>1, <4>1
        <3>4. QED
            BY <1>5, <3>2, <3>3
    <2>2. QED
        BY <1>c, <2>1 DEF RowIsBroken
<1>6. CASE KeyUp \/ StopAll \/ StopContent \/ RemoteStop \/ StopMedia
    <2>1. /\ row' = NoRow /\ pending.op = "none" /\ cursor' = cursor
          /\ loaded' => loaded
        <3>1. CASE KeyUp
            <4>1. row' = NoRow /\ ~Busy /\ cursor' = cursor /\ SomeoneIsThere
                BY <3>1 DEF KeyUp, Orders
            <4>2. QED
                BY <1>a, <4>1 DEF SomeoneIsThere
        <3>2. CASE StopAll \/ StopContent \/ RemoteStop \/ StopMedia
            <4>1. Stops /\ (loaded' = FALSE \/ loaded' = loaded)
                BY <3>2 DEF StopAll, StopContent, RemoteStop, StopMedia
            <4>2. QED
                BY <1>a, <4>1 DEF Stops
        <3>3. QED
            BY <1>6, <3>1, <3>2
    <2>2. QED
        BY <1>c, <1>d, <2>1 DEF RowIsBroken
<1>7. CASE OtherKey \/ On_GpioBtnKey
    <2>1. /\ UNCHANGED <<cursor, m_iHasLoopTimes, m_bIsNeedLoop, pending, row>>
          /\ ~Busy /\ SomeoneIsThere
        BY <1>7 DEF OtherKey, On_GpioBtnKey
    <2>2. loaded' => loaded
        BY <2>1 DEF SomeoneIsThere
    <2>3. RowIsBroken'
        BY <1>a, <1>d, <2>1, <2>2 DEF RowIsBroken
    <2>4. QED
        BY <2>1, <2>3 DEF RowInv, RowIsBehind, Counted, TimesOf, IsTimed, LoopsOf, IsLoop
<1>8. CASE PlayIdlePlayListFile /\ m_iStateType # "State_Idle"
    <2>1. UNCHANGED <<listVars, row, pending>>
        BY <1>8 DEF PlayIdlePlayListFile
    <2>2. QED
        BY <1>b, <1>d, <2>1 DEF RowIsBroken
<1>9. QED
    BY <1>1, <1>2, <1>3, <1>4, <1>5, <1>6, <1>7, <1>8, RowGoesOn, RowStays DEF Next, Handler, User

\* An entry whose loops the interface counts starts in a row at most as often as they say, for any
\* playlist, whatever fails and whatever the user does.
THEOREM EntriesPlayTheirLoops == Spec => []EntryPlaysItsLoops
<1>1. Init => RowInv
    BY DEF Init, RowInv, RowIsBroken, NoRow, Done
<1>2. RowInv => EntryPlaysItsLoops
    BY DEF RowInv, EntryPlaysItsLoops, Counted, TimesOf
<1>3. QED
    BY <1>1, <1>2, RowStep, TypeCorrect, PTL DEF Spec

=============================================================================
