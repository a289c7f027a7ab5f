---------------------------- MODULE MediaSrvProofs ----------------------------
(***************************************************************************)
(* MediaSrv for any sources, loop counts and limit of the queue, any       *)
(* number of calls, and a player whose stop may or may not wait for the    *)
(* end of stream callback.                                                 *)
(***************************************************************************)
EXTENDS MediaSrv, SequenceTheorems, FiniteSetTheorems, TLAPS

-----------------------------------------------------------------------------
(* Types.                                                                  *)

\* What a message carries.
LEMMA MessageTypes ==
    /\ \A m \in Messages : m.kind \in {"setDataSource", "Prepare", "Play", "Stop", "PlaybackEos"}
    /\ \A m \in Messages : m.kind = "setDataSource" => m.url \in Urls
    /\ \A m \in Messages : m.kind = "Play" => m.loops \in Nat
    /\ \A m \in Messages : m.kind = "PlaybackEos" => m \in Ends
    /\ \A m \in Messages : m.kind # "PlaybackEos" => m.call \in Calls
BY ConstantsAssumption DEF Messages, Requests, Ends

\* Posting what is a message keeps the queue a queue of messages, within its limit.
LEMMA PostType ==
    ASSUME QueueTypeOK, NEW m \in Messages, ~QueueFull, Post(m)
    PROVE  inbox' \in Seq(Messages) /\ Len(inbox') <= QueueLimit
<1>1. inbox \in Seq(Messages) /\ Len(inbox) \in Nat
    BY LenProperties DEF QueueTypeOK
<1>2. Append(inbox, m) \in Seq(Messages) /\ Len(Append(inbox, m)) = Len(inbox) + 1
    BY <1>1, AppendProperties
<1>3. QED
    BY <1>1, <1>2, ConstantsAssumption DEF Post, QueueFull

\* So does taking the first one, which is handled.
LEMMA TakeType ==
    ASSUME QueueTypeOK, OnNewMessage
    PROVE  QueueTypeOK'
<1>1. inbox \in Seq(Messages) /\ inbox # <<>> /\ Len(inbox) \in Nat /\ Len(inbox) <= QueueLimit
    BY LenProperties DEF QueueTypeOK, OnNewMessage
<1>2. Head(inbox) \in Messages /\ Tail(inbox) \in Seq(Messages) /\ Len(Tail(inbox)) = Len(inbox) - 1
    BY <1>1, HeadTailProperties
<1>3. handler' = [pc |-> Head(inbox).kind, msg |-> Head(inbox)] /\ inbox' = Tail(inbox)
    BY DEF OnNewMessage, Handle
<1>4. Head(inbox).kind \in HandlerPcs
    BY <1>2, MessageTypes DEF HandlerPcs
<1>5. QED
    BY <1>1, <1>2, <1>3, <1>4, ConstantsAssumption DEF QueueTypeOK

\* What the calls have in common.
LEMMA CallForm ==
    ASSUME TypeOK, ClientCalls
    PROVE  /\ client.op = "none" /\ calls < MaxCalls
           /\ \E op \in {"setDataSource", "Prepare", "Play", "Stop", "quit"}, m \in Messages :
                 /\ Request(op, m)
                 /\ m.kind = IF op = "quit" THEN "Stop" ELSE op
                 /\ m.call = calls + 1
                 /\ stopKept' = (stopKept /\ op # "Play")
<1>1. calls \in 0 .. MaxCalls /\ stopKept \in BOOLEAN
    BY DEF TypeOK, ClientTypeOK
<1>2. client.op = "none" /\ calls < MaxCalls /\ calls + 1 \in Calls
    BY <1>1, ConstantsAssumption DEF ClientCalls, setDataSource, Prepare, Play, Stop, quit, Idle, Calls
<1>3. CASE setDataSource
    <2>1. PICK u \in Urls : Request("setDataSource", [kind |-> "setDataSource", call |-> calls + 1, url |-> u])
        BY <1>3 DEF setDataSource
    <2>2. [kind |-> "setDataSource", call |-> calls + 1, url |-> u] \in Messages
        BY <1>2 DEF Messages, Requests
    <2>3. QED
        BY <1>1, <1>2, <1>3, <2>1, <2>2 DEF setDataSource
<1>4. CASE Play
    <2>1. PICK n \in LoopCounts : Request("Play", [kind |-> "Play", call |-> calls + 1, loops |-> n])
        BY <1>4 DEF Play
    <2>2. [kind |-> "Play", call |-> calls + 1, loops |-> n] \in Messages
        BY <1>2 DEF Messages, Requests
    <2>3. QED
        BY <1>1, <1>2, <1>4, <2>1, <2>2 DEF Play
<1>5. CASE Prepare
    <2>1. [kind |-> "Prepare", call |-> calls + 1] \in Messages
        BY <1>2 DEF Messages, Requests
    <2>2. QED
        BY <1>1, <1>2, <1>5, <2>1 DEF Prepare
<1>6. CASE Stop
    <2>1. [kind |-> "Stop", call |-> calls + 1] \in Messages
        BY <1>2 DEF Messages, Requests
    <2>2. QED
        BY <1>1, <1>2, <1>6, <2>1 DEF Stop
<1>7. CASE quit
    <2>1. [kind |-> "Stop", call |-> calls + 1] \in Messages
        BY <1>2 DEF Messages, Requests
    <2>2. QED
        BY <1>1, <1>2, <1>7, <2>1 DEF quit
<1>8. QED
    BY <1>3, <1>4, <1>5, <1>6, <1>7 DEF ClientCalls

\* A request changes the caller's side and posts at most one message.
LEMMA RequestType ==
    ASSUME TypeOK, Idle, NEW op \in {"setDataSource", "Prepare", "Play", "Stop", "quit"},
           NEW m \in Messages, Request(op, m), stopKept' \in BOOLEAN
    PROVE  TypeOK'
<1> USE DEF TypeOK
<1>1. calls' \in 0 .. MaxCalls /\ calls + 1 \in 0 .. MaxCalls
    BY ConstantsAssumption DEF Idle, Request, ClientTypeOK
<1>2. client' \in [op : ClientOps, call : 0 .. MaxCalls]
    <2>1. CASE client' = [op |-> op, call |-> calls + 1]
        BY <1>1, <2>1 DEF ClientOps
    <2>2. CASE client' = [client EXCEPT !.op = IF op = "quit" THEN "exit" ELSE "none"]
        BY <2>2 DEF ClientTypeOK, ClientOps
    <2>3. QED
        BY <2>1, <2>2 DEF Request
<1>3. inbox' \in Seq(Messages) /\ Len(inbox') <= QueueLimit
    <2>1. CASE ~QueueFull
        BY <2>1, PostType DEF Request
    <2>2. CASE QueueFull
        BY <2>2 DEF Request, QueueTypeOK
    <2>3. QED
        BY <2>1, <2>2
<1>4. QueueTypeOK'
    BY <1>3 DEF Request, QueueTypeOK
<1>5. ClientTypeOK'
    BY <1>1, <1>2, ConstantsAssumption DEF Request, ClientTypeOK, Ids
<1>6. SrvTypeOK' /\ PlayerTypeOK' /\ HistoryTypeOK'
    BY DEF Request, SrvTypeOK, PlayerTypeOK, HistoryTypeOK, srvVars, historyVars
<1>7. QED
    BY <1>4, <1>5, <1>6

\* The calls of the application thread.
LEMMA CallType ==
    ASSUME TypeOK, ClientCalls
    PROVE  TypeOK'
<1>1. PICK op \in {"setDataSource", "Prepare", "Play", "Stop", "quit"}, m \in Messages :
          Request(op, m) /\ stopKept' = (stopKept /\ op # "Play")
    BY CallForm
<1>2. Idle /\ stopKept' \in BOOLEAN
    BY <1>1, CallForm DEF Idle, TypeOK, ClientTypeOK
<1>3. QED
    BY <1>1, <1>2, RequestType

\* Their returns, and the end of the thread.
LEMMA ReturnType ==
    ASSUME TypeOK, ClientReturns \/ Quits
    PROVE  TypeOK'
<1> USE DEF TypeOK, srvVars, clientVars, answerVars, historyVars
<1>1. CASE ClientReturns
    <2>1. PICK ok \in BOOLEAN : Return(ok)
        BY <1>1 DEF ClientReturns, Answered, StopSeesIdle, ClientTypeOK
    <2>2. client' \in [op : ClientOps, call : 0 .. MaxCalls]
        BY <2>1 DEF Return, ClientTypeOK, ClientOps
    <2>3. announced' \subseteq 0 .. MaxCalls
        BY <2>1 DEF Return, HistoryTypeOK
    <2>4. ClientTypeOK'
        BY <2>1, <2>2 DEF Return, ClientTypeOK
    <2>5. HistoryTypeOK'
        BY <2>1, <2>3 DEF Return, HistoryTypeOK
    <2>6. SrvTypeOK' /\ QueueTypeOK' /\ PlayerTypeOK'
        BY <2>1 DEF Return, SrvTypeOK, QueueTypeOK, PlayerTypeOK
    <2>7. QED
        BY <2>4, <2>5, <2>6
<1>2. CASE ThreadEnds
    BY <1>2 DEF ThreadEnds, SrvTypeOK, QueueTypeOK, PlayerTypeOK, ClientTypeOK, HistoryTypeOK
<1>3. CASE ExitInstance \/ ExitInstanceEnds
    <2>1. client' \in [op : ClientOps, call : 0 .. MaxCalls]
        BY <1>3 DEF ExitInstance, ExitInstanceEnds, ClientTypeOK, ClientOps
    <2>2. player' \in 0 .. MaxCalls
        BY <1>3, ConstantsAssumption DEF ExitInstance, ExitInstanceEnds, PlayerTypeOK
    <2>3. ClientTypeOK' /\ PlayerTypeOK'
        BY <1>3, <2>1, <2>2 DEF ExitInstance, ExitInstanceEnds, ClientTypeOK, PlayerTypeOK
    <2>4. SrvTypeOK' /\ QueueTypeOK' /\ HistoryTypeOK'
        BY <1>3 DEF ExitInstance, ExitInstanceEnds, SrvTypeOK, QueueTypeOK, HistoryTypeOK
    <2>5. QED
        BY <2>3, <2>4
<1>4. QED
    BY <1>1, <1>2, <1>3 DEF Quits

\* The playback identifier skips 0.
LEMMA NextIdType ==
    ASSUME NEW id \in Ids
    PROVE  NextId(id) \in Ids \ {0}
BY ConstantsAssumption DEF NextId, Ids

\* Each handler handles the messages of its kind.
HandlesItsKind ==
    /\ handler.pc \in {"setDataSource", "Prepare", "Play", "Stop", "PlaybackEos"} =>
           handler.msg.kind = handler.pc
    /\ handler.pc \in {"Play_id", "Play_start"} => handler.msg.kind = "Play"
    /\ handler.pc \in {"Stop_output", "Stop_idle", "Stop_answer"} => handler.msg.kind = "Stop"
    /\ handler.pc \in {"Eos_stop", "Eos_idle"} => handler.msg.kind = "PlaybackEos"

\* What is handled is a message.
LEMMA HandledMessage ==
    ASSUME QueueTypeOK, handler.pc # "rest"
    PROVE  handler \in [pc : HandlerPcs, msg : Messages]
BY DEF QueueTypeOK, Rest

\* Going on in a handler, or resting, keeps the handler's type.
LEMMA GotoType ==
    ASSUME QueueTypeOK, handler.pc # "rest", inbox' = inbox,
           Done \/ (\E pc \in HandlerPcs : Goto(pc))
    PROVE  QueueTypeOK'
<1>1. handler \in [pc : HandlerPcs, msg : Messages]
    BY HandledMessage
<1>2. handler' \in {Rest} \cup [pc : HandlerPcs, msg : Messages]
    BY <1>1 DEF Done, Goto
<1>3. QED
    BY <1>2 DEF QueueTypeOK

\* The answer of a request is of its type.
LEMMA ReplyType ==
    ASSUME QueueTypeOK, handler.pc # "rest", handler.msg.kind # "PlaybackEos", NEW ok \in BOOLEAN,
           Reply(ok)
    PROVE  reply' \in [call : 0 .. MaxCalls, ok : BOOLEAN] /\ handler.msg.call \in Calls
<1>1. handler.msg \in Messages
    BY HandledMessage
<1>2. handler.msg.call \in Calls
    BY <1>1, MessageTypes
<1>3. handler.msg.call \in 0 .. MaxCalls
    BY <1>2, ConstantsAssumption DEF Calls
<1>4. QED
    BY <1>2, <1>3 DEF Reply

\* The handlers of setDataSource, Prepare and Play keep the types.
LEMMA OpenType ==
    ASSUME TypeOK, HandlesItsKind,
           On_setDataSource \/ On_Prepare \/ On_PlayRefused \/ On_Play \/ On_PlayId \/ On_PlayStart
    PROVE  TypeOK'
<1> USE DEF At, srvVars, clientVars, answerVars, historyVars
<1>a. SrvTypeOK /\ QueueTypeOK /\ PlayerTypeOK /\ ClientTypeOK /\ HistoryTypeOK
    BY DEF TypeOK
<1>b. handler.pc # "rest"
    BY DEF On_setDataSource, On_Prepare, On_PlayRefused, On_Play, On_PlayId, On_PlayStart
<1>c. handler.msg \in Messages /\ handler.msg.kind # "PlaybackEos"
    BY <1>a, <1>b, HandledMessage
       DEF HandlesItsKind, On_setDataSource, On_Prepare, On_PlayRefused, On_Play, On_PlayId, On_PlayStart
<1>d. QueueTypeOK'
    BY <1>a, <1>b, GotoType DEF On_setDataSource, On_Prepare, On_PlayRefused, On_Play, On_PlayId,
       On_PlayStart, HandlerPcs
<1>e. handler.msg.call \in 0 .. MaxCalls
    BY <1>c, MessageTypes, ConstantsAssumption DEF Calls
<1>1. CASE On_setDataSource
    <2>1. m_sDataSrcUrl' \in Urls \cup {NoUrl}
        BY <1>1, <1>a, <1>c, MessageTypes DEF On_setDataSource, HandlesItsKind, SrvTypeOK
    <2>2. reply' \in [call : 0 .. MaxCalls, ok : BOOLEAN]
        BY <1>1, <1>a, <1>b, <1>c, ReplyType DEF On_setDataSource
    <2>3. SrvTypeOK' /\ ClientTypeOK'
        BY <1>1, <1>a, <2>1, <2>2 DEF On_setDataSource, SrvTypeOK, ClientTypeOK
    <2>4. PlayerTypeOK' /\ HistoryTypeOK'
        BY <1>1, <1>a DEF On_setDataSource, PlayerTypeOK, HistoryTypeOK
    <2>5. QED
        BY <1>d, <2>3, <2>4 DEF TypeOK
<1>2. CASE On_Prepare
    <2>1. reply' \in [call : 0 .. MaxCalls, ok : BOOLEAN]
        BY <1>2, <1>a, <1>b, <1>c, ReplyType DEF On_Prepare
    <2>2. SrvTypeOK' /\ ClientTypeOK'
        BY <1>2, <1>a, <2>1 DEF On_Prepare, SrvTypeOK, ClientTypeOK, Statuses
    <2>3. PlayerTypeOK' /\ HistoryTypeOK'
        BY <1>2, <1>a DEF On_Prepare, PlayerTypeOK, HistoryTypeOK
    <2>4. QED
        BY <1>d, <2>2, <2>3 DEF TypeOK
<1>3. CASE On_PlayRefused
    <2>1. reply' \in [call : 0 .. MaxCalls, ok : BOOLEAN]
        BY <1>3, <1>a, <1>b, <1>c, ReplyType DEF On_PlayRefused
    <2>2. SrvTypeOK' /\ ClientTypeOK'
        BY <1>3, <1>a, <2>1 DEF On_PlayRefused, SrvTypeOK, ClientTypeOK
    <2>3. PlayerTypeOK' /\ HistoryTypeOK'
        BY <1>3, <1>a DEF On_PlayRefused, PlayerTypeOK, HistoryTypeOK
    <2>4. QED
        BY <1>d, <2>2, <2>3 DEF TypeOK
<1>4. CASE On_Play
    <2>1. SrvTypeOK' /\ ClientTypeOK'
        BY <1>4, <1>a DEF On_Play, SrvTypeOK, ClientTypeOK, Statuses
    <2>2. PlayerTypeOK' /\ HistoryTypeOK'
        BY <1>4, <1>a DEF On_Play, PlayerTypeOK, HistoryTypeOK
    <2>3. QED
        BY <1>d, <2>1, <2>2 DEF TypeOK
<1>5. CASE On_PlayId
    <2>1. m_PlaybackId' \in Ids
        BY <1>5, <1>a, NextIdType DEF On_PlayId, SrvTypeOK
    <2>2. SrvTypeOK' /\ ClientTypeOK'
        BY <1>5, <1>a, <2>1 DEF On_PlayId, SrvTypeOK, ClientTypeOK
    <2>3. HistoryTypeOK'
        BY <1>5, <1>a, <1>e DEF On_PlayId, HistoryTypeOK, SrvTypeOK
    <2>4. PlayerTypeOK'
        BY <1>5, <1>a DEF On_PlayId, PlayerTypeOK
    <2>5. QED
        BY <1>d, <2>2, <2>3, <2>4 DEF TypeOK
<1>6. CASE On_PlayStart
    <2>1. handler.msg.loops \in Nat
        BY <1>6, <1>c, MessageTypes DEF On_PlayStart, HandlesItsKind
    <2>2. PICK ok \in BOOLEAN : Reply(ok) /\ player' = IF ok THEN handler.msg.call ELSE player
        BY <1>6 DEF On_PlayStart
    <2>3. reply' \in [call : 0 .. MaxCalls, ok : BOOLEAN]
        BY <1>a, <1>b, <1>c, <2>2, ReplyType
    <2>4. SrvTypeOK' /\ ClientTypeOK'
        BY <1>6, <1>a, <2>1, <2>3 DEF On_PlayStart, SrvTypeOK, ClientTypeOK
    <2>5. PlayerTypeOK'
        BY <1>6, <1>a, <1>e, <2>2 DEF On_PlayStart, PlayerTypeOK
    <2>6. HistoryTypeOK'
        BY <1>6, <1>a, <2>1 DEF On_PlayStart, HistoryTypeOK
    <2>7. QED
        BY <1>d, <2>4, <2>5, <2>6 DEF TypeOK
<1>7. QED
    BY <1>1, <1>2, <1>3, <1>4, <1>5, <1>6

\* So do those of Stop and of an end of stream.
LEMMA CloseType ==
    ASSUME TypeOK, HandlesItsKind,
           \/ On_StopIdle \/ On_Stop \/ On_StopOutput \/ On_StopStatus \/ On_StopAnswer
           \/ On_PlaybackEosIgnored \/ On_PlaybackEos \/ On_PlaybackEosStop \/ On_PlaybackEosStatus
    PROVE  TypeOK'
<1> USE DEF At, srvVars, clientVars, answerVars, historyVars
<1>a. SrvTypeOK /\ QueueTypeOK /\ PlayerTypeOK /\ ClientTypeOK /\ HistoryTypeOK
    BY DEF TypeOK
<1>b. handler.pc # "rest"
    BY DEF On_StopIdle, On_Stop, On_StopOutput, On_StopStatus, On_StopAnswer, On_PlaybackEosIgnored,
           On_PlaybackEos, On_PlaybackEosStop, On_PlaybackEosStatus, StopPlayer
<1>d. QueueTypeOK'
    BY <1>a, <1>b, GotoType
       DEF On_StopIdle, On_Stop, On_StopOutput, On_StopStatus, On_StopAnswer, On_PlaybackEosIgnored,
           On_PlaybackEos, On_PlaybackEosStop, On_PlaybackEosStatus, StopPlayer, HandlerPcs
<1>1. CASE On_StopIdle \/ On_PlaybackEosIgnored
    BY <1>1, <1>a, <1>d DEF On_StopIdle, On_PlaybackEosIgnored, TypeOK, SrvTypeOK, PlayerTypeOK,
                            ClientTypeOK, HistoryTypeOK
<1>2. CASE On_Stop \/ On_PlaybackEosStop
    <2>1. player' \in 0 .. MaxCalls
        BY <1>2, ConstantsAssumption DEF On_Stop, On_PlaybackEosStop, StopPlayer
    <2>2. QED
        BY <1>2, <1>a, <1>d, <2>1 DEF On_Stop, On_PlaybackEosStop, StopPlayer, TypeOK, SrvTypeOK,
                                      PlayerTypeOK, ClientTypeOK, HistoryTypeOK
<1>3. CASE On_StopOutput
    <2>1. ClientTypeOK'
        BY <1>3, <1>a DEF On_StopOutput, SrvTypeOK, ClientTypeOK
    <2>2. SrvTypeOK' /\ PlayerTypeOK' /\ HistoryTypeOK'
        BY <1>3, <1>a DEF On_StopOutput, SrvTypeOK, PlayerTypeOK, HistoryTypeOK
    <2>3. QED
        BY <1>d, <2>1, <2>2 DEF TypeOK
<1>4. CASE On_StopStatus
    <2>1. SrvTypeOK' /\ ClientTypeOK'
        BY <1>4, <1>a DEF On_StopStatus, SrvTypeOK, ClientTypeOK, Statuses
    <2>2. PlayerTypeOK' /\ HistoryTypeOK'
        BY <1>4, <1>a DEF On_StopStatus, PlayerTypeOK, HistoryTypeOK
    <2>3. QED
        BY <1>d, <2>1, <2>2 DEF TypeOK
<1>5. CASE On_StopAnswer
    <2>1. handler.msg.kind # "PlaybackEos"
        BY <1>5 DEF On_StopAnswer, HandlesItsKind
    <2>2. reply' \in [call : 0 .. MaxCalls, ok : BOOLEAN]
        BY <1>5, <1>a, <1>b, <2>1, ReplyType DEF On_StopAnswer
    <2>3. SrvTypeOK' /\ ClientTypeOK'
        BY <1>5, <1>a, <2>2 DEF On_StopAnswer, SrvTypeOK, ClientTypeOK
    <2>4. PlayerTypeOK' /\ HistoryTypeOK'
        BY <1>5, <1>a DEF On_StopAnswer, PlayerTypeOK, HistoryTypeOK
    <2>5. QED
        BY <1>d, <2>3, <2>4 DEF TypeOK
<1>6. CASE On_PlaybackEos
    <2>1. m_iRemaingLoopCnt' \in Nat
        BY <1>6, <1>a DEF On_PlaybackEos, Decremented, SrvTypeOK
    <2>2. SrvTypeOK' /\ ClientTypeOK'
        BY <1>6, <1>a, <2>1 DEF On_PlaybackEos, SrvTypeOK, ClientTypeOK
    <2>3. PlayerTypeOK' /\ HistoryTypeOK'
        BY <1>6, <1>a DEF On_PlaybackEos, PlayerTypeOK, HistoryTypeOK
    <2>4. QED
        BY <1>d, <2>2, <2>3 DEF TypeOK
<1>7. CASE On_PlaybackEosStatus
    <2>1. HistoryTypeOK'
        BY <1>7, <1>a DEF On_PlaybackEosStatus, HistoryTypeOK
    <2>2. SrvTypeOK' /\ ClientTypeOK'
        BY <1>7, <1>a DEF On_PlaybackEosStatus, SrvTypeOK, ClientTypeOK, Statuses
    <2>3. PlayerTypeOK'
        BY <1>7, <1>a DEF On_PlaybackEosStatus, PlayerTypeOK
    <2>4. QED
        BY <1>d, <2>1, <2>2, <2>3 DEF TypeOK
<1>8. QED
    BY <1>1, <1>2, <1>3, <1>4, <1>5, <1>6, <1>7

\* And so does the Nexus thread.
LEMMA CallbackType ==
    ASSUME TypeOK, EndOfStream \/ Callbacks
    PROVE  TypeOK'
<1> USE DEF srvVars, clientVars, answerVars, historyVars
<1>a. SrvTypeOK /\ QueueTypeOK /\ PlayerTypeOK /\ ClientTypeOK /\ HistoryTypeOK
    BY DEF TypeOK
<1>1. CASE EndOfStream
    <2>1. ends' \in Nat /\ callback' = [pc |-> "onPlaybackEos"]
        BY <1>1, <1>a DEF EndOfStream, HistoryTypeOK
    <2>2. SrvTypeOK' /\ QueueTypeOK' /\ ClientTypeOK'
        BY <1>1, <1>a DEF EndOfStream, SrvTypeOK, QueueTypeOK, ClientTypeOK
    <2>3. PlayerTypeOK'
        BY <1>1, <1>a, <2>1 DEF EndOfStream, PlayerTypeOK
    <2>4. HistoryTypeOK'
        BY <1>1, <1>a, <2>1 DEF EndOfStream, HistoryTypeOK
    <2>5. QED
        BY <2>2, <2>3, <2>4 DEF TypeOK
<1>2. CASE onPlaybackEos
    <2>1. [kind |-> "PlaybackEos", id |-> m_PlaybackId, started |-> started] \in Ends
        BY <1>a DEF Ends, SrvTypeOK, HistoryTypeOK
    <2>2. callback' \in [pc : {"post"}, msg : Ends]
        BY <1>2, <2>1 DEF onPlaybackEos
    <2>3. PlayerTypeOK'
        BY <1>2, <1>a, <2>2 DEF onPlaybackEos, PlayerTypeOK
    <2>4. SrvTypeOK' /\ QueueTypeOK' /\ ClientTypeOK' /\ HistoryTypeOK'
        BY <1>2, <1>a DEF onPlaybackEos, SrvTypeOK, QueueTypeOK, ClientTypeOK, HistoryTypeOK
    <2>5. QED
        BY <2>3, <2>4 DEF TypeOK
<1>3. CASE PostPlaybackEos
    <2>1. callback.msg \in Messages
        BY <1>3, <1>a DEF PostPlaybackEos, PlayerTypeOK, NoCallback, Messages
    <2>2. inbox' \in Seq(Messages) /\ Len(inbox') <= QueueLimit
        BY <1>3, <1>a, <2>1, PostType DEF PostPlaybackEos, QueueTypeOK
    <2>3. QueueTypeOK' /\ PlayerTypeOK'
        BY <1>3, <1>a, <2>2 DEF PostPlaybackEos, QueueTypeOK, PlayerTypeOK
    <2>4. SrvTypeOK' /\ ClientTypeOK' /\ HistoryTypeOK'
        BY <1>3, <1>a DEF PostPlaybackEos, SrvTypeOK, ClientTypeOK, HistoryTypeOK
    <2>5. QED
        BY <2>3, <2>4 DEF TypeOK
<1>4. QED
    BY <1>1, <1>2, <1>3 DEF Callbacks

\* A message goes to the handler of its kind, and on through the steps of that handler.
LEMMA KindStep ==
    ASSUME TypeOK, HandlesItsKind, [Next]_vars
    PROVE  HandlesItsKind'
<1> USE DEF HandlesItsKind, At, Done, Goto, Rest
<1>a. handler.pc # "rest" => handler \in [pc : HandlerPcs, msg : Messages]
    BY HandledMessage DEF TypeOK
<1>b. ASSUME handler' = handler PROVE HandlesItsKind'
    BY <1>b
<1>1. CASE OnNewMessage
    <2>1. handler' = [pc |-> Head(inbox).kind, msg |-> Head(inbox)]
        BY <1>1 DEF OnNewMessage, Handle
    <2>2. Head(inbox) \in Messages
        BY <1>1, HeadTailProperties DEF OnNewMessage, TypeOK, QueueTypeOK
    <2>3. QED
        BY <2>1, <2>2, MessageTypes
<1>2. CASE On_setDataSource \/ On_Prepare \/ On_PlayRefused \/ On_PlayStart \/ On_StopAnswer
           \/ On_PlaybackEosIgnored \/ On_PlaybackEosStatus
    <2>1. handler' = [pc |-> "rest"]
        BY <1>2 DEF On_setDataSource, On_Prepare, On_PlayRefused, On_PlayStart, On_StopAnswer,
                    On_PlaybackEosIgnored, On_PlaybackEosStatus
    <2>2. QED
        BY <2>1
<1>3. CASE On_Play \/ On_PlayId
    BY <1>3, <1>a DEF On_Play, On_PlayId
<1>4. CASE On_StopIdle \/ On_Stop \/ On_StopOutput \/ On_StopStatus
    BY <1>4, <1>a DEF On_StopIdle, On_Stop, On_StopOutput, On_StopStatus, StopPlayer
<1>5. CASE On_PlaybackEos \/ On_PlaybackEosStop
    BY <1>5, <1>a DEF On_PlaybackEos, On_PlaybackEosStop, StopPlayer
<1>6. CASE ClientCalls \/ ClientReturns \/ Quits \/ EndOfStream \/ Callbacks
    BY <1>6, <1>b DEF ClientCalls, setDataSource, Prepare, Play, Stop, quit, Request, ClientReturns,
       Answered, StopSeesIdle, Return, Quits, ThreadEnds, ExitInstance, ExitInstanceEnds, EndOfStream,
       Callbacks, onPlaybackEos, PostPlaybackEos
<1>7. CASE UNCHANGED vars
    BY <1>7, <1>b DEF vars
<1>8. QED
    BY <1>1, <1>2, <1>3, <1>4, <1>5, <1>6, <1>7 DEF Next, Handlers

\* Every step keeps the types.
LEMMA TypeStep ==
    ASSUME TypeOK, HandlesItsKind, [Next]_vars
    PROVE  TypeOK'
<1>1. CASE OnNewMessage
    <2>1. QueueTypeOK'
        BY <1>1, TakeType DEF TypeOK
    <2>2. QED
        BY <1>1, <2>1 DEF OnNewMessage, TypeOK, SrvTypeOK, PlayerTypeOK, ClientTypeOK, HistoryTypeOK,
                          srvVars, clientVars, answerVars, historyVars
<1>2. CASE UNCHANGED vars
    BY <1>2 DEF vars, TypeOK, SrvTypeOK, QueueTypeOK, PlayerTypeOK, ClientTypeOK, HistoryTypeOK,
                srvVars, clientVars, answerVars, historyVars
<1>3. QED
    BY <1>1, <1>2, CallType, ReturnType, OpenType, CloseType, CallbackType DEF Next, Handlers

\* The player begins idle.
LEMMA InitType == Init => TypeOK /\ HandlesItsKind
<1> SUFFICES ASSUME Init PROVE TypeOK /\ HandlesItsKind
    OBVIOUS
<1>1. SrvTypeOK
    BY ConstantsAssumption DEF Init, SrvTypeOK, Statuses, Ids
<1>2. QueueTypeOK
    BY ConstantsAssumption DEF Init, QueueTypeOK
<1>3. PlayerTypeOK
    BY ConstantsAssumption DEF Init, PlayerTypeOK
<1>4. ClientTypeOK
    <2>1. client = [op |-> "none", call |-> 0] /\ reply = [call |-> 0, ok |-> TRUE]
        BY DEF Init
    <2>2. 0 \in 0 .. MaxCalls /\ 0 \in Ids
        BY ConstantsAssumption DEF Ids
    <2>3. client \in [op : ClientOps, call : 0 .. MaxCalls] /\ reply \in [call : 0 .. MaxCalls, ok : BOOLEAN]
        BY <2>1, <2>2 DEF ClientOps
    <2>4. QED
        BY <2>2, <2>3 DEF Init, ClientTypeOK
<1>5. HistoryTypeOK
    BY ConstantsAssumption DEF Init, HistoryTypeOK
<1>6. HandlesItsKind
    BY DEF Init, HandlesItsKind, Rest
<1>7. QED
    BY <1>1, <1>2, <1>3, <1>4, <1>5, <1>6 DEF TypeOK

\* The two together are inductive.
LEMMA TypeInv == Spec => [](TypeOK /\ HandlesItsKind)
BY InitType, TypeStep, KindStep, PTL DEF Spec

\* The state of the player process keeps its types, whatever the application calls.
THEOREM TypeCorrect == Spec => []TypeOK
BY TypeInv, PTL

-----------------------------------------------------------------------------
(* The player follows the status.                                          *)

\* The player runs only inside PLAYING, and each step of a handler knows whether it runs.
PlayerFollowsStatus ==
    /\ player # 0 => m_iPlayStatus = "PLAYING"
    /\ handler.pc \in {"Play_id", "Play_start"} => m_iPlayStatus = "PLAYING"
    /\ handler.pc \in {"Stop_output", "Stop_idle", "Eos_idle"} => player = 0
    /\ handler.pc = "Stop_answer" => m_iPlayStatus = "IDLE"

\* Only the handler's thread sets the status and starts the player.
LEMMA PlayerStep ==
    ASSUME TypeOK, PlayerFollowsStatus, [Next]_vars
    PROVE  PlayerFollowsStatus'
<1> USE DEF PlayerFollowsStatus, At, Done, Goto, Rest, srvVars, clientVars, answerVars, historyVars
<1>a. handler.pc # "rest" => handler \in [pc : HandlerPcs, msg : Messages]
    BY HandledMessage DEF TypeOK
<1>1. CASE OnNewMessage
    <2>1. handler' = [pc |-> Head(inbox).kind, msg |-> Head(inbox)]
        BY <1>1 DEF OnNewMessage, Handle
    <2>2. Head(inbox) \in Messages
        BY <1>1, HeadTailProperties DEF OnNewMessage, TypeOK, QueueTypeOK
    <2>3. handler'.pc \in {"setDataSource", "Prepare", "Play", "Stop", "PlaybackEos"}
        BY <2>1, <2>2, MessageTypes
    <2>4. QED
        BY <1>1, <2>3 DEF OnNewMessage
<1>2. CASE On_setDataSource \/ On_Prepare \/ On_PlayRefused \/ On_StopAnswer \/ On_PlaybackEosIgnored
    <2>1. handler' = [pc |-> "rest"]
        BY <1>2 DEF On_setDataSource, On_Prepare, On_PlayRefused, On_StopAnswer, On_PlaybackEosIgnored
    <2>2. player' = player /\ (m_iPlayStatus = "PLAYING" => m_iPlayStatus' = "PLAYING")
        BY <1>2 DEF On_setDataSource, On_Prepare, On_PlayRefused, On_StopAnswer, On_PlaybackEosIgnored
    <2>3. QED
        BY <2>1, <2>2
<1>3. CASE On_Play \/ On_PlayId
    BY <1>3, <1>a DEF On_Play, On_PlayId
<1>4. CASE On_PlayStart
    <2>1. handler'.pc = "rest" /\ m_iPlayStatus = "PLAYING" /\ m_iPlayStatus' = m_iPlayStatus
        BY <1>4 DEF On_PlayStart
    <2>2. QED
        BY <2>1
<1>5. CASE On_StopIdle \/ On_Stop \/ On_StopOutput
    BY <1>5, <1>a DEF On_StopIdle, On_Stop, On_StopOutput, StopPlayer
<1>6. CASE On_StopStatus
    BY <1>6, <1>a DEF On_StopStatus
<1>7. CASE On_PlaybackEos
    BY <1>7, <1>a DEF On_PlaybackEos
<1>8. CASE On_PlaybackEosStop
    BY <1>8, <1>a DEF On_PlaybackEosStop, StopPlayer
<1>9. CASE On_PlaybackEosStatus
    <2>1. handler'.pc = "rest" /\ player = 0 /\ player' = player
        BY <1>9 DEF On_PlaybackEosStatus
    <2>2. QED
        BY <2>1
<1>10. CASE ClientCalls \/ ClientReturns \/ ThreadEnds \/ ExitInstanceEnds \/ EndOfStream \/ Callbacks
    <2>1. UNCHANGED <<handler, player, m_iPlayStatus>>
        BY <1>10 DEF ClientCalls, setDataSource, Prepare, Play, Stop, quit, Request, ClientReturns,
           Answered, StopSeesIdle, Return, ThreadEnds, ExitInstanceEnds, EndOfStream, Callbacks,
           onPlaybackEos, PostPlaybackEos
    <2>2. QED
        BY <2>1
<1>11. CASE ExitInstance
    BY <1>11 DEF ExitInstance
<1>12. CASE UNCHANGED vars
    BY <1>12 DEF vars
<1>13. QED
    BY <1>1, <1>2, <1>3, <1>4, <1>5, <1>6, <1>7, <1>8, <1>9, <1>10, <1>11, <1>12
       DEF Next, Handlers, Quits

\* So it holds in every state.
LEMMA PlayerInv == Spec => []PlayerFollowsStatus
<1>1. Init => PlayerFollowsStatus
    BY DEF Init, PlayerFollowsStatus, Rest
<1>2. QED
    BY <1>1, PlayerStep, TypeCorrect, PTL DEF Spec

\* At every step of every handler the player runs only while the status says PLAYING.
THEOREM PlayerRunsOnlyPlaying == Spec => []PlayerRunsOnlyWhilePlaying
<1>1. PlayerFollowsStatus => PlayerRunsOnlyWhilePlaying
    BY DEF PlayerFollowsStatus, PlayerRunsOnlyWhilePlaying
<1>2. QED
    BY <1>1, PlayerInv, PTL

\* The source does not change while a playback is on: setDataSource is refused.
THEOREM SourceIsKept == Spec => []SourceIsTheOnePlayed
<1>1. Init => SourceIsTheOnePlayed
    BY DEF Init, SourceIsTheOnePlayed
<1>2. ASSUME TypeOK, PlayerFollowsStatus, SourceIsTheOnePlayed, [Next]_vars
      PROVE  SourceIsTheOnePlayed'
    <2> USE DEF SourceIsTheOnePlayed, At, Done, Goto, Rest, srvVars, clientVars, answerVars, historyVars
    <2>a. handler.pc # "rest" => handler \in [pc : HandlerPcs, msg : Messages]
        BY <1>2, HandledMessage DEF TypeOK
    <2>1. CASE OnNewMessage
        BY <1>2, <2>1 DEF OnNewMessage, PlayerFollowsStatus
    <2>2. CASE On_setDataSource \/ On_Prepare \/ On_PlayRefused \/ On_StopAnswer
               \/ On_PlaybackEosIgnored \/ On_PlaybackEosStatus \/ On_PlayStart
        BY <1>2, <2>2 DEF On_setDataSource, On_Prepare, On_PlayRefused, On_StopAnswer,
           On_PlaybackEosIgnored, On_PlaybackEosStatus, On_PlayStart
    <2>3. CASE On_Play
        <3>1. handler'.pc = "Play_id"
            BY <2>3, <2>a DEF On_Play
        <3>2. QED
            BY <3>1
    <2>4. CASE On_PlayId
        BY <2>4 DEF On_PlayId
    <2>5. CASE On_StopIdle \/ On_Stop \/ On_StopOutput \/ On_StopStatus \/ On_PlaybackEos
               \/ On_PlaybackEosStop
        BY <1>2, <2>5 DEF On_StopIdle, On_Stop, On_StopOutput, On_StopStatus, On_PlaybackEos,
           On_PlaybackEosStop, StopPlayer
    <2>6. CASE ClientCalls \/ ClientReturns \/ Quits \/ EndOfStream \/ Callbacks
        <3>1. UNCHANGED <<handler, m_sDataSrcUrl, source, m_iPlayStatus>>
            BY <2>6 DEF ClientCalls, setDataSource, Prepare, Play, Stop, quit, Request, ClientReturns,
               Answered, StopSeesIdle, Return, Quits, ThreadEnds, ExitInstance, ExitInstanceEnds,
               EndOfStream, Callbacks, onPlaybackEos, PostPlaybackEos
        <3>2. QED
            BY <1>2, <3>1
    <2>7. CASE UNCHANGED vars
        BY <1>2, <2>7 DEF vars
    <2>8. QED
        BY <1>2, <2>1, <2>2, <2>3, <2>4, <2>5, <2>6, <2>7 DEF Next, Handlers
<1>3. QED
    BY <1>1, <1>2, TypeCorrect, PlayerInv, PTL DEF Spec

-----------------------------------------------------------------------------
(* Calls and answers.                                                      *)

Items(s) == {s[i] : i \in DOMAIN s}
IsRequest(m) == m.kind # "PlaybackEos"
Busy == handler.pc # "rest"

InOrder(s) ==
    \A i, j \in DOMAIN s : i < j /\ IsRequest(s[i]) /\ IsRequest(s[j]) => s[i].call < s[j].call

\* m comes before every request of s.
Precedes(m, s) == \A x \in Items(s) : IsRequest(m) /\ IsRequest(x) => m.call < x.call

\* Requests that wait, the one that is handled among them.
Pending == {m \in Items(inbox) : IsRequest(m)} \cup {m \in {handler.msg} : Busy /\ IsRequest(m)}

\* Requests wait in the order of their calls, the one that is handled before the others.
RequestsInOrder == InOrder(inbox) /\ (Busy => Precedes(handler.msg, inbox))

\* What waits was called before.
CalledBefore ==
    /\ reply.call <= client.call /\ client.call <= calls
    /\ \A m \in Pending : m.call <= client.call

\* The application waits in the call m and has no answer yet.
Awaited(m, ops) == m.call = client.call /\ client.op \in ops /\ reply.call # client.call

\* What waits and is no Stop is the call the application waits in.
OnlyStopsAreLeftBehind == \A m \in Pending : m.kind # "Stop" => Awaited(m, {m.kind})

\* A Stop that its caller gave up waits only while the status is IDLE.
StopsAreCurrent ==
    m_iPlayStatus # "IDLE" => \A m \in Pending : m.kind = "Stop" => Awaited(m, {"Stop", "quit"})

CallInv == RequestsInOrder /\ CalledBefore /\ OnlyStopsAreLeftBehind /\ StopsAreCurrent

\* A message that is posted comes last.
LEMMA PostOrder ==
    ASSUME NEW s \in Seq(Messages), NEW m \in Messages
    PROVE  /\ Items(Append(s, m)) = Items(s) \cup {m}
           /\ InOrder(s) /\ (\A x \in Items(s) : IsRequest(x) /\ IsRequest(m) => x.call < m.call)
                  => InOrder(Append(s, m))
<1>1. /\ Len(s) \in Nat /\ DOMAIN s = 1 .. Len(s)
      /\ DOMAIN Append(s, m) = 1 .. Len(s) + 1
      /\ \A i \in 1 .. Len(s) : Append(s, m)[i] = s[i]
      /\ Append(s, m)[Len(s) + 1] = m
    BY AppendProperties, LenProperties
<1>2. \A i \in 1 .. Len(s) + 1 : i \in 1 .. Len(s) \/ i = Len(s) + 1
    BY <1>1
<1>3. Items(Append(s, m)) = Items(s) \cup {m}
    <2>1. Items(Append(s, m)) \subseteq Items(s) \cup {m}
        BY <1>1, <1>2 DEF Items
    <2>2. 1 .. Len(s) \subseteq 1 .. Len(s) + 1 /\ Len(s) + 1 \in 1 .. Len(s) + 1
        BY <1>1
    <2>3. \A x \in Items(s) : x \in Items(Append(s, m))
        BY <1>1, <2>2 DEF Items
    <2>4. m \in Items(Append(s, m))
        BY <1>1, <2>2 DEF Items
    <2>5. QED
        BY <2>1, <2>3, <2>4
<1>4. ASSUME InOrder(s), \A x \in Items(s) : IsRequest(x) /\ IsRequest(m) => x.call < m.call,
             NEW i \in 1 .. Len(s) + 1, NEW j \in 1 .. Len(s) + 1, i < j,
             IsRequest(Append(s, m)[i]), IsRequest(Append(s, m)[j])
      PROVE  Append(s, m)[i].call < Append(s, m)[j].call
    <2>1. i \in 1 .. Len(s)
        BY <1>1, <1>4
    <2>2. CASE j \in 1 .. Len(s)
        BY <1>1, <1>4, <2>1, <2>2 DEF InOrder
    <2>3. CASE j = Len(s) + 1
        BY <1>1, <1>4, <2>1, <2>3 DEF Items
    <2>4. QED
        BY <1>2, <2>2, <2>3
<1>5. QED
    BY <1>1, <1>3, <1>4 DEF InOrder

\* The message that is taken precedes the others.
LEMMA TakeOrder ==
    ASSUME NEW s \in Seq(Messages), s # <<>>
    PROVE  /\ Items(s) = {Head(s)} \cup Items(Tail(s))
           /\ InOrder(s) => InOrder(Tail(s)) /\ Precedes(Head(s), Tail(s))
<1>1. /\ Len(s) \in Nat /\ Len(s) # 0 /\ DOMAIN s = 1 .. Len(s)
      /\ DOMAIN Tail(s) = 1 .. Len(s) - 1
      /\ \A i \in 1 .. Len(s) - 1 : Tail(s)[i] = s[i + 1]
      /\ Head(s) = s[1]
    BY HeadTailProperties, LenProperties, EmptySeq
<1>2. \A i \in 1 .. Len(s) - 1 : i + 1 \in 1 .. Len(s) /\ 1 < i + 1
    BY <1>1
<1>3. \A i \in 1 .. Len(s) : i = 1 \/ (i - 1 \in 1 .. Len(s) - 1 /\ (i - 1) + 1 = i)
    BY <1>1
<1>4. 1 \in 1 .. Len(s)
    BY <1>1
<1>5. Items(s) = {Head(s)} \cup Items(Tail(s))
    <2>1. \A i \in 1 .. Len(s) : s[i] \in {Head(s)} \cup Items(Tail(s))
        BY <1>1, <1>3, ZenonT(40) DEF Items
    <2>2. ASSUME NEW x \in Items(Tail(s)) PROVE x \in Items(s)
        <3>1. PICK i \in 1 .. Len(s) - 1 : x = Tail(s)[i]
            BY <1>1 DEF Items
        <3>2. x = s[i + 1] /\ i + 1 \in DOMAIN s
            BY <1>1, <1>2, <3>1
        <3>3. QED
            BY <3>2 DEF Items
    <2>3. Head(s) \in Items(s)
        BY <1>1, <1>4 DEF Items
    <2>4. Items(s) \subseteq {Head(s)} \cup Items(Tail(s))
        BY <1>1, <2>1 DEF Items
    <2>5. QED
        BY <2>2, <2>3, <2>4
<1>6. ASSUME InOrder(s)
      PROVE  InOrder(Tail(s)) /\ Precedes(Head(s), Tail(s))
    <2>1. ASSUME NEW i \in 1 .. Len(s) - 1, NEW j \in 1 .. Len(s) - 1, i < j,
                 IsRequest(Tail(s)[i]), IsRequest(Tail(s)[j])
          PROVE  Tail(s)[i].call < Tail(s)[j].call
        <3>1. i + 1 \in DOMAIN s /\ j + 1 \in DOMAIN s /\ i + 1 < j + 1
            BY <1>1, <1>2, <2>1
        <3>2. Tail(s)[i] = s[i + 1] /\ Tail(s)[j] = s[j + 1]
            BY <1>1
        <3>3. QED
            BY <1>6, <2>1, <3>1, <3>2 DEF InOrder
    <2>2. Precedes(Head(s), Tail(s))
        BY <1>1, <1>2, <1>4, <1>6 DEF InOrder, Precedes, Items
    <2>3. QED
        BY <1>1, <2>1, <2>2 DEF InOrder
<1>7. QED
    BY <1>5, <1>6

\* What is pending is a request that was posted.
LEMMA PendingTypes ==
    ASSUME TypeOK
    PROVE  /\ Items(inbox) \subseteq Messages
           /\ Pending \subseteq Messages
           /\ \A m \in Pending : m.call \in Nat /\ m.kind # "PlaybackEos"
           /\ client.call \in Nat /\ reply.call \in Nat /\ calls \in Nat /\ calls <= MaxCalls
<1>1. Items(inbox) \subseteq Messages
    BY ElementOfSeq, LenProperties DEF Items, TypeOK, QueueTypeOK
<1>2. Busy => handler.msg \in Messages
    BY HandledMessage DEF Busy, TypeOK
<1>3. Pending \subseteq Messages
    BY <1>1, <1>2 DEF Pending
<1>4. \A m \in Pending : m.kind # "PlaybackEos"
    BY DEF Pending, IsRequest
<1>5. \A m \in Pending : m.call \in Nat
    BY <1>3, <1>4, MessageTypes DEF Calls
<1>6. client.call \in Nat /\ reply.call \in Nat /\ calls \in Nat /\ calls <= MaxCalls
    BY ConstantsAssumption DEF TypeOK, ClientTypeOK
<1>7. QED
    BY <1>1, <1>3, <1>4, <1>5, <1>6

\* A new call finds nothing pending but Stops that were given up, while the status is IDLE.
LEMMA RequestCall ==
    ASSUME TypeOK, CallInv, client.op = "none",
           NEW op \in {"setDataSource", "Prepare", "Play", "Stop", "quit"}, NEW m \in Messages,
           m.kind = IF op = "quit" THEN "Stop" ELSE op, m.call = calls + 1, Request(op, m)
    PROVE  CallInv'
<1> USE DEF srvVars, historyVars
<1>1. /\ calls' = calls + 1 /\ handler' = handler /\ reply' = reply
      /\ m_iPlayStatus' = m_iPlayStatus /\ Busy' = Busy
    BY DEF Request, Busy
<1>2. \A x \in Pending : x.kind = "Stop" /\ m_iPlayStatus = "IDLE" /\ x.call <= client.call
    <2>1. \A x \in Pending : x.kind # "none"
        BY PendingTypes, MessageTypes
    <2>2. \A x \in Pending : x.kind = "Stop"
        BY <2>1 DEF CallInv, OnlyStopsAreLeftBehind, Awaited
    <2>3. \A x \in Pending : m_iPlayStatus = "IDLE"
        BY <2>2 DEF CallInv, StopsAreCurrent, Awaited
    <2>4. QED
        BY <2>2, <2>3 DEF CallInv, CalledBefore
<1>3. reply.call <= client.call /\ client.call <= calls
    BY DEF CallInv, CalledBefore
<1>4. inbox \in Seq(Messages) /\ IsRequest(m)
    BY DEF TypeOK, QueueTypeOK, IsRequest
<1>5. CASE Post(m) /\ client' = [op |-> op, call |-> calls + 1]
    <2>1. client'.call = calls + 1 /\ client'.op = op /\ inbox' = Append(inbox, m)
        BY <1>5 DEF Post
    <2>2. Items(inbox') = Items(inbox) \cup {m}
        BY <1>4, <2>1, PostOrder
    <2>3. Pending' \subseteq Pending \cup {m}
        BY <1>1, <2>2 DEF Pending
    <2>4. \A x \in Pending : x.call < m.call
        BY <1>2, <1>3, PendingTypes
    <2>5. InOrder(inbox')
        BY <1>4, <2>1, <2>4, PostOrder DEF CallInv, RequestsInOrder, Pending
    <2>7. Busy => Precedes(handler.msg, inbox')
        BY <2>2, <2>4 DEF CallInv, RequestsInOrder, Precedes, Pending
    <2>8. RequestsInOrder'
        BY <1>1, <2>5, <2>7 DEF RequestsInOrder
    <2>9. CalledBefore'
        BY <1>1, <1>2, <1>3, <2>1, <2>3, PendingTypes DEF CalledBefore
    <2>10. Awaited(m, {op})'
        BY <1>1, <1>3, <2>1, PendingTypes DEF Awaited
    <2>11. OnlyStopsAreLeftBehind'
        BY <1>2, <2>3, <2>10 DEF OnlyStopsAreLeftBehind, Awaited
    <2>12. StopsAreCurrent'
        BY <1>1, <1>2, <2>3, <2>10 DEF StopsAreCurrent, Awaited
    <2>13. QED
        BY <2>8, <2>9, <2>11, <2>12 DEF CallInv
<1>6. CASE client' = [client EXCEPT !.op = IF op = "quit" THEN "exit" ELSE "none"] /\ inbox' = inbox
    <2>1. client'.call = client.call
        BY <1>6 DEF TypeOK, ClientTypeOK
    <2>2. Pending' = Pending
        BY <1>1, <1>6 DEF Pending
    <2>3. RequestsInOrder'
        BY <1>1, <1>6 DEF CallInv, RequestsInOrder
    <2>4. CalledBefore'
        BY <1>1, <1>3, <1>2, <2>1, <2>2, PendingTypes DEF CalledBefore
    <2>5. OnlyStopsAreLeftBehind' /\ StopsAreCurrent'
        BY <1>1, <1>2, <2>2 DEF OnlyStopsAreLeftBehind, StopsAreCurrent
    <2>6. QED
        BY <2>3, <2>4, <2>5 DEF CallInv
<1>7. QED
    BY <1>5, <1>6 DEF Request

\* What the handlers have in common: a message is handled to its end, and a request is answered
\* at its end; only On_Prepare leaves IDLE.
LEMMA HandlerForm ==
    ASSUME TypeOK, HandlesItsKind, PlayerFollowsStatus, Handlers
    PROVE  /\ Busy /\ UNCHANGED <<inbox, client, calls>>
           /\ \/ /\ Busy' /\ handler'.msg = handler.msg /\ reply' = reply
                 /\ m_iPlayStatus = "IDLE" => m_iPlayStatus' = "IDLE"
              \/ /\ ~Busy' /\ ~IsRequest(handler.msg) /\ reply' = reply
                 /\ m_iPlayStatus = "IDLE" => m_iPlayStatus' = "IDLE"
              \/ /\ ~Busy' /\ IsRequest(handler.msg) /\ reply'.call = handler.msg.call
                 /\ handler.msg.kind = "Stop" => m_iPlayStatus' = "IDLE"
<1> USE DEF At, Done, Goto, Rest, srvVars, clientVars, answerVars, historyVars, Busy
<1>a. handler.pc # "rest" => handler \in [pc : HandlerPcs, msg : Messages]
    BY HandledMessage DEF TypeOK
<1>1. CASE On_setDataSource \/ On_Prepare \/ On_PlayRefused \/ On_PlayStart
    <2>1. UNCHANGED <<inbox, client, calls>> /\ handler' = [pc |-> "rest"]
        BY <1>1 DEF On_setDataSource, On_Prepare, On_PlayRefused, On_PlayStart
    <2>2. handler.pc \in {"setDataSource", "Prepare", "Play", "Play_start"} /\ reply'.call = handler.msg.call
        BY <1>1 DEF On_setDataSource, On_Prepare, On_PlayRefused, On_PlayStart, Reply
    <2>3. handler.msg.kind \notin {"Stop", "PlaybackEos"}
        BY <2>2 DEF HandlesItsKind
    <2>4. QED
        BY <2>1, <2>2, <2>3 DEF IsRequest
<1>2. CASE On_StopAnswer
    <2>1. UNCHANGED <<inbox, client, calls, m_iPlayStatus>> /\ handler' = [pc |-> "rest"]
        BY <1>2 DEF On_StopAnswer
    <2>2. handler.pc = "Stop_answer" /\ reply'.call = handler.msg.call
        BY <1>2 DEF On_StopAnswer, Reply
    <2>3. handler.msg.kind = "Stop" /\ m_iPlayStatus = "IDLE"
        BY <2>2 DEF HandlesItsKind, PlayerFollowsStatus
    <2>4. QED
        BY <2>1, <2>2, <2>3 DEF IsRequest
<1>3. CASE On_Play \/ On_PlayId \/ On_StopIdle \/ On_Stop \/ On_StopOutput \/ On_StopStatus
           \/ On_PlaybackEosStop
    <2>1. UNCHANGED <<inbox, client, calls, reply>> /\ handler.pc # "rest"
        BY <1>3 DEF On_Play, On_PlayId, On_StopIdle, On_Stop, On_StopOutput, On_StopStatus,
                    On_PlaybackEosStop, StopPlayer
    <2>2. handler'.pc # "rest" /\ handler'.msg = handler.msg
        BY <1>3, <1>a DEF On_Play, On_PlayId, On_StopIdle, On_Stop, On_StopOutput, On_StopStatus,
                    On_PlaybackEosStop, StopPlayer
    <2>3. m_iPlayStatus = "IDLE" => m_iPlayStatus' = "IDLE"
        BY <1>3 DEF On_Play, On_PlayId, On_StopIdle, On_Stop, On_StopOutput, On_StopStatus,
                    On_PlaybackEosStop, StopPlayer
    <2>4. QED
        BY <2>1, <2>2, <2>3
<1>4. CASE On_PlaybackEosIgnored \/ On_PlaybackEos \/ On_PlaybackEosStatus
    <2>1. UNCHANGED <<inbox, client, calls, reply>>
        BY <1>4 DEF On_PlaybackEosIgnored, On_PlaybackEos, On_PlaybackEosStatus
    <2>2. handler.pc \in {"PlaybackEos", "Eos_idle"}
        BY <1>4 DEF On_PlaybackEosIgnored, On_PlaybackEos, On_PlaybackEosStatus
    <2>3. handler.msg.kind = "PlaybackEos"
        BY <2>2 DEF HandlesItsKind
    <2>4. handler'.pc = "rest" \/ (handler'.pc # "rest" /\ handler'.msg = handler.msg)
        BY <1>4, <1>a, <2>2 DEF On_PlaybackEosIgnored, On_PlaybackEos, On_PlaybackEosStatus
    <2>5. m_iPlayStatus = "IDLE" => m_iPlayStatus' = "IDLE"
        BY <1>4 DEF On_PlaybackEosIgnored, On_PlaybackEos, On_PlaybackEosStatus
    <2>6. QED
        BY <2>1, <2>2, <2>3, <2>4, <2>5 DEF IsRequest
<1>5. QED
    BY <1>1, <1>2, <1>3, <1>4 DEF Handlers

\* An answer leaves nothing pending but Stops, and those only when it answers a Stop.
LEMMA HandlerCall ==
    ASSUME TypeOK, CallInv, HandlesItsKind, PlayerFollowsStatus, Handlers
    PROVE  CallInv'
<1>1. Busy /\ inbox' = inbox /\ client' = client /\ calls' = calls
    BY HandlerForm
<1>a. RequestsInOrder /\ CalledBefore /\ OnlyStopsAreLeftBehind /\ StopsAreCurrent
    BY DEF CallInv
<1>2. CASE /\ Busy' /\ handler'.msg = handler.msg /\ reply' = reply
           /\ m_iPlayStatus = "IDLE" => m_iPlayStatus' = "IDLE"
    <2>1. Pending' = Pending
        BY <1>1, <1>2 DEF Pending
    <2>2. RequestsInOrder' /\ CalledBefore'
        BY <1>1, <1>2, <1>a, <2>1 DEF RequestsInOrder, CalledBefore, Precedes, Items
    <2>3. OnlyStopsAreLeftBehind' /\ StopsAreCurrent'
        BY <1>1, <1>2, <1>a, <2>1 DEF OnlyStopsAreLeftBehind, StopsAreCurrent, Awaited
    <2>4. QED
        BY <2>2, <2>3 DEF CallInv
<1>3. CASE /\ ~Busy' /\ ~IsRequest(handler.msg) /\ reply' = reply
           /\ m_iPlayStatus = "IDLE" => m_iPlayStatus' = "IDLE"
    <2>1. Pending' \subseteq Pending
        BY <1>1, <1>3 DEF Pending
    <2>2. RequestsInOrder' /\ CalledBefore'
        BY <1>1, <1>3, <1>a, <2>1 DEF RequestsInOrder, CalledBefore
    <2>3. OnlyStopsAreLeftBehind' /\ StopsAreCurrent'
        BY <1>1, <1>3, <1>a, <2>1 DEF OnlyStopsAreLeftBehind, StopsAreCurrent, Awaited
    <2>4. QED
        BY <2>2, <2>3 DEF CallInv
<1>4. CASE /\ ~Busy' /\ IsRequest(handler.msg) /\ reply'.call = handler.msg.call
           /\ handler.msg.kind = "Stop" => m_iPlayStatus' = "IDLE"
    <2>1. handler.msg \in Pending /\ Pending' \subseteq Pending
        BY <1>1, <1>4 DEF Pending
    <2>2. \A x \in Pending' : handler.msg.call < x.call
        BY <1>1, <1>4, <1>a DEF Pending, RequestsInOrder, Precedes
    <2>3. handler.msg.call <= client.call /\ \A x \in Pending' : x.call <= client.call
        BY <1>a, <2>1 DEF CalledBefore
    <2>4. /\ handler.msg.call \in Nat /\ client.call \in Nat
          /\ \A x \in Pending' : x.call \in Nat
        BY <2>1, PendingTypes
    <2>5. RequestsInOrder' /\ CalledBefore'
        BY <1>1, <1>4, <1>a, <2>3 DEF RequestsInOrder, CalledBefore
    <2>6. CASE handler.msg.kind = "Stop"
        <3>1. OnlyStopsAreLeftBehind'
            BY <1>1, <1>4, <1>a, <2>1, <2>2, <2>4 DEF OnlyStopsAreLeftBehind, Awaited
        <3>2. StopsAreCurrent'
            BY <1>4, <2>6 DEF StopsAreCurrent
        <3>3. QED
            BY <2>5, <3>1, <3>2 DEF CallInv
    <2>7. CASE handler.msg.kind # "Stop"
        <3>1. handler.msg.call = client.call
            BY <1>a, <2>1, <2>7 DEF OnlyStopsAreLeftBehind, Awaited
        <3>2. Pending' = {}
            BY <2>2, <2>3, <2>4, <3>1
        <3>3. QED
            BY <2>5, <3>2 DEF CallInv, OnlyStopsAreLeftBehind, StopsAreCurrent
    <2>8. QED
        BY <2>6, <2>7
<1>5. QED
    BY <1>2, <1>3, <1>4, HandlerForm

\* A call returns with an answer, which leaves only Stops while the status is IDLE, or while
\* the status is IDLE.
LEMMA ReturnForm ==
    ASSUME TypeOK, ClientReturns
    PROVE  /\ client.op \notin {"none", "exit", "destroy", "gone"}
           /\ \/ reply.call = client.call
              \/ m_iPlayStatus = "IDLE" /\ client.op \in {"Stop", "quit"}
           /\ client'.call = client.call /\ client'.op = IF client.op = "quit" THEN "exit" ELSE "none"
           /\ \/ stopKept' = stopKept
              \/ client.op = "Stop"
           /\ announced' = IF client.op = "Stop" /\ stoppedId # 0
                           THEN announced \cup {started} ELSE announced
           /\ UNCHANGED <<inbox, handler, reply, calls, m_iPlayStatus, m_PlaybackId, player,
                          callback, stoppedId, started>>
<1> USE DEF srvVars, answerVars
<1>1. PICK ok \in BOOLEAN : Return(ok)
    BY DEF ClientReturns, Answered, StopSeesIdle, TypeOK, ClientTypeOK
<1>2. /\ client.op \notin {"none", "exit", "destroy", "gone"}
      /\ reply.call = client.call \/ (m_iPlayStatus = "IDLE" /\ client.op \in {"Stop", "quit"})
    BY DEF ClientReturns, Answered, StopSeesIdle
<1>3. client'.call = client.call /\ client'.op = IF client.op = "quit" THEN "exit" ELSE "none"
    BY <1>1 DEF Return, TypeOK, ClientTypeOK
<1>4. stopKept' = stopKept \/ client.op = "Stop"
    BY <1>1 DEF Return, TypeOK, ClientTypeOK
<1>5. QED
    BY <1>1, <1>2, <1>3, <1>4 DEF Return

\* The rest of the application thread, and the Nexus thread, ask for nothing.
LEMMA OtherForm ==
    ASSUME TypeOK, Quits \/ EndOfStream \/ Callbacks
    PROVE  /\ client'.call = client.call
           /\ client' = client \/ {client.op, client'.op} \subseteq {"exit", "destroy", "gone"}
           /\ player' = player \/ player' = 0
           /\ \/ inbox' = inbox
              \/ /\ callback.pc = "post" /\ callback.msg \in Ends
                 /\ inbox' = Append(inbox, callback.msg)
           /\ UNCHANGED <<handler, reply, calls, stopKept, m_iPlayStatus, m_PlaybackId, stoppedId,
                          started, announced>>
<1> USE DEF srvVars, clientVars, answerVars, historyVars
<1>1. CASE ThreadEnds \/ EndOfStream \/ onPlaybackEos
    BY <1>1 DEF ThreadEnds, EndOfStream, onPlaybackEos
<1>2. CASE ExitInstance \/ ExitInstanceEnds
    BY <1>2 DEF ExitInstance, ExitInstanceEnds, TypeOK, ClientTypeOK
<1>3. CASE PostPlaybackEos
    <2>1. callback.pc = "post" /\ callback.msg \in Ends
        BY <1>3 DEF PostPlaybackEos, TypeOK, PlayerTypeOK, NoCallback
    <2>2. QED
        BY <1>3, <2>1 DEF PostPlaybackEos, Post
<1>4. QED
    BY <1>1, <1>2, <1>3 DEF Quits, Callbacks

\* Taking a message moves it from the queue to the handler.
LEMMA TakeForm ==
    ASSUME TypeOK, OnNewMessage
    PROVE  /\ handler.pc = "rest" /\ inbox \in Seq(Messages) /\ inbox # <<>>
           /\ inbox' = Tail(inbox) /\ handler' = [pc |-> Head(inbox).kind, msg |-> Head(inbox)]
           /\ Head(inbox) \in Messages /\ Busy'
           /\ handler'.pc \in {"setDataSource", "Prepare", "Play", "Stop", "PlaybackEos"}
           /\ Items(inbox) = {Head(inbox)} \cup Items(inbox')
           /\ UNCHANGED <<client, reply, calls, stopKept, m_iPlayStatus, m_PlaybackId, stoppedId,
                          started, announced, player, callback>>
<1>1. inbox \in Seq(Messages) /\ inbox # <<>>
    BY DEF TypeOK, QueueTypeOK, OnNewMessage
<1>2. Head(inbox) \in Messages
    BY <1>1, HeadTailProperties
<1>3. inbox' = Tail(inbox) /\ handler' = [pc |-> Head(inbox).kind, msg |-> Head(inbox)]
    BY DEF OnNewMessage, Handle
<1>4. handler'.pc \in {"setDataSource", "Prepare", "Play", "Stop", "PlaybackEos"} /\ Busy'
    BY <1>2, <1>3, MessageTypes DEF Busy
<1>5. Items(inbox) = {Head(inbox)} \cup Items(inbox')
    BY <1>1, <1>3, TakeOrder
<1>6. QED
    BY <1>1, <1>2, <1>3, <1>4, <1>5
       DEF OnNewMessage, At, srvVars, clientVars, answerVars, historyVars

\* Every step keeps the order of the calls and the state of their answers.
LEMMA CallStep ==
    ASSUME TypeOK, HandlesItsKind, PlayerFollowsStatus, CallInv, [Next]_vars
    PROVE  CallInv'
<1>a. RequestsInOrder /\ CalledBefore /\ OnlyStopsAreLeftBehind /\ StopsAreCurrent
    BY DEF CallInv
<1>1. CASE ClientCalls
    BY <1>1, CallForm, RequestCall
<1>2. CASE ClientReturns
    <2>1. Pending' = Pending
        BY <1>2, ReturnForm DEF Pending, Busy
    <2>2. RequestsInOrder' /\ CalledBefore'
        BY <1>2, <1>a, <2>1, ReturnForm DEF RequestsInOrder, CalledBefore, Busy, Precedes, Items
    <2>3. \A m \in Pending : m.kind = "Stop" /\ m_iPlayStatus = "IDLE"
        BY <1>2, <1>a, ReturnForm, PendingTypes, MessageTypes
           DEF OnlyStopsAreLeftBehind, StopsAreCurrent, Awaited
    <2>4. OnlyStopsAreLeftBehind' /\ StopsAreCurrent'
        BY <1>2, <2>1, <2>3, ReturnForm DEF OnlyStopsAreLeftBehind, StopsAreCurrent
    <2>5. QED
        BY <2>2, <2>4 DEF CallInv
<1>3. CASE Quits \/ EndOfStream \/ Callbacks
    <2>1. Pending' = Pending /\ RequestsInOrder'
        <3>1. CASE inbox' = inbox
            BY <1>3, <1>a, <3>1, OtherForm DEF Pending, Busy, RequestsInOrder, Precedes
        <3>2. CASE callback.msg \in Ends /\ inbox' = Append(inbox, callback.msg)
            <4>1. ~IsRequest(callback.msg) /\ callback.msg \in Messages /\ inbox \in Seq(Messages)
                BY <3>2 DEF Ends, Messages, IsRequest, TypeOK, QueueTypeOK
            <4>2. Items(inbox') = Items(inbox) \cup {callback.msg}
                BY <3>2, <4>1, PostOrder
            <4>3. InOrder(inbox')
                BY <1>a, <3>2, <4>1, PostOrder DEF RequestsInOrder
            <4>4. Pending' = Pending
                BY <1>3, <4>1, <4>2, OtherForm DEF Pending, Busy
            <4>5. Busy => Precedes(handler.msg, inbox')
                BY <1>a, <4>1, <4>2 DEF RequestsInOrder, Precedes
            <4>6. QED
                BY <1>3, <4>3, <4>4, <4>5, OtherForm DEF RequestsInOrder, Busy
        <3>3. QED
            BY <1>3, <3>1, <3>2, OtherForm
    <2>2. CalledBefore'
        BY <1>3, <1>a, <2>1, OtherForm DEF CalledBefore
    <2>3. client.op \in {"exit", "destroy", "gone"} => Pending = {} \/ m_iPlayStatus = "IDLE"
        BY <1>a, PendingTypes, MessageTypes DEF OnlyStopsAreLeftBehind, StopsAreCurrent, Awaited
    <2>4. client.op \in {"exit", "destroy", "gone"} => \A m \in Pending : m.kind = "Stop"
        BY <1>a, PendingTypes, MessageTypes DEF OnlyStopsAreLeftBehind, Awaited
    <2>5. OnlyStopsAreLeftBehind' /\ StopsAreCurrent'
        BY <1>3, <1>a, <2>1, <2>3, <2>4, OtherForm DEF OnlyStopsAreLeftBehind, StopsAreCurrent, Awaited
    <2>6. QED
        BY <2>1, <2>2, <2>5 DEF CallInv
<1>4. CASE OnNewMessage
    <2>1. Pending' = Pending
        <3>1. handler'.msg = Head(inbox) /\ ~Busy /\ Busy'
            BY <1>4, TakeForm DEF Busy
        <3>2. QED
            BY <1>4, <3>1, TakeForm DEF Pending
    <2>2. RequestsInOrder'
        <3>1. InOrder(Tail(inbox)) /\ Precedes(Head(inbox), Tail(inbox))
            BY <1>4, <1>a, TakeForm, TakeOrder DEF RequestsInOrder
        <3>2. inbox' = Tail(inbox) /\ handler'.msg = Head(inbox)
            BY <1>4, TakeForm
        <3>3. InOrder(inbox)' /\ Precedes(handler.msg, inbox)'
            BY <3>1, <3>2 DEF InOrder, Precedes, Items
        <3>4. QED
            BY <3>3 DEF RequestsInOrder
    <2>3. CalledBefore'
        BY <1>4, <1>a, <2>1, TakeForm DEF CalledBefore
    <2>4. OnlyStopsAreLeftBehind' /\ StopsAreCurrent'
        BY <1>4, <1>a, <2>1, TakeForm DEF OnlyStopsAreLeftBehind, StopsAreCurrent, Awaited
    <2>5. QED
        BY <2>2, <2>3, <2>4, <1>4 DEF CallInv
<1>5. CASE UNCHANGED vars
    BY <1>5 DEF vars, srvVars, clientVars, answerVars, historyVars, CallInv, RequestsInOrder,
       CalledBefore, OnlyStopsAreLeftBehind, StopsAreCurrent, Awaited, Pending, Busy, Precedes, InOrder,
       Items
<1>6. QED
    BY <1>1, <1>2, <1>3, <1>4, <1>5, HandlerCall DEF Next

\* So the calls are in order in every state.
LEMMA CallsInv == Spec => [](TypeOK /\ HandlesItsKind /\ PlayerFollowsStatus /\ CallInv)
<1>1. Init => CallInv
    <2> SUFFICES ASSUME Init PROVE CallInv
        OBVIOUS
    <2>1. inbox = <<>> /\ ~Busy /\ Items(inbox) = {} /\ DOMAIN inbox = {}
        BY DEF Init, Busy, Rest, Items
    <2>2. Pending = {}
        BY <2>1 DEF Pending
    <2>3. reply.call = 0 /\ client.call = 0 /\ calls = 0
        BY DEF Init
    <2>4. QED
        BY <2>1, <2>2, <2>3 DEF CallInv, RequestsInOrder, InOrder, CalledBefore, OnlyStopsAreLeftBehind,
                                StopsAreCurrent
<1>2. QED
    BY <1>1, CallStep, TypeInv, PlayerInv, PTL DEF Spec

-----------------------------------------------------------------------------
(* What the application is told.                                           *)

\* The invariants of the sections above.
Base == TypeOK /\ HandlesItsKind /\ PlayerFollowsStatus /\ CallInv

\* A Stop that was answered left the player stopped, until the next Play.
StopsHold ==
    /\ client.op \in {"Stop", "quit"} /\ reply.call = client.call => player = 0
    /\ stopKept => player = 0 /\ client.op # "Play"

\* What is handled and is no Stop is the call the application waits in.
LEMMA HandledCall ==
    ASSUME Base, Busy, IsRequest(handler.msg)
    PROVE  /\ handler.msg \in Pending /\ handler.msg.call \in Nat /\ handler.msg.call <= client.call
           /\ handler.msg.kind # "Stop" => Awaited(handler.msg, {handler.msg.kind})
           /\ handler.msg.kind = "Stop" /\ m_iPlayStatus # "IDLE" => Awaited(handler.msg, {"Stop", "quit"})
<1>1. handler.msg \in Pending
    BY DEF Pending
<1>2. QED
    BY <1>1, PendingTypes DEF Base, CallInv, CalledBefore, OnlyStopsAreLeftBehind, StopsAreCurrent

\* A call begins without an answer.
LEMMA CallBegins ==
    ASSUME Base, ClientCalls
    PROVE  /\ client.op = "none" /\ calls < MaxCalls /\ calls' = calls + 1
           /\ client.call <= calls /\ reply' = reply /\ reply.call <= client.call
           /\ stoppedId' = 0 /\ (stopKept' => stopKept)
           /\ \/ /\ client'.op \in {"none", "exit"} /\ client'.call = client.call
                 /\ inbox' = inbox
              \/ /\ client'.op \in {"setDataSource", "Prepare", "Play", "Stop", "quit"}
                 /\ client'.op = "Play" => ~stopKept'
                 /\ client'.call = calls + 1 /\ reply'.call # client'.call
                 /\ \E m \in Messages : m.call = calls + 1 /\ m.kind # "PlaybackEos"
                                            /\ inbox' = Append(inbox, m)
           /\ UNCHANGED <<handler, player, callback, m_iPlayStatus, m_PlaybackId, started, announced>>
<1> USE DEF srvVars, historyVars
<1>1. PICK op \in {"setDataSource", "Prepare", "Play", "Stop", "quit"}, m \in Messages :
          /\ Request(op, m)
          /\ m.kind = IF op = "quit" THEN "Stop" ELSE op
          /\ m.call = calls + 1
          /\ stopKept' = (stopKept /\ op # "Play")
    BY CallForm DEF Base
<1>2. client.op = "none" /\ calls < MaxCalls
    BY CallForm DEF Base
<1>3. reply.call <= client.call /\ client.call <= calls
    BY DEF Base, CallInv, CalledBefore
<1>4. reply.call \in Nat /\ client.call \in Nat /\ calls \in Nat
    BY PendingTypes DEF Base
<1>5. CASE Post(m) /\ client' = [op |-> op, call |-> calls + 1]
    <2>1. client'.op = op /\ client'.call = calls + 1 /\ inbox' = Append(inbox, m)
        BY <1>5 DEF Post
    <2>2. reply' = reply /\ reply.call # calls + 1
        BY <1>1, <1>3, <1>4 DEF Request
    <2>3. client'.op = "Play" => ~stopKept'
        BY <1>1, <2>1
    <2>4. m.kind # "PlaybackEos"
        BY <1>1
    <2>5. QED
        BY <1>1, <1>2, <1>3, <2>1, <2>2, <2>3, <2>4 DEF Request
<1>6. CASE client' = [client EXCEPT !.op = IF op = "quit" THEN "exit" ELSE "none"] /\ inbox' = inbox
    <2>1. client'.op \in {"none", "exit"} /\ client'.call = client.call
        BY <1>6 DEF Base, TypeOK, ClientTypeOK
    <2>2. QED
        BY <1>1, <1>2, <1>3, <1>6, <2>1 DEF Request
<1>7. QED
    BY <1>1, <1>5, <1>6 DEF Request

\* The player is started by the call the application waits in, a Play.
LEMMA StopStep ==
    ASSUME Base, StopsHold, [Next]_vars
    PROVE  StopsHold'
<1> USE DEF StopsHold
<1>a. TypeOK /\ HandlesItsKind /\ PlayerFollowsStatus
    BY DEF Base
<1>1. CASE ClientCalls
    BY <1>1, CallBegins
<1>2. CASE ClientReturns
    BY <1>2, <1>a, ReturnForm DEF PlayerFollowsStatus
<1>3. CASE Quits \/ EndOfStream \/ Callbacks
    BY <1>3, <1>a, OtherForm
<1>4. CASE OnNewMessage
    BY <1>4, <1>a, TakeForm
<1>5. CASE On_PlayStart
    <2>1. handler.msg.kind = "Play" /\ Busy /\ IsRequest(handler.msg)
        BY <1>5, <1>a DEF On_PlayStart, At, HandlesItsKind, Busy, IsRequest
    <2>2. client.op = "Play"
        BY <2>1, HandledCall DEF Awaited
    <2>3. UNCHANGED <<client, stopKept>>
        BY <1>5 DEF On_PlayStart, clientVars
    <2>4. QED
        BY <2>2, <2>3
<1>6. CASE On_StopAnswer
    <2>1. player = 0 /\ UNCHANGED <<player, client, stopKept>>
        BY <1>6, <1>a DEF On_StopAnswer, At, PlayerFollowsStatus, clientVars
    <2>2. QED
        BY <2>1
<1>7. CASE On_setDataSource \/ On_Prepare \/ On_PlayRefused
    <2>1. Busy /\ IsRequest(handler.msg) /\ handler.msg.kind \notin {"Stop", "quit"}
        BY <1>7, <1>a DEF On_setDataSource, On_Prepare, On_PlayRefused, At, HandlesItsKind, Busy, IsRequest
    <2>2. client.op \notin {"Stop", "quit"}
        BY <2>1, HandledCall DEF Awaited
    <2>3. UNCHANGED <<client, stopKept, player>>
        BY <1>7 DEF On_setDataSource, On_Prepare, On_PlayRefused, clientVars
    <2>4. QED
        BY <2>2, <2>3
<1>8. CASE \/ On_Play \/ On_PlayId \/ On_StopIdle \/ On_Stop \/ On_StopOutput \/ On_StopStatus
           \/ On_PlaybackEosIgnored \/ On_PlaybackEos \/ On_PlaybackEosStop \/ On_PlaybackEosStatus
    <2>1. UNCHANGED <<client, stopKept, reply>> /\ (player' = player \/ player' = 0)
        BY <1>8 DEF On_Play, On_PlayId, On_StopIdle, On_Stop, On_StopOutput, On_StopStatus,
           On_PlaybackEosIgnored, On_PlaybackEos, On_PlaybackEosStop, On_PlaybackEosStatus, StopPlayer,
           clientVars, answerVars
    <2>2. QED
        BY <2>1
<1>9. CASE UNCHANGED vars
    BY <1>9 DEF vars, clientVars, answerVars
<1>10. QED
    BY <1>1, <1>2, <1>3, <1>4, <1>5, <1>6, <1>7, <1>8, <1>9 DEF Next, Handlers

\* Once a Stop has reported success the player stays stopped until the next Play, although the
\* Stop may return before its message is handled.
THEOREM StopsHoldTheirPromise == Spec => []StoppedStaysStopped
<1>1. Init => StopsHold
    BY DEF Init, StopsHold
<1>2. StopsHold => StoppedStaysStopped
    BY DEF StopsHold, StoppedStaysStopped
<1>3. QED
    BY <1>1, <1>2, CallsInv, StopStep, PTL DEF Spec, Base

\* A playback that is over was announced, or the Stop that ended it is about to.
EndsAreReported ==
    /\ m_iPlayStatus # "PLAYING" /\ started # 0 =>
          \/ started \in announced
          \/ client.op = "Stop" /\ stoppedId # 0
          \/ client.op \in {"quit", "exit", "destroy", "gone"}
    /\ handler.pc = "Stop_idle" /\ m_iPlayStatus = "PLAYING" =>
          (client.op = "Stop" /\ stoppedId # 0) \/ client.op = "quit"
    /\ m_iPlayStatus = "PLAYING" /\ handler.pc # "Play_id" => m_PlaybackId # 0

\* The Stop that ends a playback is awaited, so its caller finds the identifier.
LEMMA ReportStep ==
    ASSUME Base, EndsAreReported, [Next]_vars
    PROVE  EndsAreReported'
<1> USE DEF EndsAreReported, At, Done, Goto, Rest, srvVars, clientVars, answerVars, historyVars
<1>a. TypeOK /\ HandlesItsKind /\ PlayerFollowsStatus
    BY DEF Base
<1>b. handler.pc # "rest" => handler \in [pc : HandlerPcs, msg : Messages]
    BY <1>a, HandledMessage DEF TypeOK
<1>c. handler.pc \in {"Stop", "Stop_output", "Stop_idle"} /\ m_iPlayStatus = "PLAYING" =>
          Awaited(handler.msg, {"Stop", "quit"})
    BY <1>a, HandledCall DEF HandlesItsKind, Busy, IsRequest
<1>1. CASE ClientCalls
    BY <1>1, CallBegins
<1>2. CASE ClientReturns
    <2>1. handler.pc = "Stop_idle" /\ m_iPlayStatus = "PLAYING" => FALSE
        BY <1>2, <1>a, <1>c, ReturnForm DEF Awaited
    <2>2. /\ client'.op = IF client.op = "quit" THEN "exit" ELSE "none"
          /\ announced' = IF client.op = "Stop" /\ stoppedId # 0
                          THEN announced \cup {started} ELSE announced
          /\ UNCHANGED <<handler, m_iPlayStatus, m_PlaybackId, started>>
          /\ client.op \notin {"none", "exit", "destroy", "gone"}
        BY <1>2, <1>a, ReturnForm
    <2>3. QED
        BY <2>1, <2>2
<1>3. CASE Quits \/ EndOfStream \/ Callbacks
    BY <1>3, <1>a, OtherForm
<1>4. CASE OnNewMessage
    BY <1>4, <1>a, TakeForm
<1>5. CASE On_setDataSource \/ On_Prepare \/ On_PlayRefused \/ On_PlayStart \/ On_StopAnswer
           \/ On_PlaybackEosIgnored \/ On_PlaybackEos
    <2>1. UNCHANGED <<client, stoppedId, started, announced, m_PlaybackId>>
        BY <1>5 DEF On_setDataSource, On_Prepare, On_PlayRefused, On_PlayStart, On_StopAnswer,
                    On_PlaybackEosIgnored, On_PlaybackEos
    <2>2. (m_iPlayStatus' = "PLAYING") = (m_iPlayStatus = "PLAYING")
        BY <1>5 DEF On_setDataSource, On_Prepare, On_PlayRefused, On_PlayStart, On_StopAnswer,
                    On_PlaybackEosIgnored, On_PlaybackEos
    <2>3. handler.pc # "Play_id"
        BY <1>5 DEF On_setDataSource, On_Prepare, On_PlayRefused, On_PlayStart, On_StopAnswer,
                    On_PlaybackEosIgnored, On_PlaybackEos
    <2>4. handler' = [pc |-> "rest"] \/ handler' = [handler EXCEPT !.pc = "Eos_stop"]
        BY <1>5 DEF On_setDataSource, On_Prepare, On_PlayRefused, On_PlayStart, On_StopAnswer,
                    On_PlaybackEosIgnored, On_PlaybackEos
    <2>5. handler.pc # "rest"
        BY <1>5 DEF On_setDataSource, On_Prepare, On_PlayRefused, On_PlayStart, On_StopAnswer,
                    On_PlaybackEosIgnored, On_PlaybackEos
    <2>6. handler'.pc \in {"rest", "Eos_stop"}
        BY <1>b, <2>4, <2>5
    <2>7. QED
        BY <2>1, <2>2, <2>3, <2>6
<1>6. CASE On_Play
    <2>1. handler'.pc = "Play_id" /\ m_iPlayStatus' = "PLAYING"
        BY <1>6, <1>b DEF On_Play
    <2>2. QED
        BY <2>1
<1>7. CASE On_PlayId
    <2>1. handler'.pc = "Play_start" /\ m_iPlayStatus' = "PLAYING"
        BY <1>7, <1>a, <1>b DEF On_PlayId, PlayerFollowsStatus
    <2>2. m_PlaybackId' # 0
        BY <1>7, <1>a, NextIdType DEF On_PlayId, TypeOK, SrvTypeOK
    <2>3. QED
        BY <2>1, <2>2
<1>8. CASE On_StopIdle \/ On_Stop \/ On_PlaybackEosStop
    <2>1. UNCHANGED <<client, stoppedId, started, announced, m_PlaybackId, m_iPlayStatus>>
        BY <1>8 DEF On_StopIdle, On_Stop, On_PlaybackEosStop, StopPlayer
    <2>2. handler.pc # "Play_id" /\ handler'.pc \in {"Stop_answer", "Stop_output", "Eos_idle"}
        BY <1>8, <1>b DEF On_StopIdle, On_Stop, On_PlaybackEosStop, StopPlayer
    <2>3. QED
        BY <2>1, <2>2
<1>9. CASE On_StopOutput
    <2>1. UNCHANGED <<client, started, announced, m_PlaybackId, m_iPlayStatus>>
        BY <1>9 DEF On_StopOutput
    <2>2. handler.pc = "Stop_output"
        BY <1>9 DEF On_StopOutput
    <2>3. stoppedId' = IF m_iPlayStatus = "PLAYING" /\ handler.msg.call = client.call
                       THEN m_PlaybackId ELSE stoppedId
        BY <1>9 DEF On_StopOutput
    <2>4. m_iPlayStatus = "PLAYING" => stoppedId' # 0 /\ client.op \in {"Stop", "quit"}
        BY <1>c, <2>2, <2>3 DEF Awaited
    <2>5. m_iPlayStatus # "PLAYING" => stoppedId' = stoppedId
        BY <2>3
    <2>6. QED
        BY <2>1, <2>2, <2>4, <2>5
<1>10. CASE On_StopStatus
    <2>1. UNCHANGED <<client, stoppedId, started, announced>> /\ m_iPlayStatus' = "IDLE"
        BY <1>10 DEF On_StopStatus
    <2>2. handler.pc = "Stop_idle"
        BY <1>10 DEF On_StopStatus
    <2>3. QED
        BY <2>1, <2>2
<1>11. CASE On_PlaybackEosStatus
    <2>1. started' = started /\ started \in announced' /\ m_iPlayStatus' = "IDLE"
        BY <1>11 DEF On_PlaybackEosStatus
    <2>2. QED
        BY <2>1
<1>12. CASE UNCHANGED vars
    BY <1>12 DEF vars
<1>13. QED
    BY <1>1, <1>2, <1>3, <1>4, <1>5, <1>6, <1>7, <1>8, <1>9, <1>10, <1>11, <1>12 DEF Next, Handlers

\* The application learns of the end of every playback, from the signal or from its Stop.
THEOREM EndsAreAnnounced == Spec => []EndIsAnnounced
<1>1. Init => EndsAreReported
    BY DEF Init, EndsAreReported, Rest
<1>2. EndsAreReported => EndIsAnnounced
    BY DEF EndsAreReported, EndIsAnnounced
<1>3. QED
    BY <1>1, <1>2, CallsInv, ReportStep, PTL DEF Spec, Base

-----------------------------------------------------------------------------
(* Which playback a Stop or an end of stream ends.                         *)

\* The playback was begun by a call before every Play that waits, and before the Stop the
\* application waits in.
StartedBefore ==
    /\ started <= client.call
    /\ client.op \in {"Stop", "quit"} => started < client.call
    /\ \A m \in Items(inbox) : m.kind = "Play" => started < m.call
    /\ handler.pc \in {"Play", "Play_id"} => started < handler.msg.call

\* Only On_PlayId begins one, with the number of the call it handles.
LEMMA StartedStep ==
    ASSUME Base, StartedBefore, [Next]_vars
    PROVE  StartedBefore'
<1> USE DEF StartedBefore, At, Done, Goto, Rest, srvVars, clientVars, answerVars, historyVars
<1>a. TypeOK /\ HandlesItsKind /\ PlayerFollowsStatus
    BY DEF Base
<1>b. handler.pc # "rest" => handler \in [pc : HandlerPcs, msg : Messages]
    BY <1>a, HandledMessage DEF TypeOK
<1>c. /\ started \in Nat /\ client.call \in Nat /\ calls \in Nat /\ inbox \in Seq(Messages)
      /\ Items(inbox) \subseteq Messages
    BY <1>a, PendingTypes, ConstantsAssumption DEF TypeOK, HistoryTypeOK, QueueTypeOK
<1>1. CASE ClientCalls
    <2>1. /\ client.call <= calls /\ started' = started /\ handler' = handler
          /\ \/ inbox' = inbox /\ client'.call = client.call /\ client'.op \in {"none", "exit"}
             \/ /\ client'.call = calls + 1
                /\ \E m \in Messages : m.call = calls + 1 /\ inbox' = Append(inbox, m)
        BY <1>1, CallBegins
    <2>2. CASE inbox' = inbox /\ client'.call = client.call /\ client'.op \in {"none", "exit"}
        BY <2>1, <2>2
    <2>3. ASSUME NEW m \in Messages, client'.call = calls + 1, m.call = calls + 1,
                 inbox' = Append(inbox, m)
          PROVE  StartedBefore'
        <3>1. Items(inbox') = Items(inbox) \cup {m}
            BY <1>c, <2>3, PostOrder
        <3>2. started < calls + 1
            BY <1>c, <2>1
        <3>3. Items(inbox)' = Items(inbox')
            BY DEF Items
        <3>4. QED
            BY <1>c, <2>1, <2>3, <3>1, <3>2, <3>3
    <2>4. QED
        BY <2>1, <2>2, <2>3
<1>2. CASE ClientReturns
    BY <1>2, <1>a, ReturnForm DEF Items
<1>3. CASE Quits \/ EndOfStream \/ Callbacks
    <2>1. /\ client'.call = client.call /\ started' = started /\ handler' = handler
          /\ client'.op \in {"Stop", "quit"} => client' = client
          /\ inbox' = inbox \/ (callback.msg \in Ends /\ inbox' = Append(inbox, callback.msg))
        BY <1>3, <1>a, OtherForm
    <2>2. \A m \in Items(inbox') : m \in Items(inbox) \/ m.kind = "PlaybackEos"
        <3>1. CASE inbox' = inbox
            BY <3>1
        <3>2. CASE callback.msg \in Ends /\ inbox' = Append(inbox, callback.msg)
            BY <1>c, <3>2, PostOrder DEF Ends, Messages
        <3>3. QED
            BY <2>1, <3>1, <3>2
    <2>3. Items(inbox)' = Items(inbox')
        BY DEF Items
    <2>4. QED
        BY <2>1, <2>2, <2>3
<1>4. CASE OnNewMessage
    <2>1. /\ client' = client /\ started' = started /\ Items(inbox) = {Head(inbox)} \cup Items(inbox')
          /\ handler' = [pc |-> Head(inbox).kind, msg |-> Head(inbox)]
          /\ handler'.pc # "Play_id"
        BY <1>4, <1>a, TakeForm
    <2>2. Items(inbox)' = Items(inbox')
        BY DEF Items
    <2>3. QED
        BY <2>1, <2>2
<1>5. CASE On_PlayId
    <2>1. handler.msg.kind = "Play" /\ Busy /\ IsRequest(handler.msg)
        BY <1>5, <1>a DEF On_PlayId, HandlesItsKind, Busy, IsRequest
    <2>2. client.op = "Play" /\ handler.msg.call <= client.call
        BY <2>1, HandledCall DEF Awaited
    <2>3. \A m \in Items(inbox) : m.kind = "Play" => handler.msg.call < m.call
        BY <2>1 DEF Base, CallInv, RequestsInOrder, Precedes, IsRequest
    <2>4. started' = handler.msg.call /\ handler'.pc = "Play_start" /\ UNCHANGED <<inbox, client>>
        BY <1>5, <1>b DEF On_PlayId
    <2>5. QED
        BY <2>2, <2>3, <2>4 DEF Items
<1>6. CASE Handlers /\ ~On_PlayId
    <2>1. started' = started
        BY <1>6 DEF Handlers, On_setDataSource, On_Prepare, On_PlayRefused, On_Play, On_PlayStart,
           On_StopIdle, On_Stop, On_StopOutput, On_StopStatus, On_StopAnswer, On_PlaybackEosIgnored,
           On_PlaybackEos, On_PlaybackEosStop, On_PlaybackEosStatus, StopPlayer
    <2>2. UNCHANGED <<inbox, client>>
        BY <1>6, <1>a, HandlerForm
    <2>3. handler'.pc \in {"Play", "Play_id"} => handler.pc = "Play" /\ handler'.msg = handler.msg
        <3>1. handler.pc # "rest" /\ handler \in [pc : HandlerPcs, msg : Messages]
            BY <1>6, <1>a, <1>b, HandlerForm DEF Busy
        <3>2. \/ handler' = [pc |-> "rest"]
              \/ \E pc \in HandlerPcs \ {"Play", "Play_id"} : handler' = [handler EXCEPT !.pc = pc]
              \/ handler.pc = "Play" /\ handler' = [handler EXCEPT !.pc = "Play_id"]
            BY <1>6 DEF Handlers, On_setDataSource, On_Prepare, On_PlayRefused, On_Play, On_PlayStart,
               On_StopIdle, On_Stop, On_StopOutput, On_StopStatus, On_StopAnswer, On_PlaybackEosIgnored,
               On_PlaybackEos, On_PlaybackEosStop, On_PlaybackEosStatus, StopPlayer, HandlerPcs
        <3>3. QED
            BY <3>1, <3>2
    <2>4. QED
        BY <2>1, <2>2, <2>3 DEF Items
<1>7. CASE UNCHANGED vars
    BY <1>7 DEF vars, Items
<1>8. QED
    BY <1>1, <1>2, <1>3, <1>4, <1>5, <1>6, <1>7 DEF Next

\* So it holds in every state.
LEMMA StartedInv == Spec => [](Base /\ StartedBefore)
<1>1. Init => StartedBefore
    BY DEF Init, StartedBefore, Rest, Items
<1>2. QED
    BY <1>1, CallsInv, StartedStep, PTL DEF Spec, Base

\* A Stop ends no playback the application asked for after it.
THEOREM StopsEndWhatWasBefore == Spec => StopEndsOnlyEarlierPlaybacks
<1>1. ASSUME Base, StartedBefore
      PROVE  StopEndsEarlierPlayback
    <2> SUFFICES ASSUME On_Stop, m_iPlayStatus = "PLAYING" PROVE handler.msg.call > started
        BY DEF StopEndsEarlierPlayback
    <2>1. Busy /\ handler.msg.kind = "Stop" /\ IsRequest(handler.msg)
        BY <1>1 DEF On_Stop, StopPlayer, At, Base, HandlesItsKind, Busy, IsRequest
    <2>2. Awaited(handler.msg, {"Stop", "quit"}) /\ handler.msg.call \in Nat
        BY <1>1, <2>1, HandledCall
    <2>3. started \in Nat
        BY <1>1 DEF Base, TypeOK, HistoryTypeOK
    <2>4. QED
        BY <1>1, <2>2, <2>3 DEF StartedBefore, Awaited
<1>2. QED
    BY <1>1, StartedInv, PTL DEF StopEndsOnlyEarlierPlaybacks

\* Ends of stream that were tagged with an identifier and were not compared with it yet.
TaggedEnds ==
    {m \in Items(inbox) : ~IsRequest(m)}
        \cup {m \in {handler.msg} : handler.pc \in {"PlaybackEos", "Eos_stop"}}
        \cup {m \in {callback.msg} : callback.pc = "post"}

\* While the identifiers do not come round, one that was read is not above the playback's, and
\* names it when it is the same.
TagsAreTrue ==
    /\ m_PlaybackId <= started
    /\ \A m \in TaggedEnds : m.id <= m_PlaybackId /\ (m.id = m_PlaybackId => m.started = started)
    /\ handler.pc = "Eos_stop" => handler.msg.id = m_PlaybackId

\* Steps that tag no end of stream and begin no playback.
LEMMA TagsKept ==
    ASSUME TagsAreTrue, TaggedEnds' \subseteq TaggedEnds, UNCHANGED <<m_PlaybackId, started>>,
           handler'.pc = "Eos_stop" => handler'.msg.id = m_PlaybackId
    PROVE  TagsAreTrue'
BY DEF TagsAreTrue

\* A playback that begins has an identifier above every one that was read.
LEMMA TagsStep ==
    ASSUME MaxCalls < IdModulus, Base, StartedBefore, TagsAreTrue, [Next]_vars
    PROVE  TagsAreTrue'
<1> USE DEF At, Done, Goto, Rest, srvVars, clientVars, answerVars, historyVars
<1>a. TypeOK /\ HandlesItsKind /\ PlayerFollowsStatus
    BY DEF Base
<1>b. handler.pc # "rest" => handler \in [pc : HandlerPcs, msg : Messages]
    BY <1>a, HandledMessage DEF TypeOK
<1>c. inbox \in Seq(Messages)
    BY <1>a DEF TypeOK, QueueTypeOK
<1>d. /\ started \in Nat /\ m_PlaybackId \in Nat
      /\ \A m \in TaggedEnds : m.id \in Nat
    <2>1. \A m \in TaggedEnds : m \in Ends
        <3>1. \A m \in Items(inbox) : ~IsRequest(m) => m \in Ends
            BY <1>a, PendingTypes, MessageTypes DEF IsRequest
        <3>2. handler.pc \in {"PlaybackEos", "Eos_stop"} => handler.msg \in Ends
            BY <1>a, <1>b, MessageTypes DEF HandlesItsKind
        <3>3. callback.pc = "post" => callback.msg \in Ends
            BY <1>a DEF TypeOK, PlayerTypeOK, NoCallback
        <3>4. QED
            BY <3>1, <3>2, <3>3 DEF TaggedEnds
    <2>2. QED
        BY <1>a, <2>1, ConstantsAssumption DEF TypeOK, SrvTypeOK, HistoryTypeOK, Ends, Ids
<1>1. CASE ClientCalls
    <2>1. /\ UNCHANGED <<handler, callback, m_PlaybackId, started>>
          /\ \/ inbox' = inbox
             \/ \E m \in Messages : m.kind # "PlaybackEos" /\ inbox' = Append(inbox, m)
        BY <1>1, CallBegins
    <2>2. \A m \in Items(inbox') : m \in Items(inbox) \/ IsRequest(m)
        <3>1. CASE inbox' = inbox
            BY <3>1
        <3>2. ASSUME NEW m \in Messages, m.kind # "PlaybackEos", inbox' = Append(inbox, m)
              PROVE  \A x \in Items(inbox') : x \in Items(inbox) \/ IsRequest(x)
            <4>1. Items(inbox') = Items(inbox) \cup {m}
                BY <1>c, <3>2, PostOrder
            <4>2. QED
                BY <3>2, <4>1 DEF IsRequest
        <3>3. QED
            BY <2>1, <3>1, <3>2
    <2>3. Items(inbox)' = Items(inbox')
        BY DEF Items
    <2>4. TaggedEnds' \subseteq TaggedEnds
        BY <2>1, <2>2, <2>3 DEF TaggedEnds
    <2>5. QED
        BY <2>1, <2>4, TagsKept DEF TagsAreTrue
<1>2. CASE ClientReturns
    <2>1. UNCHANGED <<inbox, handler, callback, m_PlaybackId, started>>
        BY <1>2, <1>a, ReturnForm
    <2>2. QED
        BY <2>1 DEF TagsAreTrue, TaggedEnds, Items
<1>3. CASE Quits
    <2>1. UNCHANGED <<inbox, handler, callback, m_PlaybackId, started>>
        BY <1>3 DEF Quits, ThreadEnds, ExitInstance, ExitInstanceEnds
    <2>2. QED
        BY <2>1 DEF TagsAreTrue, TaggedEnds, Items
<1>4. CASE EndOfStream
    <2>1. UNCHANGED <<inbox, handler, m_PlaybackId, started>> /\ callback' = [pc |-> "onPlaybackEos"]
        BY <1>4 DEF EndOfStream
    <2>2. TaggedEnds' \subseteq TaggedEnds
        BY <2>1 DEF TaggedEnds, Items
    <2>3. QED
        BY <2>1, <2>2, TagsKept DEF TagsAreTrue
<1>5. CASE onPlaybackEos
    <2>1. /\ UNCHANGED <<inbox, handler, m_PlaybackId, started>>
          /\ callback' = [pc |-> "post",
                          msg |-> [kind |-> "PlaybackEos", id |-> m_PlaybackId, started |-> started]]
        BY <1>5 DEF onPlaybackEos
    <2>2. \A m \in TaggedEnds' : m \in TaggedEnds \/ (m.id = m_PlaybackId /\ m.started = started)
        BY <2>1 DEF TaggedEnds, Items
    <2>3. QED
        BY <1>d, <2>1, <2>2 DEF TagsAreTrue
<1>6. CASE PostPlaybackEos
    <2>1. /\ UNCHANGED <<handler, m_PlaybackId, started>> /\ callback.pc = "post" /\ callback'.pc = "none"
          /\ inbox' = inbox \/ inbox' = Append(inbox, callback.msg)
        BY <1>6 DEF PostPlaybackEos, Post, NoCallback
    <2>2. callback.msg \in Messages
        BY <1>a, <2>1 DEF TypeOK, PlayerTypeOK, NoCallback, Messages
    <2>3. Items(inbox') \subseteq Items(inbox) \cup {callback.msg}
        BY <1>c, <2>1, <2>2, PostOrder
    <2>4. Items(inbox)' = Items(inbox')
        BY DEF Items
    <2>5. TaggedEnds' \subseteq TaggedEnds
        BY <2>1, <2>3, <2>4 DEF TaggedEnds
    <2>6. QED
        BY <2>1, <2>5, TagsKept DEF TagsAreTrue
<1>7. CASE OnNewMessage
    <2>1. /\ UNCHANGED <<callback, m_PlaybackId, started>> /\ Items(inbox) = {Head(inbox)} \cup Items(inbox')
          /\ handler' = [pc |-> Head(inbox).kind, msg |-> Head(inbox)]
          /\ handler'.pc # "Eos_stop"
        BY <1>7, <1>a, TakeForm
    <2>2. Items(inbox)' = Items(inbox')
        BY DEF Items
    <2>3. handler'.pc = "PlaybackEos" => ~IsRequest(Head(inbox))
        BY <2>1 DEF IsRequest
    <2>4. TaggedEnds' \subseteq TaggedEnds
        BY <2>1, <2>2, <2>3 DEF TaggedEnds
    <2>5. QED
        BY <2>1, <2>4, TagsKept
<1>8. CASE On_PlayId
    <2>1. handler.pc = "Play_id" /\ handler.msg.kind = "Play" /\ Busy /\ IsRequest(handler.msg)
        BY <1>8, <1>a DEF On_PlayId, HandlesItsKind, Busy, IsRequest
    <2>2. handler.msg.call \in Nat /\ handler.msg.call <= MaxCalls /\ started < handler.msg.call
        BY <1>b, <2>1, MessageTypes, ConstantsAssumption DEF StartedBefore, Calls, Busy, IsRequest
    <2>3. m_PlaybackId <= started
        BY DEF TagsAreTrue
    <2>4. m_PlaybackId' = m_PlaybackId + 1
        BY <1>8, <1>d, <2>2, <2>3, ConstantsAssumption DEF On_PlayId, NextId
    <2>5. started' = handler.msg.call /\ handler'.pc = "Play_start" /\ UNCHANGED <<inbox, callback>>
        BY <1>8, <1>b DEF On_PlayId
    <2>6. TaggedEnds' \subseteq TaggedEnds
        BY <2>5 DEF TaggedEnds, Items
    <2>7. \A m \in TaggedEnds' : m.id <= m_PlaybackId' /\ m.id # m_PlaybackId'
        BY <1>d, <2>4, <2>6 DEF TagsAreTrue
    <2>8. QED
        BY <1>d, <2>2, <2>3, <2>4, <2>5, <2>7 DEF TagsAreTrue
<1>9. CASE Handlers /\ ~On_PlayId
    <2>1. UNCHANGED <<m_PlaybackId, started, inbox, callback>> /\ handler.pc # "rest"
        BY <1>9 DEF Handlers, On_setDataSource, On_Prepare, On_PlayRefused, On_Play, On_PlayStart,
           On_StopIdle, On_Stop, On_StopOutput, On_StopStatus, On_StopAnswer, On_PlaybackEosIgnored,
           On_PlaybackEos, On_PlaybackEosStop, On_PlaybackEosStatus, StopPlayer
    <2>2. \/ handler' = [pc |-> "rest"]
          \/ \E pc \in HandlerPcs \ {"PlaybackEos", "Eos_stop"} : handler' = [handler EXCEPT !.pc = pc]
          \/ /\ handler.pc = "PlaybackEos" /\ handler.msg.id = m_PlaybackId
             /\ handler' = [handler EXCEPT !.pc = "Eos_stop"]
        BY <1>9 DEF Handlers, On_setDataSource, On_Prepare, On_PlayRefused, On_Play, On_PlayStart,
           On_StopIdle, On_Stop, On_StopOutput, On_StopStatus, On_StopAnswer, On_PlaybackEosIgnored,
           On_PlaybackEos, On_PlaybackEosStop, On_PlaybackEosStatus, StopPlayer, HandlerPcs
    <2>3. handler'.pc \in {"PlaybackEos", "Eos_stop"} =>
              handler.pc = "PlaybackEos" /\ handler'.msg = handler.msg /\ handler.msg.id = m_PlaybackId
        BY <1>b, <2>1, <2>2
    <2>4. TaggedEnds' \subseteq TaggedEnds
        BY <2>1, <2>3 DEF TaggedEnds, Items
    <2>5. QED
        BY <2>1, <2>3, <2>4, TagsKept
<1>10. CASE UNCHANGED vars
    BY <1>10 DEF vars, TagsAreTrue, TaggedEnds, Items
<1>11. QED
    BY <1>1, <1>2, <1>3, <1>4, <1>5, <1>6, <1>7, <1>8, <1>9, <1>10 DEF Next, Callbacks

\* An end of stream ends the playback it was tagged in, as long as the identifiers do not come
\* round: they are 32 bits wide, and each is a call of Play.
THEOREM EndsOfStreamEndTheirPlayback ==
    ASSUME MaxCalls < IdModulus
    PROVE  Spec => EosEndsOnlyTheCurrentPlayback
<1>1. Init => TagsAreTrue
    BY DEF Init, TagsAreTrue, TaggedEnds, Items, Rest, NoCallback
<1>2. Base /\ StartedBefore /\ TagsAreTrue /\ [Next]_vars => TagsAreTrue'
    BY TagsStep
<1>3. Base /\ TagsAreTrue => EosEndsCurrentPlayback
    <2> SUFFICES ASSUME TagsAreTrue, On_PlaybackEosStop PROVE handler.msg.started = started
        BY DEF EosEndsCurrentPlayback
    <2>1. handler.pc = "Eos_stop"
        BY DEF On_PlaybackEosStop, StopPlayer, At
    <2>2. handler.msg \in TaggedEnds /\ handler.msg.id = m_PlaybackId
        BY <2>1 DEF TaggedEnds, TagsAreTrue
    <2>3. QED
        BY <2>2 DEF TagsAreTrue
<1>4. QED
    BY <1>1, <1>2, <1>3, StartedInv, PTL DEF Spec, EosEndsOnlyTheCurrentPlayback


-----------------------------------------------------------------------------
(* The ends of a playback.                                                 *)

EndsIn(s) == {i \in DOMAIN s : ~IsRequest(s[i])}

\* An end that is posted adds one to those in the queue, and one that is taken leaves one less.
LEMMA EndsPosted ==
    ASSUME NEW s \in Seq(Messages), NEW m \in Messages
    PROVE  /\ IsFiniteSet(EndsIn(s)) /\ Cardinality(EndsIn(s)) \in Nat
           /\ IsRequest(m) => EndsIn(Append(s, m)) = EndsIn(s)
           /\ ~IsRequest(m) => Cardinality(EndsIn(Append(s, m))) = Cardinality(EndsIn(s)) + 1
<1>1. /\ Len(s) \in Nat /\ DOMAIN s = 1 .. Len(s)
      /\ DOMAIN Append(s, m) = 1 .. Len(s) + 1
      /\ \A i \in 1 .. Len(s) : Append(s, m)[i] = s[i]
      /\ Append(s, m)[Len(s) + 1] = m
    BY AppendProperties, LenProperties
<1>2. /\ \A i \in 1 .. Len(s) + 1 : i \in 1 .. Len(s) \/ i = Len(s) + 1
      /\ 1 .. Len(s) \subseteq 1 .. Len(s) + 1
      /\ Len(s) + 1 \in 1 .. Len(s) + 1 /\ Len(s) + 1 \notin 1 .. Len(s)
    BY <1>1
<1>3. IsFiniteSet(EndsIn(s)) /\ Cardinality(EndsIn(s)) \in Nat
    <2>1. EndsIn(s) \in SUBSET (1 .. Len(s)) /\ IsFiniteSet(1 .. Len(s))
        <3>1. EndsIn(s) \subseteq 1 .. Len(s)
            BY <1>1 DEF EndsIn
        <3>2. 1 \in Int /\ Len(s) \in Int
            BY <1>1
        <3>3. QED
            BY <3>1, <3>2, FS_Interval
    <2>2. QED
        BY <2>1, FS_Subset, FS_CardinalityType
<1>4. IsRequest(m) => EndsIn(Append(s, m)) = EndsIn(s)
    BY <1>1, <1>2 DEF EndsIn
<1>5. ASSUME ~IsRequest(m) PROVE Cardinality(EndsIn(Append(s, m))) = Cardinality(EndsIn(s)) + 1
    <2>1. EndsIn(Append(s, m)) = EndsIn(s) \cup {Len(s) + 1}
        BY <1>1, <1>2, <1>5 DEF EndsIn
    <2>2. Len(s) + 1 \notin EndsIn(s)
        BY <1>1, <1>2 DEF EndsIn
    <2>3. QED
        BY <1>3, <2>1, <2>2, FS_AddElement
<1>6. QED
    BY <1>3, <1>4, <1>5

LEMMA EndsTaken ==
    ASSUME NEW s \in Seq(Messages), s # <<>>
    PROVE  /\ Cardinality(EndsIn(Tail(s))) \in Nat /\ Cardinality(EndsIn(s)) \in Nat
           /\ Cardinality(EndsIn(Tail(s))) <= Cardinality(EndsIn(s))
           /\ ~IsRequest(Head(s)) => Cardinality(EndsIn(Tail(s))) < Cardinality(EndsIn(s))
<1>1. /\ Len(s) \in Nat /\ DOMAIN s = 1 .. Len(s) /\ Len(s) # 0 /\ Head(s) = s[1] /\ Head(s) \in Messages
      /\ DOMAIN Tail(s) = 1 .. Len(s) - 1 /\ Tail(s) \in Seq(Messages)
      /\ \A i \in 1 .. Len(s) - 1 : Tail(s)[i] = s[i + 1]
    BY HeadTailProperties, LenProperties, EmptySeq
<1>2. /\ IsFiniteSet(EndsIn(s)) /\ Cardinality(EndsIn(s)) \in Nat
      /\ Cardinality(EndsIn(Tail(s))) \in Nat
    BY <1>1, EndsPosted
<1> DEFINE rest == EndsIn(s) \ {1}
           moved == [i \in rest |-> i - 1]
<1>3. Cardinality(EndsIn(Tail(s))) <= Cardinality(rest)
    <2>1. /\ \A i \in rest : i - 1 \in 1 .. Len(s) - 1 /\ (i - 1) + 1 = i
          /\ \A i \in 1 .. Len(s) - 1 : i + 1 \in 1 .. Len(s) /\ i + 1 # 1 /\ (i + 1) - 1 = i
        BY <1>1 DEF EndsIn
    <2>2. \A i \in rest : i - 1 \in EndsIn(Tail(s))
        BY <1>1, <2>1 DEF EndsIn
    <2>3. \A i \in EndsIn(Tail(s)) : i + 1 \in rest /\ moved[i + 1] = i
        BY <1>1, <2>1 DEF EndsIn
    <2>4. moved \in Surjection(rest, EndsIn(Tail(s)))
        BY <2>2, <2>3 DEF Surjection
    <2>5. IsFiniteSet(rest)
        BY <1>2, FS_RemoveElement
    <2> HIDE DEF moved, rest
    <2>6. QED
        BY <2>4, <2>5, FS_Surjection
<1>4. Cardinality(rest) = IF 1 \in EndsIn(s) THEN Cardinality(EndsIn(s)) - 1 ELSE Cardinality(EndsIn(s))
    BY <1>2, FS_RemoveElement
<1>5. ~IsRequest(Head(s)) => 1 \in EndsIn(s)
    BY <1>1 DEF EndsIn
<1> HIDE DEF rest
<1>6. QED
    BY <1>2, <1>3, <1>4, <1>5

\* The count of the calls is at most the greatest.
LEMMA MostLoops == MaxLoops \in LoopCounts /\ \A m \in LoopCounts : m <= MaxLoops
BY ConstantsAssumption DEF MaxLoops

Starting == handler.pc \in {"Play_id", "Play_start"}
One(holds) == IF holds THEN 1 ELSE 0

\* Ends of stream that were not compared with the loop count yet.
Uncounted ==
    Cardinality(EndsIn(inbox)) + One(callback.pc # "none") + One(handler.pc = "PlaybackEos")

\* The callback of a playback returns before the playback is over.
CallbacksAreOver ==
    /\ m_iPlayStatus # "PLAYING" \/ Starting \/ handler.pc = "Stop_idle" => callback.pc = "none"
    /\ Starting => player = 0

\* So the ends of a playback are handled before the next one begins.
EndsGoFirst ==
    /\ m_iPlayStatus = "PREPARED" =>
           \A i, j \in DOMAIN inbox : inbox[i].kind = "Play" /\ ~IsRequest(inbox[j]) => j < i
    /\ Starting \/ (handler.pc = "Play" /\ m_iPlayStatus = "PREPARED") => EndsIn(inbox) = {}

\* And each end takes one off the loops that remain, at most.
EndsAreCounted ==
    m_iPlayStatus = "PLAYING" /\ ~Starting =>
        /\ asked \in LoopCounts
        /\ ends >= MaxLoops \/ ends + m_iRemaingLoopCnt >= asked + Uncounted
        /\ handler.pc = "Eos_stop" => m_iRemaingLoopCnt = 0
        /\ handler.pc \notin {"Eos_stop", "Eos_idle"} => m_iRemaingLoopCnt > 0

LoopInv == CallbacksAreOver /\ EndsGoFirst /\ EndsAreCounted

\* A step that posts, takes and counts no end.
LEMMA LoopKept ==
    ASSUME LoopInv, player' = player \/ player' = 0, callback'.pc = "none" <=> callback.pc = "none",
           UNCHANGED <<m_iPlayStatus, m_iRemaingLoopCnt, inbox, handler, ends, asked>>
    PROVE  LoopInv'
BY DEF LoopInv, CallbacksAreOver, EndsGoFirst, EndsAreCounted, Starting, Uncounted, EndsIn

\* The types that the counts need.
LEMMA CountTypes ==
    ASSUME TypeOK
    PROVE  /\ inbox \in Seq(Messages) /\ Cardinality(EndsIn(inbox)) \in Nat
           /\ ends \in Nat /\ asked \in Nat /\ m_iRemaingLoopCnt \in Nat /\ MaxLoops \in Nat
           /\ handler.pc # "rest" => handler \in [pc : HandlerPcs, msg : Messages]
           /\ One(TRUE) = 1 /\ One(FALSE) = 0
<1>1. inbox \in Seq(Messages)
    BY DEF TypeOK, QueueTypeOK
<1>2. \E m \in Messages : TRUE
    <2>1. [kind |-> "PlaybackEos", id |-> 0, started |-> 0] \in Ends
        BY ConstantsAssumption DEF Ends, Ids
    <2>2. QED
        BY <2>1 DEF Messages
<1>3. Cardinality(EndsIn(inbox)) \in Nat
    BY <1>1, <1>2, EndsPosted
<1>4. MaxLoops \in Nat
    BY MostLoops, ConstantsAssumption
<1>5. QED
    BY <1>1, <1>3, <1>4, HandledMessage DEF TypeOK, SrvTypeOK, HistoryTypeOK, One

\* A call posts no end, and a Play comes behind what is there.
LEMMA LoopCall ==
    ASSUME Base, LoopInv, ClientCalls
    PROVE  LoopInv'
<1>a. TypeOK /\ inbox \in Seq(Messages)
    BY DEF Base, TypeOK, QueueTypeOK
<1>1. UNCHANGED <<handler, player, callback, m_iPlayStatus>>
    BY CallBegins
<1>2. UNCHANGED <<m_iRemaingLoopCnt, ends, asked>>
    BY DEF ClientCalls, setDataSource, Prepare, Play, Stop, quit, Request, srvVars, historyVars
<1>3. CASE inbox' = inbox
    BY <1>1, <1>2, <1>3, LoopKept
<1>4. ASSUME NEW m \in Messages, m.kind # "PlaybackEos", inbox' = Append(inbox, m) PROVE LoopInv'
    <2>1. EndsIn(inbox') = EndsIn(inbox)
        BY <1>a, <1>4, EndsPosted DEF IsRequest
    <2>2. EndsIn(inbox)' = EndsIn(inbox)
        BY <2>1 DEF EndsIn
    <2>3. CallbacksAreOver' /\ EndsAreCounted'
        BY <1>1, <1>2, <2>2 DEF LoopInv, CallbacksAreOver, EndsAreCounted, Starting, Uncounted
    <2>4. ASSUME m_iPlayStatus = "PREPARED", NEW k \in DOMAIN inbox', NEW j \in DOMAIN inbox',
                 inbox'[k].kind = "Play", ~IsRequest(inbox'[j])
          PROVE  j < k
        <3>1. /\ Len(inbox) \in Nat /\ DOMAIN inbox = 1 .. Len(inbox) /\ DOMAIN inbox' = 1 .. Len(inbox) + 1
              /\ \A n \in 1 .. Len(inbox) : inbox'[n] = inbox[n]
            BY <1>a, <1>4, AppendProperties, LenProperties
        <3>2. j \in EndsIn(inbox)
            BY <2>1, <2>4 DEF EndsIn
        <3>3. j \in 1 .. Len(inbox) /\ ~IsRequest(inbox[j])
            BY <3>1, <3>2 DEF EndsIn
        <3>4. k \in 1 .. Len(inbox) \/ k = Len(inbox) + 1
            BY <2>4, <3>1
        <3>5. QED
            BY <2>4, <3>1, <3>3, <3>4 DEF LoopInv, EndsGoFirst
    <2>5. EndsGoFirst'
        BY <1>1, <2>2, <2>4 DEF LoopInv, EndsGoFirst, Starting
    <2>6. QED
        BY <2>3, <2>5 DEF LoopInv
<1>5. QED
    BY <1>3, <1>4, CallBegins

\* The player comes to an end only while its playback is on.
LEMMA LoopEnd ==
    ASSUME Base, LoopInv, EndOfStream
    PROVE  LoopInv'
<1>1. /\ UNCHANGED <<m_iPlayStatus, m_iRemaingLoopCnt, inbox, handler, player, asked>> /\ player # 0
      /\ callback.pc = "none" /\ callback'.pc # "none"
      /\ ends' = IF ends < MaxLoops THEN ends + 1 ELSE ends
    BY DEF EndOfStream, srvVars
<1>2. m_iPlayStatus = "PLAYING" /\ ~Starting /\ handler.pc # "Stop_idle"
    BY <1>1 DEF Base, PlayerFollowsStatus, LoopInv, CallbacksAreOver
<1>3. CallbacksAreOver' /\ EndsGoFirst'
    BY <1>1, <1>2 DEF LoopInv, CallbacksAreOver, EndsGoFirst, Starting, EndsIn
<1>4. Uncounted' = Uncounted + 1
    <2>1. EndsIn(inbox)' = EndsIn(inbox)
        BY <1>1 DEF EndsIn
    <2>2. One(callback'.pc # "none") = 1 /\ One(callback.pc # "none") = 0
        BY <1>1 DEF One
    <2>3. Cardinality(EndsIn(inbox)) \in Nat /\ One(handler.pc = "PlaybackEos") \in Nat
        BY CountTypes DEF Base, One
    <2>4. QED
        BY <1>1, <2>1, <2>2, <2>3 DEF Uncounted
<1>5. Uncounted \in Nat
    BY CountTypes DEF Base, Uncounted, One
<1>6. EndsAreCounted'
    <2>1. ends' >= MaxLoops \/ ends' + m_iRemaingLoopCnt >= asked + Uncounted'
        BY <1>1, <1>2, <1>4, <1>5, CountTypes DEF Base, LoopInv, EndsAreCounted
    <2>2. QED
        BY <1>1, <1>2, <2>1 DEF LoopInv, EndsAreCounted, Starting
<1>7. QED
    BY <1>3, <1>6 DEF LoopInv

\* An end that is posted goes from the callback to the queue, or nowhere.
LEMMA LoopPost ==
    ASSUME Base, LoopInv, PostPlaybackEos
    PROVE  LoopInv'
<1>a. TypeOK /\ inbox \in Seq(Messages)
    BY DEF Base, TypeOK, QueueTypeOK
<1>1. /\ UNCHANGED <<m_iPlayStatus, m_iRemaingLoopCnt, handler, player, asked, ends>>
      /\ callback.pc = "post" /\ callback'.pc = "none"
      /\ inbox' = inbox \/ inbox' = Append(inbox, callback.msg)
    BY DEF PostPlaybackEos, Post, NoCallback, srvVars, historyVars
<1>2. m_iPlayStatus = "PLAYING" /\ ~Starting
    BY <1>1 DEF LoopInv, CallbacksAreOver
<1>3. callback.msg \in Messages /\ ~IsRequest(callback.msg)
    BY <1>a, <1>1 DEF TypeOK, PlayerTypeOK, NoCallback, Messages, Ends, IsRequest
<1>4. CallbacksAreOver' /\ EndsGoFirst'
    BY <1>1, <1>2 DEF LoopInv, CallbacksAreOver, EndsGoFirst, Starting
<1>5. Cardinality(EndsIn(inbox)') <= Cardinality(EndsIn(inbox)) + 1 /\ Cardinality(EndsIn(inbox)') \in Nat
      /\ Cardinality(EndsIn(inbox)) \in Nat
    <2>1. EndsIn(inbox)' = EndsIn(inbox')
        BY DEF EndsIn
    <2>2. /\ Cardinality(EndsIn(Append(inbox, callback.msg))) = Cardinality(EndsIn(inbox)) + 1
          /\ Cardinality(EndsIn(inbox)) \in Nat
        BY <1>a, <1>3, EndsPosted
    <2>3. CASE inbox' = inbox
        <3>1. Cardinality(EndsIn(inbox)') = Cardinality(EndsIn(inbox))
            BY <2>1, <2>3
        <3>2. QED
            BY <2>2, <3>1
    <2>4. CASE inbox' = Append(inbox, callback.msg)
        <3>1. Cardinality(EndsIn(inbox)') = Cardinality(EndsIn(inbox)) + 1
            BY <2>1, <2>2, <2>4
        <3>2. QED
            BY <2>2, <3>1
    <2>5. QED
        BY <1>1, <2>3, <2>4
<1>6. Uncounted' <= Uncounted /\ Uncounted' \in Nat /\ Uncounted \in Nat
    <2>1. One(callback'.pc # "none") = 0 /\ One(callback.pc # "none") = 1
        BY <1>1 DEF One
    <2>2. One(handler.pc = "PlaybackEos") \in Nat
        BY DEF One
    <2>3. QED
        BY <1>1, <1>5, <2>1, <2>2 DEF Uncounted
<1>7. EndsAreCounted'
    BY <1>a, <1>1, <1>2, <1>6, CountTypes DEF LoopInv, EndsAreCounted, Starting
<1>8. QED
    BY <1>4, <1>7 DEF LoopInv

\* An end that is taken goes from the queue to the handler; a Play that is taken to begin a
\* playback has no end behind it.
LEMMA LoopTake ==
    ASSUME Base, LoopInv, OnNewMessage
    PROVE  LoopInv'
<1>a. TypeOK
    BY DEF Base
<1>1. /\ handler.pc = "rest" /\ inbox \in Seq(Messages) /\ inbox # <<>>
      /\ inbox' = Tail(inbox) /\ handler'.pc = Head(inbox).kind /\ Head(inbox) \in Messages
      /\ handler'.pc \in {"setDataSource", "Prepare", "Play", "Stop", "PlaybackEos"}
      /\ UNCHANGED <<m_iPlayStatus, player, callback>>
    BY <1>a, TakeForm
<1>2. UNCHANGED <<m_iRemaingLoopCnt, ends, asked>>
    BY DEF OnNewMessage, srvVars, historyVars
<1>3. ~Starting /\ ~Starting'
    BY <1>1 DEF Starting
<1>4. CallbacksAreOver'
    BY <1>1, <1>3 DEF LoopInv, CallbacksAreOver
<1>5. /\ Len(inbox) \in Nat /\ DOMAIN inbox = 1 .. Len(inbox) /\ Len(inbox) # 0 /\ Head(inbox) = inbox[1]
      /\ DOMAIN inbox' = 1 .. Len(inbox) - 1
      /\ \A i \in 1 .. Len(inbox) - 1 : inbox'[i] = inbox[i + 1]
    BY <1>1, HeadTailProperties, LenProperties, EmptySeq
<1>6. /\ \A i \in 1 .. Len(inbox) - 1 : i + 1 \in 1 .. Len(inbox) /\ ~(i + 1 < 1) /\ i \in Int
      /\ 1 \in 1 .. Len(inbox)
    BY <1>5
<1>7. EndsGoFirst'
    <2>1. ASSUME m_iPlayStatus = "PREPARED", NEW k \in DOMAIN inbox', NEW j \in DOMAIN inbox',
                 inbox'[k].kind = "Play", ~IsRequest(inbox'[j])
          PROVE  j < k
        <3>1. j + 1 < k + 1
            BY <1>5, <1>6, <2>1 DEF LoopInv, EndsGoFirst
        <3>2. QED
            BY <1>5, <1>6, <2>1, <3>1
    <2>2. ASSUME m_iPlayStatus = "PREPARED", handler'.pc = "Play" PROVE EndsIn(inbox') = {}
        <3>1. inbox[1].kind = "Play"
            BY <1>1, <1>5, <2>2
        <3>2. \A j \in DOMAIN inbox' : IsRequest(inbox'[j])
            BY <1>5, <1>6, <2>2, <3>1 DEF LoopInv, EndsGoFirst
        <3>3. QED
            BY <3>2 DEF EndsIn
    <2>3. EndsIn(inbox)' = EndsIn(inbox')
        BY DEF EndsIn
    <2>4. QED
        BY <1>1, <1>3, <2>1, <2>2, <2>3 DEF EndsGoFirst
<1>8. Uncounted' <= Uncounted /\ Uncounted' \in Nat /\ Uncounted \in Nat
    <2>1. EndsIn(inbox)' = EndsIn(Tail(inbox))
        BY <1>1 DEF EndsIn
    <2>2. /\ Cardinality(EndsIn(Tail(inbox))) \in Nat /\ Cardinality(EndsIn(inbox)) \in Nat
          /\ Cardinality(EndsIn(Tail(inbox))) <= Cardinality(EndsIn(inbox))
          /\ handler'.pc = "PlaybackEos" => Cardinality(EndsIn(Tail(inbox))) < Cardinality(EndsIn(inbox))
        BY <1>1, EndsTaken DEF IsRequest
    <2>3. /\ One(handler.pc = "PlaybackEos") = 0 /\ One(callback.pc # "none") \in Nat
          /\ One(handler'.pc = "PlaybackEos") = IF handler'.pc = "PlaybackEos" THEN 1 ELSE 0
        BY <1>1 DEF One
    <2>4. QED
        BY <1>1, <2>1, <2>2, <2>3 DEF Uncounted
<1>9. EndsAreCounted'
    <2>1. m_iPlayStatus = "PLAYING" =>
              (ends >= MaxLoops \/ ends + m_iRemaingLoopCnt >= asked + Uncounted')
        BY <1>a, <1>3, <1>8, CountTypes DEF LoopInv, EndsAreCounted
    <2>2. QED
        BY <1>1, <1>2, <1>3, <2>1 DEF LoopInv, EndsAreCounted
<1>10. QED
    BY <1>4, <1>7, <1>9 DEF LoopInv

\* A handler's step that neither begins nor ends a playback, nor counts an end.
LEMMA LoopHandled ==
    ASSUME Base, LoopInv, player' = player \/ player' = 0, ~Starting,
           UNCHANGED <<m_iPlayStatus, m_iRemaingLoopCnt, inbox, callback, ends, asked>>,
           handler'.pc \notin {"Play", "Play_id", "Play_start", "PlaybackEos", "Eos_stop"},
           handler'.pc = "Stop_idle" => callback.pc = "none",
           handler.pc \in {"Eos_stop", "Eos_idle"} => handler'.pc = "Eos_idle"
    PROVE  LoopInv'
<1>1. EndsIn(inbox)' = EndsIn(inbox) /\ ~Starting'
    BY DEF EndsIn, Starting
<1>2. CallbacksAreOver' /\ EndsGoFirst'
    BY <1>1 DEF LoopInv, CallbacksAreOver, EndsGoFirst
<1>3. Uncounted' <= Uncounted /\ Uncounted' \in Nat /\ Uncounted \in Nat
    BY <1>1, CountTypes DEF Base, Uncounted, One
<1>4. m_iPlayStatus = "PLAYING" => (ends >= MaxLoops \/ ends + m_iRemaingLoopCnt >= asked + Uncounted')
    BY <1>3, CountTypes DEF Base, LoopInv, EndsAreCounted
<1>5. EndsAreCounted'
    BY <1>1, <1>4 DEF LoopInv, EndsAreCounted
<1>6. QED
    BY <1>2, <1>5 DEF LoopInv

\* A playback begins when no end of an earlier one is left, in the queue or on its way.
LEMMA LoopBegins ==
    ASSUME Base, LoopInv, On_Prepare \/ On_Play \/ On_PlayId \/ On_PlayStart
    PROVE  LoopInv'
<1> USE DEF At, Done, Goto, Rest, srvVars, clientVars, answerVars, historyVars
<1>a. TypeOK /\ HandlesItsKind /\ PlayerFollowsStatus /\ CallInv
    BY DEF Base
<1>b. handler.pc # "rest" => handler \in [pc : HandlerPcs, msg : Messages]
    BY <1>a, HandledMessage DEF TypeOK
<1>1. CASE On_Prepare /\ m_iPlayStatus = "IDLE"
    <2>1. /\ m_iPlayStatus' = "PREPARED" /\ handler.pc = "Prepare" /\ handler'.pc = "rest"
          /\ UNCHANGED <<m_iRemaingLoopCnt, inbox, callback, ends, asked, player>>
        BY <1>1 DEF On_Prepare
    <2>2. handler.msg.kind = "Prepare" /\ Busy /\ IsRequest(handler.msg)
        BY <1>a, <2>1 DEF HandlesItsKind, Busy, IsRequest
    <2>3. Awaited(handler.msg, {"Prepare"})
        BY <2>2, HandledCall
    <2>4. \A m \in Items(inbox) : m.kind # "Play"
        BY <1>a, <2>3 DEF CallInv, OnlyStopsAreLeftBehind, Pending, Awaited, IsRequest
    <2>5. \A i \in DOMAIN inbox : inbox[i].kind # "Play"
        BY <2>4 DEF Items
    <2>6. QED
        BY <1>1, <2>1, <2>5 DEF LoopInv, CallbacksAreOver, EndsGoFirst, EndsAreCounted, Starting
<1>2. CASE On_Prepare /\ m_iPlayStatus # "IDLE"
    <2>1. /\ handler.pc = "Prepare" /\ handler'.pc = "rest" /\ m_iPlayStatus' = m_iPlayStatus
          /\ UNCHANGED <<m_iRemaingLoopCnt, inbox, callback, ends, asked, player>>
        BY <1>2 DEF On_Prepare
    <2>2. QED
        BY <2>1, LoopHandled DEF Starting
<1>3. CASE On_Play
    <2>1. /\ m_iPlayStatus = "PREPARED" /\ handler.pc = "Play"
          /\ m_iPlayStatus' = "PLAYING" /\ UNCHANGED <<inbox, callback, player>>
        BY <1>3 DEF On_Play
    <2>2. handler'.pc = "Play_id"
        BY <1>3, <1>b DEF On_Play
    <2>3. player = 0 /\ callback.pc = "none" /\ EndsIn(inbox) = {}
        BY <1>a, <2>1 DEF PlayerFollowsStatus, LoopInv, CallbacksAreOver, EndsGoFirst
    <2>4. QED
        BY <2>1, <2>2, <2>3 DEF LoopInv, CallbacksAreOver, EndsGoFirst, EndsAreCounted, Starting, EndsIn
<1>4. CASE On_PlayId
    <2>1. handler.pc = "Play_id" /\ UNCHANGED <<m_iPlayStatus, inbox, callback, player>>
        BY <1>4 DEF On_PlayId
    <2>2. handler'.pc = "Play_start" /\ m_iPlayStatus = "PLAYING"
        BY <1>4, <1>a, <1>b, <2>1 DEF On_PlayId, PlayerFollowsStatus
    <2>3. QED
        BY <2>1, <2>2 DEF LoopInv, CallbacksAreOver, EndsGoFirst, EndsAreCounted, Starting, EndsIn
<1>5. CASE On_PlayStart
    <2>1. /\ handler.pc = "Play_start" /\ handler'.pc = "rest" /\ UNCHANGED <<m_iPlayStatus, inbox, callback>>
          /\ m_iRemaingLoopCnt' = handler.msg.loops /\ asked' = handler.msg.loops /\ ends' = 0
        BY <1>5 DEF On_PlayStart
    <2>2. handler.msg \in Messages /\ handler.msg.kind = "Play"
        BY <1>a, <1>b, <2>1 DEF HandlesItsKind
    <2>3. asked' \in LoopCounts /\ asked' \in Nat /\ asked' > 0
        <3>1. handler.msg.loops \in LoopCounts
            BY <2>2 DEF Messages, Requests, Ends
        <3>2. \A n \in LoopCounts : n \in Nat /\ n > 0
            <4>1. LoopCounts \subseteq Nat \ {0}
                BY ConstantsAssumption
            <4>2. \A n \in Nat \ {0} : n \in Nat /\ n > 0
                OBVIOUS
            <4>3. QED
                BY <4>1, <4>2
        <3>3. handler.msg.loops \in Nat /\ handler.msg.loops > 0
            BY <3>1, <3>2
        <3>4. QED
            BY <2>1, <3>1, <3>3
    <2>4. m_iPlayStatus = "PLAYING" /\ callback.pc = "none" /\ EndsIn(inbox) = {}
        BY <1>a, <2>1 DEF PlayerFollowsStatus, LoopInv, CallbacksAreOver, EndsGoFirst, Starting
    <2>5. EndsIn(inbox)' = {}
        BY <2>1, <2>4 DEF EndsIn
    <2>6. Uncounted' = 0
        BY <2>1, <2>4, <2>5, FS_EmptySet DEF Uncounted, One
    <2>7. EndsAreCounted'
        BY <2>1, <2>3, <2>6 DEF EndsAreCounted
    <2>8. CallbacksAreOver' /\ EndsGoFirst'
        BY <2>1, <2>4 DEF CallbacksAreOver, EndsGoFirst, Starting
    <2>9. QED
        BY <2>7, <2>8 DEF LoopInv
<1>6. QED
    BY <1>1, <1>2, <1>3, <1>4, <1>5

\* An end that is counted takes one loop off those that remain, and is not waited for any more.
LEMMA LoopCounted ==
    ASSUME Base, LoopInv, On_PlaybackEos
    PROVE  LoopInv'
<1> USE DEF At, Done, Goto, Rest, srvVars, clientVars, answerVars, historyVars
<1>a. handler.pc # "rest" => handler \in [pc : HandlerPcs, msg : Messages]
    BY HandledMessage DEF Base, TypeOK
<1>1. /\ handler.pc = "PlaybackEos" /\ m_iRemaingLoopCnt' = Decremented(m_iRemaingLoopCnt)
      /\ UNCHANGED <<m_iPlayStatus, inbox, callback, player, ends, asked>>
    BY DEF On_PlaybackEos
<1>2. /\ handler'.pc \in {"rest", "Eos_stop"}
      /\ handler'.pc = "rest" => m_iRemaingLoopCnt' > 0 \/ m_iPlayStatus = "IDLE"
      /\ handler'.pc = "Eos_stop" => ~(m_iRemaingLoopCnt' > 0)
    BY <1>a, <1>1 DEF On_PlaybackEos
<1>3. ~Starting /\ ~Starting' /\ EndsIn(inbox)' = EndsIn(inbox)
    BY <1>1, <1>2 DEF Starting, EndsIn
<1>4. CallbacksAreOver' /\ EndsGoFirst'
    BY <1>1, <1>2, <1>3 DEF LoopInv, CallbacksAreOver, EndsGoFirst
<1>5. Uncounted = Uncounted' + 1 /\ Uncounted' \in Nat
    <2>1. One(handler.pc = "PlaybackEos") = 1 /\ One(handler'.pc = "PlaybackEos") = 0
        BY <1>1, <1>2 DEF One
    <2>2. One(callback.pc # "none") \in Nat /\ Cardinality(EndsIn(inbox)) \in Nat
        BY CountTypes DEF Base, One
    <2>3. QED
        BY <1>1, <1>3, <2>1, <2>2 DEF Uncounted
<1>6. ASSUME m_iPlayStatus = "PLAYING"
      PROVE  /\ asked \in LoopCounts /\ m_iRemaingLoopCnt' = m_iRemaingLoopCnt - 1
             /\ m_iRemaingLoopCnt' \in Nat
             /\ ends >= MaxLoops \/ ends + m_iRemaingLoopCnt' >= asked + Uncounted'
    <2>1. /\ asked \in LoopCounts /\ m_iRemaingLoopCnt > 0
          /\ ends >= MaxLoops \/ ends + m_iRemaingLoopCnt >= asked + Uncounted
        BY <1>1, <1>3, <1>6 DEF LoopInv, EndsAreCounted
    <2>2. m_iRemaingLoopCnt \in Nat /\ ends \in Nat /\ asked \in Nat
        BY CountTypes DEF Base
    <2>3. m_iRemaingLoopCnt' = m_iRemaingLoopCnt - 1 /\ m_iRemaingLoopCnt' \in Nat
        BY <1>1, <2>1, <2>2 DEF Decremented
    <2>4. ends >= MaxLoops \/ ends + m_iRemaingLoopCnt' >= asked + Uncounted'
        <3>1. CASE ends >= MaxLoops
            BY <3>1
        <3>2. CASE ends + m_iRemaingLoopCnt >= asked + Uncounted
            <4>1. ends + m_iRemaingLoopCnt >= asked + (Uncounted' + 1)
                BY <1>5, <3>2
            <4>2. \A e, r, a, u \in Nat : e + r >= a + (u + 1) => e + (r - 1) >= a + u
                OBVIOUS
            <4>3. ends + (m_iRemaingLoopCnt - 1) >= asked + Uncounted'
                BY <1>5, <2>2, <4>1, <4>2
            <4>4. QED
                BY <2>3, <4>3
        <3>3. QED
            BY <2>1, <3>1, <3>2
    <2>5. QED
        BY <2>1, <2>3, <2>4
<1>7. EndsAreCounted'
    <2>1. ASSUME handler'.pc = "Eos_stop", m_iPlayStatus = "PLAYING" PROVE m_iRemaingLoopCnt' = 0
        <3>1. m_iRemaingLoopCnt' \in Nat
            BY <1>6, <2>1
        <3>2. ~(m_iRemaingLoopCnt' > 0)
            BY <1>2, <2>1
        <3>3. QED
            BY <3>1, <3>2
    <2>2. QED
        BY <1>1, <1>2, <1>6, <2>1 DEF EndsAreCounted
<1>8. QED
    BY <1>4, <1>7 DEF LoopInv

\* Where the stop waits for the callback, each step keeps the ends apart and counts them.
LEMMA LoopStep ==
    ASSUME StopDrains, Base, LoopInv, [Next]_vars
    PROVE  LoopInv'
<1> USE DEF At, Done, Goto, Rest, srvVars, clientVars, answerVars, historyVars
<1>a. TypeOK /\ PlayerFollowsStatus
    BY DEF Base
<1>b. handler.pc # "rest" => handler \in [pc : HandlerPcs, msg : Messages]
    BY <1>a, HandledMessage DEF TypeOK
<1>1. CASE ClientReturns \/ Quits \/ onPlaybackEos \/ UNCHANGED vars
    <2>1. UNCHANGED <<m_iPlayStatus, m_iRemaingLoopCnt, inbox, handler, ends, asked>>
        BY <1>1 DEF ClientReturns, Answered, StopSeesIdle, Return, Quits, ThreadEnds, ExitInstance,
           ExitInstanceEnds, onPlaybackEos, vars
    <2>a. player' = player \/ player' = 0
        BY <1>1 DEF ClientReturns, Answered, StopSeesIdle, Return, Quits, ThreadEnds, ExitInstance,
           ExitInstanceEnds, onPlaybackEos, vars
    <2>b. callback'.pc = "none" <=> callback.pc = "none"
        BY <1>1 DEF ClientReturns, Answered, StopSeesIdle, Return, Quits, ThreadEnds, ExitInstance,
           ExitInstanceEnds, onPlaybackEos, vars
    <2>2. QED
        BY <2>1, <2>a, <2>b, LoopKept
<1>2. CASE On_setDataSource \/ On_PlayRefused \/ On_StopAnswer \/ On_PlaybackEosIgnored
    <2>1. /\ UNCHANGED <<m_iPlayStatus, m_iRemaingLoopCnt, inbox, callback, ends, asked, player>>
          /\ handler'.pc = "rest"
          /\ handler.pc \in {"setDataSource", "Play", "Stop_answer", "PlaybackEos"}
        <3>1. CASE On_setDataSource
            BY <3>1 DEF On_setDataSource
        <3>2. CASE On_PlayRefused
            BY <3>2 DEF On_PlayRefused
        <3>3. CASE On_StopAnswer
            BY <3>3 DEF On_StopAnswer
        <3>4. CASE On_PlaybackEosIgnored
            BY <3>4 DEF On_PlaybackEosIgnored
        <3>5. QED
            BY <1>2, <3>1, <3>2, <3>3, <3>4
    <2>2. QED
        BY <2>1, LoopHandled DEF Starting
<1>3. CASE On_StopIdle \/ On_Stop \/ On_StopOutput \/ On_PlaybackEosStop
    <2>1. /\ UNCHANGED <<m_iPlayStatus, m_iRemaingLoopCnt, inbox, callback, ends, asked>>
          /\ player' = player \/ player' = 0
          /\ handler.pc \in {"Stop", "Stop_output", "Eos_stop"}
        BY <1>3 DEF On_StopIdle, On_Stop, On_StopOutput, On_PlaybackEosStop, StopPlayer
    <2>2. /\ handler'.pc \in {"Stop_answer", "Stop_output", "Stop_idle", "Eos_idle"}
          /\ handler.pc = "Eos_stop" => handler'.pc = "Eos_idle"
          /\ handler'.pc = "Stop_idle" => callback.pc = "none"
        BY <1>3, <1>b, StopDrains DEF On_StopIdle, On_Stop, On_StopOutput, On_PlaybackEosStop, StopPlayer,
           Drained
    <2>3. QED
        BY <2>1, <2>2, LoopHandled DEF Starting
<1>4. CASE On_StopStatus \/ On_PlaybackEosStatus
    <2>1. /\ m_iPlayStatus' = "IDLE" /\ UNCHANGED <<inbox, callback, player>>
          /\ handler.pc \in {"Stop_idle", "Eos_idle"}
          /\ handler.pc = "Eos_idle" => callback.pc = "none"
        BY <1>4, StopDrains DEF On_StopStatus, On_PlaybackEosStatus, Drained
    <2>2. callback.pc = "none" /\ handler'.pc \in {"Stop_answer", "rest"}
        BY <1>4, <1>b, <2>1 DEF LoopInv, CallbacksAreOver, On_StopStatus, On_PlaybackEosStatus
    <2>3. QED
        BY <2>1, <2>2 DEF LoopInv, CallbacksAreOver, EndsGoFirst, EndsAreCounted, Starting
<1>5. QED
    BY <1>1, <1>2, <1>3, <1>4, LoopCall, LoopEnd, LoopPost, LoopTake, LoopBegins, LoopCounted
       DEF Next, Handlers, Callbacks

\* A playback ends by itself only after as many ends of its stream as Play asked for, where
\* the stop of the player waits for the callback, and whatever the identifiers are: the ends of
\* a playback are all handled before the next one begins.
THEOREM PlaybacksEndAfterTheirLoops ==
    ASSUME StopDrains
    PROVE  Spec => PlaybackEndsAfterItsLoops
<1>1. Init => LoopInv
    BY DEF Init, LoopInv, CallbacksAreOver, EndsGoFirst, EndsAreCounted, Starting, Rest, NoCallback
<1>2. Base /\ LoopInv /\ [Next]_vars => LoopInv'
    BY LoopStep
<1>3. ASSUME Base, LoopInv PROVE EndedAfterItsLoops
    <2> SUFFICES ASSUME On_PlaybackEosStop, m_iPlayStatus = "PLAYING" PROVE ends >= asked
        BY DEF EndedAfterItsLoops
    <2>1. handler.pc = "Eos_stop"
        BY DEF On_PlaybackEosStop, StopPlayer, At
    <2>2. /\ asked \in LoopCounts /\ m_iRemaingLoopCnt = 0
          /\ ends >= MaxLoops \/ ends + m_iRemaingLoopCnt >= asked + Uncounted
        BY <1>3, <2>1 DEF LoopInv, EndsAreCounted, Starting
    <2>3. Uncounted \in Nat /\ ends \in Nat /\ asked \in Nat /\ MaxLoops \in Nat
        BY <1>3, CountTypes DEF Base, Uncounted, One
    <2>4. asked <= MaxLoops
        BY <2>2, MostLoops
    <2>5. QED
        BY <2>2, <2>3, <2>4
<1>4. QED
    BY <1>1, <1>2, <1>3, StartedInv, PTL DEF Spec, PlaybackEndsAfterItsLoops

=============================================================================
