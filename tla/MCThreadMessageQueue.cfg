SPECIFICATION Spec
CONSTANTS
    Senders = {s1, s2}
    Receivers = {r1, r2}
    Items = {m1, m2}
    Capacity = 1
    SenderCalls = {"PostMessage", "SendMessage", "SendMessageTimeout"}
    ReceiverCalls = {"GetMessage", "GetMessageTimeout", "PeekMessage", "WaitMessageTimeout", "OnNewMessage"}
    Faults = {"purge", "listenerDies"}
    NoThread = NoThread
    NoItem = NoItem
SYMMETRY Symmetry
INVARIANTS
    NoLostWakeup
    AnswerMeansProcessed
CHECK_DEADLOCK FALSE
PROPERTY ImplementsMailbox
