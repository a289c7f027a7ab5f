SPECIFICATION FairSpec
CONSTANTS
    Senders = {s1, s2}
    Receivers = {r1}
    Items = {m1, m2, m3}
    Capacity = 2
    SenderCalls = {"PostMessage", "SendMessage"}
    ReceiverCalls = {"OnNewMessage"}
    Faults = {}
    NoThread = NoThread
    NoItem = NoItem
PROPERTY NotifiedIsProcessed
CHECK_DEADLOCK FALSE
PROPERTY SendReturns
