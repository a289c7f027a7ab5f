------------------------------- MODULE Mailbox -------------------------------
(***************************************************************************)
(* What CThreadMessageQueue promises, without threads, mutexes or events:  *)
(* a bounded FIFO whose items are each taken by one receiver and processed *)
(* once, and an answer to a sender only for an item that was processed.    *)
(***************************************************************************)
EXTENDS Integers, Sequences

CONSTANTS Items, Capacity

VARIABLES
    inbox,    \* items waiting, oldest first
    stage,    \* per item: new, queued, taken, done or dropped
    answered  \* items whose sender was told they were processed

vars == <<inbox, stage, answered>>

Init ==
    /\ inbox = <<>>
    /\ stage = [m \in Items |-> "new"]
    /\ answered = {}

Put(m) ==
    /\ stage[m] = "new"
    /\ Len(inbox) < Capacity
    /\ inbox' = Append(inbox, m)
    /\ stage' = [stage EXCEPT ![m] = "queued"]
    /\ UNCHANGED answered

Take ==
    /\ inbox # <<>>
    /\ inbox' = Tail(inbox)
    /\ stage' = [stage EXCEPT ![Head(inbox)] = "taken"]
    /\ UNCHANGED answered

Finish(m) ==
    /\ stage[m] = "taken"
    /\ stage' = [stage EXCEPT ![m] = "done"]
    /\ UNCHANGED <<inbox, answered>>

Answer(m) ==
    /\ stage[m] = "done"
    /\ answered' = answered \cup {m}
    /\ UNCHANGED <<inbox, stage>>

Clear ==
    /\ inbox' = <<>>
    /\ stage' = [m \in Items |-> IF stage[m] = "queued" THEN "dropped" ELSE stage[m]]
    /\ UNCHANGED answered

Next ==
    \/ \E m \in Items : Put(m) \/ Finish(m) \/ Answer(m)
    \/ Take
    \/ Clear

Spec == Init /\ [][Next]_vars

=============================================================================
