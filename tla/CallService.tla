----------------------------- MODULE CallService -----------------------------
(***************************************************************************)
(* What the property service promises to the threads of a process, without *)
(* sockets, serial numbers or a mutex: one request at a time is sent and   *)
(* waited for; each is carried out once, in the order sent, or never; and  *)
(* an answer comes when it was carried out and nothing is left behind it.  *)
(* A call may be over without an answer while its request still waits.     *)
(***************************************************************************)
EXTENDS Naturals, Sequences

CONSTANT Calls

VARIABLES
    stage,    \* per call: new, open, sent or over
    todo,     \* requests that wait, oldest first
    hand,     \* the request the service is about to carry out, if any
    served,   \* requests that were carried out
    answered  \* calls that returned with an answer to be relied on

vars == <<stage, todo, hand, served, answered>>

Init ==
    /\ stage = [n \in Calls |-> "new"]
    /\ todo = <<>>
    /\ hand = {}
    /\ served = {}
    /\ answered = {}

Begin(n) ==
    /\ stage[n] = "new"
    /\ stage' = [stage EXCEPT ![n] = "open"]
    /\ UNCHANGED <<todo, hand, served, answered>>

Send(n) ==
    /\ stage[n] = "open"
    /\ \A k \in Calls : stage[k] # "sent"
    /\ stage' = [stage EXCEPT ![n] = "sent"]
    /\ todo' = Append(todo, n)
    /\ UNCHANGED <<hand, served, answered>>

Take ==
    /\ todo # <<>>
    /\ hand = {}
    /\ hand' = {Head(todo)}
    /\ todo' = Tail(todo)
    /\ UNCHANGED <<stage, served, answered>>

Execute(n) ==
    /\ n \in hand \ served
    /\ hand' = {}
    /\ served' = served \cup {n}
    /\ UNCHANGED <<stage, todo, answered>>

Answer(n) ==
    /\ stage[n] = "sent"
    /\ n \in served
    /\ todo = <<>> /\ hand = {}
    /\ answered' = answered \cup {n}
    /\ stage' = [stage EXCEPT ![n] = "over"]
    /\ UNCHANGED <<todo, hand, served>>

GiveUp(n) ==
    /\ stage[n] \in {"open", "sent"}
    /\ stage' = [stage EXCEPT ![n] = "over"]
    /\ UNCHANGED <<todo, hand, served, answered>>

Crash ==
    /\ todo' = <<>>
    /\ hand' = {}
    /\ UNCHANGED <<stage, served, answered>>

Next ==
    \/ \E n \in Calls : Begin(n) \/ Send(n) \/ Execute(n) \/ Answer(n) \/ GiveUp(n)
    \/ Take
    \/ Crash

Spec == Init /\ [][Next]_vars

=============================================================================
