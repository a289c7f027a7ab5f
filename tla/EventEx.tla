------------------------------- MODULE EventEx -------------------------------
(***************************************************************************)
(* CEventEx (LinuxBaseLib/EventEx.cpp): a manual-reset event made of a     *)
(* flag, a mutex and a condition variable.  An event is the record of the  *)
(* flag and of the threads blocked in pthread_cond_(timed)wait; every      *)
(* member function runs under m_Mutex, so each is one operator.            *)
(*                                                                         *)
(* WaitEvent and WaitEventTimeout call the condition wait ONCE: a thread   *)
(* that wakes returns success without looking at the flag again.           *)
(***************************************************************************)

EventOf(threads) == [m_bHasEvent : BOOLEAN, waiters : SUBSET threads]

\* The constructor: no event, nobody waits.
NewEvent == [m_bHasEvent |-> FALSE, waiters |-> {}]

\* Mutant of SetEvent: nobody is woken.
SetEventNoBroadcast(e) == [e EXCEPT !.m_bHasEvent = TRUE]

\* SetEvent broadcasts only when the flag was down.
SetEvent(e) ==
    IF e.m_bHasEvent THEN e ELSE [m_bHasEvent |-> TRUE, waiters |-> {}]

ResetEvent(e) == [e EXCEPT !.m_bHasEvent = FALSE]

\* A wait that finds the flag down joins the condition's waiters.
BeginWait(e, t) == [e EXCEPT !.waiters = @ \cup {t}]

\* A thread leaves the condition by itself: timeout or spurious wakeup.
EndWait(e, t) == [e EXCEPT !.waiters = @ \ {t}]

=============================================================================
