----------------------------- MODULE LinuxEvent -----------------------------
(***************************************************************************)
(* The events of linux_compat.cpp: a flag, a mutex and a condition         *)
(* variable.  SetEvent, ResetEvent and WaitForSingleObject in the steps    *)
(* another thread can see: taking the mutex, each access to the flag, the  *)
(* broadcast, giving the mutex back.  A thread asleep on the condition     *)
(* variable is woken by the broadcast, by nothing at all (POSIX allows     *)
(* it), or by its time-out, and has to get the mutex before it goes on.    *)
(* Any thread may make any call at any time.                               *)
(***************************************************************************)
EXTENDS Naturals

CONSTANTS
    Threads,
    NoOne,          \* nobody holds the mutex
    ManualReset     \* CreateEvent's bManualReset

ASSUME ThreadAssumption == NoOne \notin Threads
ASSUME ResetAssumption == ManualReset \in BOOLEAN

VARIABLES
    signaled,
    mutex,          \* the thread that holds it
    call,           \* the call a thread is in, or its result
    pc              \* where the thread is in it

vars == <<signaled, mutex, call, pc>>

Waits == {"wait", "timed"}
Calls == Waits \cup {"set", "reset"}
Results == {"ok", "timeout"}

\* The thread holds the mutex ...
Inside == {"test", "take", "flag", "wake", "rewake", "clear", "late", "unlock"}
\* ... or is in a call and does not hold it.
Outside == {"lock", "sleep", "woken", "expired"}

TypeOK ==
    /\ signaled \in BOOLEAN
    /\ mutex \in Threads \cup {NoOne}
    /\ call \in [Threads -> Calls \cup Results \cup {"idle"}]
    /\ pc \in [Threads -> Inside \cup Outside \cup {"out"}]

Init ==
    /\ signaled = FALSE /\ mutex = NoOne
    /\ call = [t \in Threads |-> "idle"]
    /\ pc = [t \in Threads |-> "out"]

Goto(t, from, to) ==
    /\ pc[t] = from
    /\ pc' = [pc EXCEPT ![t] = to]

Enter(t, op) ==
    /\ call[t] = "idle"
    /\ call' = [call EXCEPT ![t] = op]
    /\ Goto(t, "out", "lock")
    /\ UNCHANGED <<signaled, mutex>>

Return(t) ==
    /\ call[t] \in Results /\ pc[t] = "out"
    /\ call' = [call EXCEPT ![t] = "idle"]
    /\ UNCHANGED <<signaled, mutex, pc>>

\* pthread_mutex_lock, here and inside the two waits on the condition.
Acquire(t) ==
    /\ mutex = NoOne /\ mutex' = t
    /\ UNCHANGED <<signaled, call>>

\* The first access to the flag is a test, or a write.
Lock(t) ==
    /\ Goto(t, "lock", CASE call[t] \in Waits -> "test"
                         [] call[t] = "set" -> "flag"
                         [] call[t] = "reset" -> "clear")
    /\ Acquire(t)

\* Mutant of Unlock: the mutex is kept after ETIMEDOUT.
UnlockButLate(t) ==
    /\ \/ Goto(t, "unlock", "out") /\ call' = [call EXCEPT ![t] = "ok"]
                                   /\ mutex' = NoOne
       \/ Goto(t, "late", "out") /\ call' = [call EXCEPT ![t] = "timeout"]
                                 /\ UNCHANGED mutex
    /\ UNCHANGED signaled

Unlock(t) ==
    /\ \/ Goto(t, "unlock", "out") /\ call' = [call EXCEPT ![t] = "ok"]
       \/ Goto(t, "late", "out") /\ call' = [call EXCEPT ![t] = "timeout"]
    /\ mutex' = NoOne
    /\ UNCHANGED signaled

-----------------------------------------------------------------------------
(* SetEvent and ResetEvent.                                                *)

\* "rewake": the flag was set already.
RaiseFlag(t) ==
    /\ Goto(t, "flag", IF signaled THEN "rewake" ELSE "wake")
    /\ signaled' = TRUE
    /\ UNCHANGED <<mutex, call>>

\* Mutant of Woken: pthread_cond_signal.
WokenOne ==
    LET asleep == {u \in Threads : pc[u] = "sleep"}
    IN {u \in asleep : u = CHOOSE v \in asleep : TRUE}

\* pthread_cond_broadcast reaches every thread asleep.
Woken == {u \in Threads : pc[u] = "sleep"}

Broadcast(t) ==
    /\ pc[t] \in {"wake", "rewake"}
    /\ pc' = [u \in Threads |-> IF u = t THEN "unlock"
                                ELSE IF u \in Woken THEN "woken" ELSE pc[u]]
    /\ UNCHANGED <<signaled, mutex, call>>

ClearFlag(t) ==
    /\ Goto(t, "clear", "unlock")
    /\ signaled' = FALSE
    /\ UNCHANGED <<mutex, call>>

-----------------------------------------------------------------------------
(* WaitForSingleObject.                                                    *)

\* The loop tests the flag again after every wait.
Retest(t) == Goto(t, "woken", "test")

Proceed(t) ==
    /\ signaled
    /\ Goto(t, "test", "take")
    /\ UNCHANGED <<signaled, mutex, call>>

\* pthread_cond_wait gives the mutex back and sleeps, in one step.
Sleep(t) ==
    /\ ~signaled
    /\ Goto(t, "test", "sleep")
    /\ mutex' = NoOne
    /\ UNCHANGED <<signaled, call>>

SpuriousWakeup(t) ==
    /\ Goto(t, "sleep", "woken")
    /\ UNCHANGED <<signaled, mutex, call>>

WakeUp(t) == Retest(t) /\ Acquire(t)

\* The time is over; pthread_cond_timedwait still has to get the mutex.
TimeOut(t) ==
    /\ call[t] = "timed"
    /\ Goto(t, "sleep", "expired")
    /\ UNCHANGED <<signaled, mutex, call>>

\* ETIMEDOUT: the flag is not looked at again.
Late(t) == Goto(t, "expired", "late") /\ Acquire(t)

\* Mutant of AutoReset: the event stays set.
NeverReset == UNCHANGED signaled

AutoReset == signaled' = (ManualReset /\ signaled)

Take(t) ==
    /\ Goto(t, "take", "unlock")
    /\ AutoReset
    /\ UNCHANGED <<mutex, call>>

-----------------------------------------------------------------------------
Step(t) ==
    \/ Lock(t) \/ Unlock(t) \/ RaiseFlag(t) \/ Broadcast(t) \/ ClearFlag(t)
    \/ Proceed(t) \/ Sleep(t) \/ WakeUp(t) \/ TimeOut(t) \/ Late(t) \/ Take(t)

Next == \E t \in Threads :
    \/ \E op \in Calls : Enter(t, op)
    \/ Step(t) \/ SpuriousWakeup(t) \/ Return(t)

Spec == Init /\ [][Next]_vars

(* A thread inside a call runs, and one that waits for the mutex gets it   *)
(* some time, since calls are made for packets and not in a loop.  The     *)
(* time-out is a point in time: once it is past, the next wait ends at     *)
(* once, however often the thread is woken.  No thread has to make a call. *)
FairSpec ==
    /\ Spec
    /\ \A t \in Threads :
          /\ WF_vars(Step(t))
          /\ SF_vars(Lock(t) \/ WakeUp(t) \/ Late(t))
          /\ SF_vars(TimeOut(t))

-----------------------------------------------------------------------------
(* Properties.                                                             *)

(* The events of linux_compat.cpp are events.  Setting one takes effect    *)
(* with the broadcast, or at once where nobody can be asleep.              *)
(* (linux_compat.cpp:49-69, 488-530)                                       *)
Set == signaled /\ \A t \in Threads : pc[t] # "wake"
Phase == [t \in Threads |->
             CASE pc[t] \in {"expired", "late"} -> "timeout"
               [] pc[t] = "unlock" -> "ok"
               [] pc[t] = "rewake" -> "ok"
               [] OTHER -> call[t]]

W == INSTANCE WinEvent WITH set <- Set, phase <- Phase
Implements == W!Spec

(* The mutex is held by the thread that is inside, and nobody sleeps while *)
(* the event is set, but for those the broadcast is about to wake: no      *)
(* wake-up is lost.  (linux_compat.cpp:54-56, 507-522)                     *)
NoneAsleep ==
    /\ \A t \in Threads : pc[t] \in Inside <=> mutex = t
    /\ signaled => \/ \E t \in Threads : pc[t] = "wake"
                   \/ \A t \in Threads : pc[t] # "sleep"

(* A wait with a time-out ends, whatever the other threads do, and so does *)
(* a call to SetEvent or ResetEvent; a wait without one does not go on     *)
(* while the event stays set.  (linux_compat.cpp:49-69, 504-535)           *)
Returns ==
    /\ \A t \in Threads : call[t] \in Calls \ {"wait"} ~> call[t] \in Results
    /\ \A t \in Threads : call[t] = "wait" ~> (call[t] # "wait" \/ ~signaled)
=============================================================================
