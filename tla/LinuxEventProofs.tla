-------------------------- MODULE LinuxEventProofs --------------------------
(* Proofs about LinuxEvent: the mutex and the sleepers, and the refinement *)
(* of WinEvent.                                                            *)
EXTENDS LinuxEvent, TLAPS

\* What each place in a call says of the call and of the flag.
CallInv ==
    \A t \in Threads :
        /\ pc[t] = "out" <=> call[t] \in Results \cup {"idle"}
        /\ pc[t] \in {"test", "take", "sleep", "woken"} => call[t] \in Waits
        /\ pc[t] \in {"expired", "late"} => call[t] = "timed"
        /\ pc[t] \in {"flag", "wake", "rewake"} => call[t] = "set"
        /\ pc[t] = "clear" => call[t] = "reset"
        /\ pc[t] \in {"take", "wake", "rewake"} => signaled

Inv == TypeOK /\ CallInv /\ NoneAsleep

LEMMA InitInv == Init => Inv
  BY ThreadAssumption
     DEF Init, Inv, TypeOK, CallInv, NoneAsleep, Inside, Outside, Calls, Waits,
         Results

\* One step per action.
LEMMA NextInv == Inv /\ [Next]_vars => Inv'
<1> SUFFICES ASSUME Inv, [Next]_vars PROVE Inv'
  OBVIOUS
<1> USE ThreadAssumption, ResetAssumption
    DEF Inv, TypeOK, CallInv, NoneAsleep, Inside, Outside, Calls, Waits, Results
<1>1. CASE UNCHANGED vars
  BY <1>1 DEF vars
<1>2. ASSUME NEW t \in Threads, NEW op \in Calls, Enter(t, op) PROVE Inv'
  BY <1>2 DEF Enter, Goto
<1>3. ASSUME NEW t \in Threads, Return(t) PROVE Inv'
  BY <1>3 DEF Return
<1>4. ASSUME NEW t \in Threads, Lock(t) PROVE Inv'
  <2>1. call[t] \in Waits \cup {"set", "reset"}
    BY <1>4 DEF Lock, Goto
  <2>2. CASE call[t] \in Waits
    BY <1>4, <2>2 DEF Lock, Goto, Acquire
  <2>3. CASE call[t] = "set"
    BY <1>4, <2>3 DEF Lock, Goto, Acquire
  <2>4. CASE call[t] = "reset"
    BY <1>4, <2>4 DEF Lock, Goto, Acquire
  <2> QED BY <2>1, <2>2, <2>3, <2>4
<1>5. ASSUME NEW t \in Threads, Unlock(t) PROVE Inv'
  BY <1>5 DEF Unlock, Goto
<1>6. ASSUME NEW t \in Threads, RaiseFlag(t) PROVE Inv'
  BY <1>6 DEF RaiseFlag, Goto
<1>7. ASSUME NEW t \in Threads, Broadcast(t) PROVE Inv'
  BY <1>7 DEF Broadcast, Woken
<1>8. ASSUME NEW t \in Threads, ClearFlag(t) PROVE Inv'
  BY <1>8 DEF ClearFlag, Goto
<1>9. ASSUME NEW t \in Threads, Proceed(t) PROVE Inv'
  BY <1>9 DEF Proceed, Goto
<1>10. ASSUME NEW t \in Threads, Sleep(t) PROVE Inv'
  BY <1>10 DEF Sleep, Goto
<1>11. ASSUME NEW t \in Threads, SpuriousWakeup(t) \/ TimeOut(t) PROVE Inv'
  BY <1>11 DEF SpuriousWakeup, TimeOut, Goto
<1>12. ASSUME NEW t \in Threads, WakeUp(t) \/ Late(t) PROVE Inv'
  BY <1>12 DEF WakeUp, Late, Retest, Goto, Acquire
<1>13. ASSUME NEW t \in Threads, Take(t) PROVE Inv'
  BY <1>13 DEF Take, AutoReset, Goto
<1> QED
  BY <1>1, <1>2, <1>3, <1>4, <1>5, <1>6, <1>7, <1>8, <1>9, <1>10, <1>11, <1>12,
     <1>13 DEF Next, Step

LEMMA InvHolds == Spec => []Inv
  BY InitInv, NextInv, PTL DEF Spec

(* Mutual exclusion, and no lost wake-up: nobody sleeps while the event is *)
(* set.  (linux_compat.cpp:49-69, 488-530)                                 *)
THEOREM NobodyMissesIt == Spec => []NoneAsleep
<1>1. Inv => NoneAsleep
  BY DEF Inv
<1> QED BY InvHolds, <1>1, PTL

-----------------------------------------------------------------------------
LEMMA InitRefines == Init => W!Init
  BY DEF Init, W!Init, Set, Phase

LEMMA StepRefines == Inv /\ [Next]_vars => [W!Next]_<<Set, Phase>>
<1> SUFFICES ASSUME Inv, [Next]_vars PROVE [W!Next]_<<Set, Phase>>
  OBVIOUS
<1> USE DEF Inv, TypeOK, CallInv, Set, Phase
<1>1. CASE UNCHANGED vars
  BY <1>1 DEF vars
<1>2. ASSUME NEW t \in Threads, NEW op \in Calls, Enter(t, op)
      PROVE W!Call(t, op) /\ op \in W!Calls
  BY <1>2 DEF Enter, Goto, W!Call, W!Move, W!Calls, Calls, Waits
<1>3. ASSUME NEW t \in Threads, Return(t) PROVE W!Return(t)
  BY <1>3 DEF Return, W!Return, W!Move, W!Results, Results
<1>4. ASSUME NEW t \in Threads, Lock(t) PROVE UNCHANGED <<Set, Phase>>
  <2>1. /\ pc[t] = "lock" /\ call[t] \in Calls
        /\ signaled' = signaled /\ call' = call
        /\ \E to \in {"test", "flag", "clear"} : pc' = [pc EXCEPT ![t] = to]
    BY <1>4 DEF Lock, Goto, Acquire, Waits, Results, Calls
  <2> QED BY <2>1
<1>5. ASSUME NEW t \in Threads, Unlock(t) PROVE UNCHANGED <<Set, Phase>>
  BY <1>5 DEF Unlock, Goto
<1>6. ASSUME NEW t \in Threads, RaiseFlag(t)
      PROVE W!DoSet(t) \/ UNCHANGED <<Set, Phase>>
  BY <1>6 DEF RaiseFlag, Goto, W!DoSet, W!Move, NoneAsleep, Inside
<1>7. ASSUME NEW t \in Threads, Broadcast(t)
      PROVE W!DoSet(t) \/ UNCHANGED <<Set, Phase>>
  BY <1>7 DEF Broadcast, Woken, W!DoSet, W!Move, NoneAsleep, Inside
<1>8. ASSUME NEW t \in Threads, ClearFlag(t) PROVE W!DoReset(t)
  BY <1>8 DEF ClearFlag, Goto, W!DoReset, W!Move
<1>9. ASSUME NEW t \in Threads, Proceed(t) \/ Sleep(t) \/ SpuriousWakeup(t)
      PROVE UNCHANGED <<Set, Phase>>
  BY <1>9 DEF Proceed, Sleep, SpuriousWakeup, Goto
<1>10. ASSUME NEW t \in Threads, WakeUp(t) \/ Late(t)
       PROVE UNCHANGED <<Set, Phase>>
  BY <1>10 DEF WakeUp, Late, Retest, Goto, Acquire
<1>11. ASSUME NEW t \in Threads, TimeOut(t) PROVE W!Expire(t)
  BY <1>11 DEF TimeOut, Goto, W!Expire, W!Move, NoneAsleep
<1>12. ASSUME NEW t \in Threads, Take(t) PROVE W!Release(t)
  BY <1>12, ResetAssumption
     DEF Take, AutoReset, Goto, W!Release, W!Move, NoneAsleep, Inside, Waits
<1> QED
  BY <1>1, <1>2, <1>3, <1>4, <1>5, <1>6, <1>7, <1>8, <1>9, <1>10, <1>11, <1>12
     DEF Next, Step, W!Next

(* The events of linux_compat.cpp do what an event of the Windows API      *)
(* promises (WinEvent), for any number of threads, auto-reset or not.      *)
(* (linux_compat.cpp:33-69, 488-530)                                       *)
THEOREM EventsAreEvents == Spec => Implements
  BY InitRefines, StepRefines, InvHolds, PTL DEF Spec, Implements, W!Spec
=============================================================================
