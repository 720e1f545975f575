------------------------------ MODULE WinEvent ------------------------------
(***************************************************************************)
(* What an event of the Windows API promises to the threads that use it:   *)
(* the abstract specification of LinuxEvent, and what CenterLink (of       *)
(* g_hRecvEvent) and SendSession (of g_hSendRequest) take for granted.     *)
(*                                                                         *)
(* A thread is in at most one call.  The call takes effect in one step     *)
(* between its start and its return: a wait is released only by an event   *)
(* that is set, and consumes it if it is an auto-reset event; a wait       *)
(* expires only while the event is not set.                                *)
(***************************************************************************)
EXTENDS Naturals

CONSTANTS
    Threads,
    ManualReset     \* CreateEvent's bManualReset

VARIABLES
    set,
    phase           \* the call a thread is in, or its result

Calls == {"wait", "timed", "set", "reset"}
Results == {"ok", "timeout"}

Init ==
    /\ set = FALSE
    /\ phase = [t \in Threads |-> "idle"]

Move(t, from, to) ==
    /\ phase[t] \in from
    /\ phase' = [phase EXCEPT ![t] = to]

Call(t, op) == Move(t, {"idle"}, op) /\ UNCHANGED set

Release(t) ==
    /\ Move(t, {"wait", "timed"}, "ok")
    /\ set /\ set' = ManualReset

Expire(t) ==
    /\ Move(t, {"timed"}, "timeout")
    /\ ~set /\ UNCHANGED set

DoSet(t) == Move(t, {"set"}, "ok") /\ set' = TRUE

DoReset(t) == Move(t, {"reset"}, "ok") /\ set' = FALSE

Return(t) == Move(t, Results, "idle") /\ UNCHANGED set

Next == \E t \in Threads :
    \/ \E op \in Calls : Call(t, op)
    \/ Release(t) \/ Expire(t) \/ DoSet(t) \/ DoReset(t) \/ Return(t)

Spec == Init /\ [][Next]_<<set, phase>>
=============================================================================
