----------------------------- MODULE FrameStream -----------------------------
(***************************************************************************)
(* What the readers of frames promise, whatever the frames contain and     *)
(* wherever recv() cuts the stream: the frames of a connection are handed  *)
(* over whole, in the order they were sent, each once.  When a connection  *)
(* ends, the frames it still held are lost.  The promise can break only    *)
(* inside a frame, and a reader that starts again keeps it again.          *)
(***************************************************************************)
EXTENDS Naturals, Sequences

CONSTANT Bodies         \* what a frame may contain

VARIABLES
    pending,            \* sent and not handed over
    got,                \* handed over
    begun,              \* the first of them has been read in part
    intact              \* the promise holds

vars == <<pending, got, begun, intact>>

Init == pending = <<>> /\ got = <<>> /\ begun = FALSE /\ intact = TRUE

Send(body) == pending' = Append(pending, body) /\ UNCHANGED <<got, begun, intact>>

Read == pending # <<>> /\ begun' /\ UNCHANGED <<pending, got, intact>>

HandOver ==
    /\ pending # <<>>
    /\ got' = Append(got, Head(pending))
    /\ pending' = Tail(pending)
    /\ ~begun' /\ UNCHANGED intact

\* The connection ends, and between two frames that does no harm.
Lose ==
    /\ pending' = <<>> /\ ~begun' /\ UNCHANGED got
    /\ ~begun => intact'

Break == begun' /\ ~intact' /\ UNCHANGED <<pending, got>>

Garble == ~intact /\ ~intact'

Next ==
    \/ intact /\ (Read \/ HandOver \/ Lose \/ Break \/ \E body \in Bodies : Send(body))
    \/ Garble
    \/ ~intact /\ intact' /\ pending' = <<>> /\ ~begun' /\ UNCHANGED got

Spec == Init /\ [][Next]_vars
=============================================================================
