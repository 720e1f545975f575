---------------------------- MODULE MCFrameReader ----------------------------
(* The instance of FrameReader that TLC checks: see the cfg file.          *)
EXTENDS FrameReader

\* Bodies with the two bytes that begin a frame, and a length field that looks
\* like them.
MCBodies ==
    UNION {[1 .. n -> {H1, H2}] : n \in 1 .. 2} \cup {<<H1, H2, H1>>, <<H2, H1, H2>>}
MCField == [n \in 1 .. 3 |-> <<H1, n>>]
MCLength == [field \in [1 .. 2 -> Byte] |-> field[2]]

\* The center's byPacket is smaller than its longest frame.
MCShortest == [r \in Readers |-> IF r = "center" THEN 2 ELSE 0]
MCBufferSize == [r \in Readers |-> IF r = "center" THEN 2 ELSE 3]
=============================================================================
