------------------------------ MODULE MCCipher ------------------------------
(* The instance of Cipher that TLC checks: see the cfg files.              *)
EXTENDS Cipher, TLC

\* The round function: by the key, the other half is taken as it is, its bits
\* exchanged for the rest, or one bit added.
MCF == [k \in 0 .. Rounds |-> [h \in Half |->
           IF k % 2 = 1 THEN Bits \ h ELSE IF h = {} THEN Bits ELSE {}]]

\* Two blocks.
MCPlain == LET b == CHOOSE b \in Bits : TRUE IN <<<<{b}, {}>>, <<Bits, {b}>>>>

Symmetry == Permutations(Threads)
=============================================================================
