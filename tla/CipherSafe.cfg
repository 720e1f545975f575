\* Three threads that encrypt and decrypt as they like.
SPECIFICATION Spec
CONSTANTS
    Threads = {t1, t2, t3}
    Rounds = 2
    Bits = {b1, b2}
    F <- MCF
    Plain <- MCPlain
SYMMETRY Symmetry
INVARIANT Explained
INVARIANT Undisturbed
