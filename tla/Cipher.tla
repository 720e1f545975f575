------------------------------- MODULE Cipher -------------------------------
(***************************************************************************)
(* The DES of d3des.cpp and the threads that use it.  deskey writes the    *)
(* key schedule of one direction into the internal key register, KnL, and  *)
(* des applies what the register holds to one block.  The register is one  *)
(* static array for the process: main, the download threads and the client *)
(* threads encrypt (sendDirect, SendRSAPacket) while MsgReceiver and again *)
(* download and client threads decrypt (CheckPacket), and nothing is       *)
(* locked.  A step writes or reads one word of the register.               *)
(*                                                                         *)
(* The rounds of DES are kept: two halves of a block, of which each round  *)
(* changes one by a function of the other and of the round's key.  The     *)
(* permutations at both ends cancel and are left out; the round function   *)
(* is a parameter, and a round's key, two words of the code's register, is *)
(* one word here.  Halves are sets of bits.                                *)
(***************************************************************************)
EXTENDS Naturals, Sequences

CONSTANTS
    Threads,
    Rounds,         \* 16; even, since desfunc does two at a time
    Bits,           \* of half a block
    F,              \* the round function: F[k][half]; k = 0: no key loaded
    Plain           \* a packet and its CRC, in blocks

ASSUME RoundAssumption == Rounds \in Nat \ {0} /\ Rounds % 2 = 0
Half == SUBSET Bits
ASSUME DataAssumption ==
    /\ F \in [0 .. Rounds -> [Half -> Half]]
    /\ Plain \in Seq(Half \X Half)

EN0 == "EN0"
DE1 == "DE1"
Modes == {EN0, DE1}

VARIABLES
    KnL,            \* the internal key register; 0: not loaded
    pc,             \* "idle"; "key": in deskey; "des"; "done": a packet's end
    mode,           \* the direction a thread has asked for
    word,           \* the words it has written, or read for the block
    work,           \* the block in desfunc: <<leftt, right>>
    data,           \* the blocks that are finished
    met             \* the directions of the others since it began

vars == <<KnL, pc, mode, word, work, data, met>>

-----------------------------------------------------------------------------
(* The algorithm.                                                          *)

\* Mutant of Schedule: decryption uses the keys in the order of encryption.
SameOrder(m) == [i \in 1 .. Rounds |-> i]

\* deskey: the round's keys by their numbers, reversed to decrypt.
Schedule(m) ==
    [i \in 1 .. Rounds |-> IF m = DE1 THEN Rounds + 1 - i ELSE i]

Xor(a, b) == (a \ b) \cup (b \ a)

\* The i-th round of desfunc: leftt and right take turns.
Round(w, i, k) ==
    LET f == F[k]
    IN IF i % 2 = 1 THEN <<Xor(w[1], f[w[2]]), w[2]>>
                    ELSE <<w[1], Xor(w[2], f[w[1]])>>

Swap(w) == <<w[2], w[1]>>

\* desfunc with the whole register loaded for one direction: the block after
\* each round.
Halves(m, block) ==
    LET w[i \in 0 .. Rounds] ==
            IF i = 0 THEN block ELSE Round(w[i - 1], i, Schedule(m)[i])
    IN w

Des(m, block) == Swap(Halves(m, block)[Rounds])

Crypt(m, blocks) == [b \in 1 .. Len(blocks) |-> Des(m, blocks[b])]

\* What a thread is given: a packet to send, or one that a peer encrypted.
Input(m) == IF m = EN0 THEN Plain ELSE Crypt(EN0, Plain)

\* What comes out if nothing goes wrong.
Output(m) == IF m = EN0 THEN Crypt(EN0, Plain) ELSE Plain

-----------------------------------------------------------------------------
TypeOK ==
    /\ KnL \in [1 .. Rounds -> 0 .. Rounds]
    /\ pc \in [Threads -> {"idle", "key", "des", "done"}]
    /\ mode \in [Threads -> Modes]
    /\ word \in [Threads -> 0 .. Rounds]
    /\ work \in [Threads -> Half \X Half]
    /\ data \in [Threads -> Seq(Half \X Half)]
    /\ met \in [Threads -> SUBSET Modes]

Blank == <<{}, {}>>

Init ==
    /\ KnL = [i \in 1 .. Rounds |-> 0]
    /\ pc = [t \in Threads |-> "idle"]
    /\ mode = [t \in Threads |-> EN0]
    /\ word = [t \in Threads |-> 0]
    /\ work = [t \in Threads |-> Blank]
    /\ data = [t \in Threads |-> <<>>]
    /\ met = [t \in Threads |-> {}]

Busy(t) == pc[t] # "idle"

\* sendDirect and SendRSAPacket (EN0), CheckPacket (DE1), up to deskey.
Begin(t, m) ==
    /\ pc[t] = "idle"
    /\ pc' = [pc EXCEPT ![t] = "key"]
    /\ mode' = [mode EXCEPT ![t] = m]
    /\ met' = [u \in Threads |->
                  IF u = t THEN {mode[v] : v \in {v \in Threads \ {t} : Busy(v)}}
                  ELSE IF Busy(u) THEN met[u] \cup {m} ELSE met[u]]
    /\ UNCHANGED <<KnL, word, work, data>>

\* Mutant of Loaded: the last word of the register is not written.
AllButOne(t) == word[t] = Rounds - 1

\* Did the thread get to the end of the register?
Loaded(t) == word[t] = Rounds

\* usekey copies the schedule of a local variable into the register.
usekey(t) ==
    /\ pc[t] = "key" /\ ~Loaded(t)
    /\ KnL' = [KnL EXCEPT ![word[t] + 1] = Schedule(mode[t])[word[t] + 1]]
    /\ word' = [word EXCEPT ![t] = @ + 1]
    /\ UNCHANGED <<pc, mode, work, data, met>>

\* scrunch: the next block, if there is one.
Load(t, n) ==
    IF n < Len(Plain)
    THEN /\ pc' = [pc EXCEPT ![t] = "des"]
         /\ work' = [work EXCEPT ![t] = Input(mode[t])[n + 1]]
         /\ word' = [word EXCEPT ![t] = 0]
    ELSE /\ pc' = [pc EXCEPT ![t] = "done"]
         /\ work' = [work EXCEPT ![t] = Blank]
         /\ word' = [word EXCEPT ![t] = 0]

FirstBlock(t) ==
    /\ pc[t] = "key" /\ Loaded(t)
    /\ Load(t, 0)
    /\ UNCHANGED <<KnL, mode, data, met>>

desfunc(t) ==
    /\ pc[t] = "des" /\ word[t] < Rounds
    /\ work' = [work EXCEPT ![t] = Round(@, word[t] + 1, KnL[word[t] + 1])]
    /\ word' = [word EXCEPT ![t] = @ + 1]
    /\ UNCHANGED <<KnL, pc, mode, data, met>>

\* unscrun, and on to the next block.
BlockDone(t) ==
    /\ pc[t] = "des" /\ word[t] = Rounds
    /\ data' = [data EXCEPT ![t] = Append(@, Swap(work[t]))]
    /\ Load(t, Len(data[t]) + 1)
    /\ UNCHANGED <<KnL, mode, met>>

(* The packet is sent, or its CRC compared: CRC-32 is taken to tell every  *)
(* damaged packet from a good one.                                         *)
Finish(t) ==
    /\ pc[t] = "done"
    /\ pc' = [pc EXCEPT ![t] = "idle"]
    /\ data' = [data EXCEPT ![t] = <<>>]
    /\ met' = [met EXCEPT ![t] = {}]
    /\ UNCHANGED <<KnL, mode, word, work>>

Step(t) ==
    \/ \E m \in Modes : Begin(t, m)
    \/ usekey(t) \/ FirstBlock(t) \/ desfunc(t) \/ BlockDone(t) \/ Finish(t)

Next == \E t \in Threads : Step(t)

Spec == Init /\ [][Next]_vars

-----------------------------------------------------------------------------
(* Properties.                                                             *)

Good(t) == data[t] = Output(mode[t])

(* Damage has one cause, an operation of the other direction that overlaps *)
(* this one, and does not outlive it: any number of threads may encrypt,   *)
(* or decrypt, at the same time, and what another thread left in the       *)
(* register is of no consequence.  In particular decryption undoes         *)
(* encryption.  (d3des.cpp:70-104, 327-400; TcpSession.cpp:400; faxgw.cpp:179) *)
Explained ==
    \A t \in Threads : pc[t] = "done" /\ met[t] \subseteq {mode[t]} => Good(t)

(* A thread that met none of the other direction finds in the register     *)
(* what it has written there.  (d3des.cpp:137-144)                         *)
Undisturbed ==
    \A t \in Threads :
        pc[t] \in {"key", "des"} /\ met[t] \subseteq {mode[t]} =>
            \A i \in 1 .. (IF pc[t] = "key" THEN word[t] ELSE Rounds) :
                KnL[i] = Schedule(mode[t])[i]
=============================================================================
