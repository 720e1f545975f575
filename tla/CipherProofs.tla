---------------------------- MODULE CipherProofs ----------------------------
(* Proofs about Cipher: that decryption undoes encryption, the key         *)
(* register as one direction finds it, and what comes out of it.           *)
EXTENDS Cipher, FiniteSetTheorems, TLAPS

(* Induction, as a fact about sets: if 0 is in S and S is closed under the *)
(* successor, a number n not in S would leave i + 1 an injection of the    *)
(* members of S below n into themselves that misses 0.                     *)
LEMMA Induction ==
    ASSUME NEW S \in SUBSET Nat, 0 \in S, \A i \in S : i + 1 \in S
    PROVE  S = Nat
<1> SUFFICES ASSUME NEW n \in Nat, n \notin S PROVE FALSE
  OBVIOUS
<1> DEFINE G == {i \in S : i < n}
           f == [i \in G |-> i + 1]
<1>1. \A i \in G : i + 1 \in G
  <2> SUFFICES ASSUME NEW i \in G PROVE i + 1 \in G
    OBVIOUS
  <2>1. i + 1 \in S /\ i \in Nat /\ i < n
    OBVIOUS
  <2>2. i + 1 # n
    BY <2>1
  <2> QED BY <2>1, <2>2
<1>2. f \in Injection(G, G)
  <2>1. f \in [G -> G]
    BY <1>1
  <2>2. ASSUME NEW i \in G, NEW j \in G, f[i] = f[j] PROVE i = j
    <3>1. i \in Nat /\ j \in Nat /\ i + 1 = j + 1
      BY <2>2
    <3> QED BY <3>1
  <2> QED BY <2>1, <2>2, Zenon DEF Injection, IsInjective
<1>3. IsFiniteSet(G)
  <2>1. G \in SUBSET Nat
    OBVIOUS
  <2>2. ASSUME NEW i \in G PROVE i <= n
    <3>1. i \in Nat /\ i < n
      BY <2>2
    <3> QED BY <3>1
  <2> HIDE DEF G
  <2> QED BY <2>1, <2>2, FS_BoundedSetOfNaturals
<1>4. f \in Surjection(G, G)
  <2> HIDE DEF f, G
  <2> QED BY <1>2, <1>3, FS_Injection
<1>5. 0 \in G
  <2>1. 0 # n
    OBVIOUS
  <2> QED BY <2>1
<1>6. PICK i \in G : f[i] = 0
  <2> HIDE DEF f, G
  <2> QED BY <1>4, <1>5 DEF Surjection
<1> QED BY <1>6

\* The same up to Rounds.
LEMMA RoundInduction ==
    ASSUME NEW S, 0 \in S, \A i \in 0 .. Rounds - 1 : i \in S => i + 1 \in S
    PROVE  0 .. Rounds \subseteq S
<1> DEFINE T == {i \in Nat : i <= Rounds => i \in S}
<1>1. 0 \in T
  OBVIOUS
<1>2. \A i \in T : i + 1 \in T
  BY RoundAssumption
<1>3. T = Nat
  <2> HIDE DEF T
  <2>1. T \in SUBSET Nat
    BY DEF T
  <2> QED BY <1>1, <1>2, <2>1, Induction
<1> QED BY <1>3, RoundAssumption

-----------------------------------------------------------------------------
Blocks == Half \X Half

\* The functions that give the block after each of the first n rounds.
Prefix(m, block, n, w) ==
    w = [i \in 0 .. n |->
            IF i = 0 THEN block ELSE Round(w[i - 1], i, Schedule(m)[i])]

LEMMA PrefixGrows ==
    ASSUME NEW m, NEW block, NEW n \in Nat, NEW w, Prefix(m, block, n, w)
    PROVE  \E v : Prefix(m, block, n + 1, v)
<1> DEFINE R(x, i) == Round(x, i, Schedule(m)[i])
           v == [i \in 0 .. n + 1 |-> IF i <= n THEN w[i] ELSE R(w[n], i)]
           u == [i \in 0 .. n + 1 |-> IF i = 0 THEN block ELSE R(v[i - 1], i)]
<1> HIDE DEF R
<1>1. w = [i \in 0 .. n |-> IF i = 0 THEN block ELSE R(w[i - 1], i)]
  BY DEF Prefix, R
<1>2. ASSUME NEW i \in 0 .. n + 1 PROVE v[i] = u[i]
  <2>1. CASE i = 0
    BY <1>1, <2>1
  <2>2. CASE i # 0 /\ i <= n
    <3>1. i \in 0 .. n /\ i - 1 \in 0 .. n + 1 /\ i - 1 <= n
      BY <2>2
    <3>2. v[i] = w[i] /\ v[i - 1] = w[i - 1] /\ u[i] = R(v[i - 1], i)
      BY <2>2, <3>1
    <3>3. w[i] = R(w[i - 1], i)
      BY <1>1, <2>2, <3>1
    <3> QED BY <3>2, <3>3
  <2>3. CASE i = n + 1
    <3>1. v[n] = w[n] /\ v[n + 1] = R(w[n], n + 1)
      OBVIOUS
    <3>2. u[n + 1] = R(v[n], n + 1)
      OBVIOUS
    <3> QED BY <2>3, <3>1, <3>2
  <2> QED BY <2>1, <2>2, <2>3
<1>3. v = u
  <2>1. v = [i \in 0 .. n + 1 |-> v[i]] /\ u = [i \in 0 .. n + 1 |-> u[i]]
    OBVIOUS
  <2> HIDE DEF u, v
  <2> QED BY <1>2, <2>1
<1>4. Prefix(m, block, n + 1, v)
  BY <1>3 DEF Prefix, R
<1> QED BY <1>4

\* The recursion of Halves is a function's: it has the value of each round.
LEMMA HalvesRounds ==
    ASSUME NEW m, NEW block
    PROVE  /\ Halves(m, block)[0] = block
           /\ \A i \in 1 .. Rounds :
                  Halves(m, block)[i] =
                      Round(Halves(m, block)[i - 1], i, Schedule(m)[i])
<1> DEFINE S == {n \in Nat : \E w : Prefix(m, block, n, w)}
<1>1. 0 \in S
  <2> DEFINE w == [i \in 0 .. 0 |-> block]
  <2>1. w = [i \in 0 .. 0 |-> IF i = 0 THEN block
                               ELSE Round(w[i - 1], i, Schedule(m)[i])]
    OBVIOUS
  <2>2. Prefix(m, block, 0, w)
    BY <2>1 DEF Prefix
  <2> QED BY <2>2
<1>2. \A n \in S : n + 1 \in S
  BY PrefixGrows
<1>3. Rounds \in S
  <2> HIDE DEF S
  <2>1. S \in SUBSET Nat
    BY DEF S
  <2> QED BY <1>1, <1>2, <2>1, Induction, RoundAssumption
<1>4. PICK w : Prefix(m, block, Rounds, w)
  BY <1>3
<1> DEFINE h == Halves(m, block)
<1>5. h = [i \in 0 .. Rounds |->
              IF i = 0 THEN block ELSE Round(h[i - 1], i, Schedule(m)[i])]
  BY <1>4 DEF Halves, Prefix
<1> HIDE DEF h
<1>6. h[0] = block /\ \A i \in 1 .. Rounds : h[i] = Round(h[i - 1], i, Schedule(m)[i])
  BY <1>5, RoundAssumption
<1> QED BY <1>6 DEF h

LEMMA RoundType ==
    ASSUME NEW b \in Blocks, NEW i, NEW k \in 0 .. Rounds
    PROVE  Round(b, i, k) \in Blocks
<1>1. /\ F[k] \in [Half -> Half]
      /\ b[1] \in Half /\ b[2] \in Half
  BY DataAssumption DEF Blocks
<1>2. \A a, c \in Half : Xor(a, c) \in Half
  BY DEF Xor, Half
<1> QED BY <1>1, <1>2 DEF Round, Blocks

LEMMA ScheduleType ==
    ASSUME NEW m \in Modes, NEW i \in 1 .. Rounds
    PROVE  Schedule(m)[i] \in 1 .. Rounds
  BY RoundAssumption DEF Schedule

LEMMA HalvesType ==
    ASSUME NEW m \in Modes, NEW block \in Blocks, NEW n \in 0 .. Rounds
    PROVE  Halves(m, block)[n] \in Blocks
<1> DEFINE S == {i \in Nat : Halves(m, block)[i] \in Blocks}
<1>1. 0 \in S
  BY HalvesRounds
<1>2. ASSUME NEW i \in 0 .. Rounds - 1, i \in S PROVE i + 1 \in S
  <2>1. i + 1 \in 1 .. Rounds /\ i + 1 \in Nat /\ (i + 1) - 1 = i
    BY RoundAssumption
  <2>2. Schedule(m)[i + 1] \in 0 .. Rounds
    BY <2>1, ScheduleType, RoundAssumption
  <2>3. Halves(m, block)[i + 1]
            = Round(Halves(m, block)[i], i + 1, Schedule(m)[i + 1])
    BY <2>1, HalvesRounds
  <2> QED BY <1>2, <2>1, <2>2, <2>3, RoundType
<1>3. 0 .. Rounds \subseteq S
  <2> HIDE DEF S
  <2> QED BY <1>1, <1>2, RoundInduction
<1> QED BY <1>3

LEMMA DesType == ASSUME NEW m \in Modes, NEW block \in Blocks PROVE Des(m, block) \in Blocks
<1>1. Halves(m, block)[Rounds] \in Blocks
  BY HalvesType, RoundAssumption
<1> QED BY <1>1 DEF Des, Swap, Blocks

LEMMA XorTwice == ASSUME NEW a, NEW b PROVE Xor(Xor(a, b), b) = a
  BY DEF Xor

\* A round with the other parity and the halves exchanged undoes a round.
LEMMA RoundUndone ==
    ASSUME NEW b \in Blocks, NEW i \in Nat, NEW j \in Nat, i % 2 # j % 2,
           NEW k \in 0 .. Rounds
    PROVE  Round(Swap(Round(b, i, k)), j, k) = Swap(b)
<1> DEFINE f == F[k]
<1>1. b = <<b[1], b[2]>>
  BY DEF Blocks
<1>2. i % 2 \in {0, 1} /\ j % 2 \in {0, 1}
  OBVIOUS
<1>3. CASE i % 2 = 1
  <2>1. Swap(Round(b, i, k)) = <<b[2], Xor(b[1], f[b[2]])>>
    BY <1>3 DEF Round, Swap
  <2>2. Round(Swap(Round(b, i, k)), j, k) = <<b[2], Xor(Xor(b[1], f[b[2]]), f[b[2]])>>
    BY <1>3, <2>1 DEF Round
  <2> QED BY <2>2, XorTwice DEF Swap
<1>4. CASE i % 2 = 0
  <2>1. Swap(Round(b, i, k)) = <<Xor(b[2], f[b[1]]), b[1]>>
    BY <1>4 DEF Round, Swap
  <2>2. Round(Swap(Round(b, i, k)), j, k) = <<Xor(Xor(b[2], f[b[1]]), f[b[1]]), b[1]>>
    BY <1>2, <1>4, <2>1 DEF Round
  <2> QED BY <2>2, XorTwice DEF Swap
<1> QED BY <1>2, <1>3, <1>4

LEMMA OtherParity ==
    ASSUME NEW j \in 0 .. Rounds - 1
    PROVE  (Rounds - j) % 2 # (j + 1) % 2
<1>1. PICK h \in Nat : Rounds = 2 * h
  BY RoundAssumption
<1> QED BY <1>1

\* Decryption goes through the halves of encryption backwards.
LEMMA Backwards ==
    ASSUME NEW block \in Blocks, NEW n \in 0 .. Rounds
    PROVE  Halves(DE1, Des(EN0, block))[n] = Swap(Halves(EN0, block)[Rounds - n])
<1> DEFINE e == Halves(EN0, block)
           d == Halves(DE1, Des(EN0, block))
           S == {i \in Nat : d[i] = Swap(e[Rounds - i])}
<1>1. 0 \in S
  <2>1. d[0] = Des(EN0, block)
    BY HalvesRounds
  <2> QED BY <2>1, RoundAssumption DEF Des
<1>2. ASSUME NEW j \in 0 .. Rounds - 1, j \in S PROVE j + 1 \in S
  <2> DEFINE i == Rounds - j
  <2>1. /\ i \in 1 .. Rounds /\ i \in Nat /\ i - 1 \in 0 .. Rounds /\ i \in 0 .. Rounds
        /\ j + 1 \in 1 .. Rounds /\ j + 1 \in Nat /\ (j + 1) - 1 = j
        /\ Rounds - (j + 1) = i - 1
    BY RoundAssumption
  <2>2. Schedule(EN0)[i] = i /\ Schedule(DE1)[j + 1] = i
    BY <2>1, RoundAssumption DEF Schedule, EN0, DE1
  <2>3. e[i] = Round(e[i - 1], i, i)
    BY <2>1, <2>2, HalvesRounds
  <2>4. d[j + 1] = Round(d[j], j + 1, i)
    BY <2>1, <2>2, HalvesRounds
  <2>5. e[i - 1] \in Blocks
    BY <2>1, HalvesType DEF Modes
  <2>6. i % 2 # (j + 1) % 2
    BY OtherParity
  <2>7. d[j] = Swap(e[i])
    BY <1>2
  <2> HIDE DEF d, e, i
  <2>8. Round(Swap(Round(e[i - 1], i, i)), j + 1, i) = Swap(e[i - 1])
    BY <2>1, <2>5, <2>6, RoundUndone
  <2>9. d[j + 1] = Swap(e[Rounds - (j + 1)])
    BY <2>1, <2>3, <2>4, <2>7, <2>8
  <2> QED BY <2>1, <2>9
<1>3. 0 .. Rounds \subseteq S
  <2> HIDE DEF S
  <2> QED BY <1>1, <1>2, RoundInduction
<1> QED BY <1>3

LEMMA DecryptionUndoes ==
    ASSUME NEW block \in Blocks PROVE Des(DE1, Des(EN0, block)) = block
<1>1. Halves(DE1, Des(EN0, block))[Rounds] = Swap(Halves(EN0, block)[0])
  BY Backwards, RoundAssumption
<1>2. Halves(EN0, block)[0] = block
  BY HalvesRounds
<1> QED BY <1>1, <1>2 DEF Des, Swap, Blocks

-----------------------------------------------------------------------------
(* The key register.                                                       *)

\* Overlapping operations know of each other's direction.
MetInv == \A t, u \in Threads : t # u /\ Busy(t) /\ Busy(u) => mode[u] \in met[t]

\* No word is written or read between operations.
WordInv == \A t \in Threads : pc[t] \in {"idle", "done"} => word[t] = 0

\* The part of the type invariant that the register depends on.
RegisterType ==
    /\ DOMAIN KnL = 1 .. Rounds
    /\ KnL \in [1 .. Rounds -> 0 .. Rounds]
    /\ pc \in [Threads -> {"idle", "key", "des", "done"}]
    /\ mode \in [Threads -> Modes]
    /\ word \in [Threads -> 0 .. Rounds]
    /\ met \in [Threads -> SUBSET Modes]

Inv == RegisterType /\ MetInv /\ WordInv /\ Undisturbed

LEMMA InitInv == Init => Inv
  BY RoundAssumption
     DEF Init, Inv, RegisterType, MetInv, WordInv, Undisturbed, Busy, Modes, EN0

\* A thread that has the whole register written goes on to a block, or ends.
LEMMA Moves ==
    ASSUME Inv, NEW t \in Threads, NEW p \in {"des", "done"},
           pc[t] = "des" \/ (pc[t] = "key" /\ word[t] = Rounds),
           pc' = [pc EXCEPT ![t] = p], word' = [word EXCEPT ![t] = 0],
           UNCHANGED <<KnL, mode, met>>
    PROVE  Inv'
<1> USE RoundAssumption DEF Inv, RegisterType, MetInv, WordInv, Busy
<1>1. RegisterType' /\ MetInv' /\ WordInv'
  OBVIOUS
<1>2. ASSUME NEW u \in Threads, pc'[u] \in {"key", "des"},
             met'[u] \subseteq {mode'[u]},
             NEW i \in 1 .. (IF pc'[u] = "key" THEN word'[u] ELSE Rounds)
      PROVE  KnL'[i] = Schedule(mode'[u])[i]
  <2>1. pc[u] \in {"key", "des"}
        /\ i \in 1 .. (IF pc[u] = "key" THEN word[u] ELSE Rounds)
    BY <1>2
  <2>2. KnL[i] = Schedule(mode[u])[i]
    BY <1>2, <2>1 DEF Undisturbed
  <2> QED BY <2>2
<1>3. Undisturbed'
  BY ONLY <1>2 DEF Undisturbed
<1> QED BY <1>1, <1>3

LEMMA NextInv == Inv /\ [Next]_vars => Inv'
<1> SUFFICES ASSUME Inv, [Next]_vars PROVE Inv'
  OBVIOUS
<1> USE RoundAssumption DEF Inv, RegisterType, MetInv, WordInv, Busy
<1>1. CASE UNCHANGED vars
  BY <1>1 DEF vars, Undisturbed
<1>2. ASSUME NEW t \in Threads, NEW m \in Modes, Begin(t, m) PROVE Inv'
  <2>1. RegisterType' /\ MetInv' /\ WordInv'
    BY <1>2 DEF Begin
  <2>2. ASSUME NEW u \in Threads, u # t
        PROVE  /\ pc'[u] = pc[u] /\ mode'[u] = mode[u]
               /\ Busy(u) => met[u] \subseteq met'[u]
    BY <1>2, <2>2 DEF Begin
  <2>3. pc'[t] = "key" /\ word[t] = 0 /\ word' = word /\ KnL' = KnL
    BY <1>2 DEF Begin
  <2>4. ASSUME NEW u \in Threads, pc'[u] \in {"key", "des"},
               met'[u] \subseteq {mode'[u]},
               NEW i \in 1 .. (IF pc'[u] = "key" THEN word'[u] ELSE Rounds)
        PROVE  KnL'[i] = Schedule(mode'[u])[i]
    <3>1. u # t
      BY <2>3, <2>4
    <3>2. KnL[i] = Schedule(mode[u])[i]
      BY <2>2, <2>3, <2>4, <3>1 DEF Undisturbed
    <3> QED BY <2>2, <2>3, <3>1, <3>2
  <2>5. Undisturbed'
    BY <2>4 DEF Undisturbed
  <2> QED BY <2>1, <2>5
<1>3. ASSUME NEW t \in Threads, usekey(t) PROVE Inv'
  <2> DEFINE w == word[t] + 1
  <2>1. w \in 1 .. Rounds /\ Schedule(mode[t])[w] \in 1 .. Rounds
    BY <1>3, ScheduleType DEF usekey, Loaded
  <2>2. RegisterType' /\ MetInv' /\ WordInv'
    BY <1>3, <2>1 DEF usekey
  <2>3. /\ KnL' = [KnL EXCEPT ![w] = Schedule(mode[t])[w]]
        /\ word' = [word EXCEPT ![t] = w]
        /\ pc[t] = "key" /\ pc' = pc /\ mode' = mode /\ met' = met
    BY <1>3 DEF usekey
  <2>4. ASSUME NEW u \in Threads, pc'[u] \in {"key", "des"},
               met'[u] \subseteq {mode'[u]},
               NEW i \in 1 .. (IF pc'[u] = "key" THEN word'[u] ELSE Rounds)
        PROVE  KnL'[i] = Schedule(mode'[u])[i]
    <3>1. CASE i = w
      <4>1. mode[u] = mode[t]
        BY <2>3, <2>4
      <4>2. KnL'[w] = Schedule(mode[t])[w]
        BY <2>1, <2>3
      <4> QED BY <2>3, <3>1, <4>1, <4>2
    <3>2. CASE i # w
      <4>1. i \in 1 .. (IF pc[u] = "key" THEN word[u] ELSE Rounds)
        BY <2>1, <2>3, <2>4, <3>2
      <4>2. KnL[i] = Schedule(mode[u])[i]
        BY <2>3, <2>4, <4>1 DEF Undisturbed
      <4>3. i \in 1 .. Rounds
        BY <2>3, <2>4, <4>1
      <4> QED BY <2>1, <2>3, <3>2, <4>2, <4>3
    <3> QED BY <3>1, <3>2
  <2>5. Undisturbed'
    BY ONLY <2>4 DEF Undisturbed
  <2> QED BY <2>2, <2>5
<1>4. ASSUME NEW t \in Threads, FirstBlock(t) PROVE Inv'
  <2>1. /\ pc[t] = "key" /\ word[t] = Rounds
        /\ \E p \in {"des", "done"} : pc' = [pc EXCEPT ![t] = p]
        /\ word' = [word EXCEPT ![t] = 0]
        /\ UNCHANGED <<KnL, mode, met>>
    BY <1>4 DEF FirstBlock, Loaded, Load
  <2> QED BY <2>1, Moves
<1>5. ASSUME NEW t \in Threads, desfunc(t) PROVE Inv'
  <2>1. RegisterType' /\ MetInv' /\ WordInv'
    BY <1>5 DEF desfunc
  <2>2. Undisturbed'
    BY <1>5 DEF desfunc, Undisturbed
  <2> QED BY <2>1, <2>2
<1>6. ASSUME NEW t \in Threads, BlockDone(t) PROVE Inv'
  <2>1. /\ pc[t] = "des"
        /\ \E p \in {"des", "done"} : pc' = [pc EXCEPT ![t] = p]
        /\ word' = [word EXCEPT ![t] = 0]
        /\ UNCHANGED <<KnL, mode, met>>
    BY <1>6 DEF BlockDone, Load
  <2> QED BY <2>1, Moves
<1>7. ASSUME NEW t \in Threads, Finish(t) PROVE Inv'
  BY <1>7 DEF Finish, Undisturbed
<1> QED BY <1>1, <1>2, <1>3, <1>4, <1>5, <1>6, <1>7 DEF Next, Step

(* For any number of threads, rounds and blocks: a thread that no thread   *)
(* of the other direction has overlapped finds in the key register what it *)
(* has written there, and reads its own schedule to the end of its packet. *)
(* (d3des.cpp:70-154)                                                      *)
THEOREM RegisterUndisturbed == Spec => []Undisturbed
<1>1. Inv => Undisturbed
  BY DEF Inv
<1> QED BY InitInv, NextInv, <1>1, PTL DEF Spec

-----------------------------------------------------------------------------
(* What comes out.                                                         *)

\* The n-th block of a packet comes out of des as it should.
LEMMA InputOutput ==
    ASSUME NEW m \in Modes
    PROVE  /\ Output(m) \in Seq(Blocks) /\ Len(Output(m)) = Len(Plain)
           /\ \A n \in 1 .. Len(Plain) : /\ Input(m)[n] \in Blocks
                                         /\ Output(m)[n] = Des(m, Input(m)[n])
<1> DEFINE l == Len(Plain)
           c == Crypt(EN0, Plain)
<1>1. Plain \in Seq(Blocks) /\ l \in Nat /\ \A n \in 1 .. l : Plain[n] \in Blocks
  BY DataAssumption DEF Blocks
<1>2. c = [n \in 1 .. l |-> Des(EN0, Plain[n])]
  BY DEF Crypt
<1>3. ASSUME NEW n \in 1 .. l
      PROVE  c[n] = Des(EN0, Plain[n]) /\ c[n] \in Blocks /\ Des(DE1, c[n]) = Plain[n]
  <2>1. Plain[n] \in Blocks /\ EN0 \in Modes
    BY <1>1 DEF Modes
  <2>2. c[n] = Des(EN0, Plain[n])
    BY <1>2
  <2> HIDE DEF c, l
  <2> QED BY <2>1, <2>2, DesType, DecryptionUndoes
<1>4. c \in Seq(Blocks) /\ Len(c) = l
  <2> HIDE DEF l
  <2>1. c \in [1 .. l -> Blocks]
    BY <1>2, <1>3
  <2> HIDE DEF c
  <2> QED BY <1>1, <2>1
<1> HIDE DEF c, l
<1>5. CASE m = EN0
  <2>1. Input(m) = Plain /\ Output(m) = c
    BY <1>5 DEF Input, Output, c
  <2> QED BY <1>1, <1>3, <1>4, <1>5, <2>1 DEF l
<1>6. CASE m = DE1
  <2>1. Input(m) = c /\ Output(m) = Plain
    BY <1>6 DEF Input, Output, c, EN0, DE1
  <2> QED BY <1>1, <1>3, <1>4, <1>6, <2>1 DEF l
<1> QED BY <1>5, <1>6 DEF Modes

\* Where a thread is in its packet.
PlaceInv(t) ==
    /\ pc[t] \in {"idle", "key"} => data[t] = <<>>
    /\ pc[t] = "des" => Len(data[t]) < Len(Plain)
    /\ pc[t] = "done" => Len(data[t]) = Len(Plain)

\* A thread that met none of the other direction: its blocks so far.
BlockInv(t) ==
    met[t] \subseteq {mode[t]} =>
        /\ \A n \in 1 .. Len(data[t]) : data[t][n] = Output(mode[t])[n]
        /\ pc[t] = "des" =>
               work[t] = Halves(mode[t], Input(mode[t])[Len(data[t]) + 1])[word[t]]

DataInv == TypeOK /\ \A t \in Threads : PlaceInv(t) /\ BlockInv(t)

LEMMA InitData == Init => DataInv
<1> SUFFICES ASSUME Init PROVE DataInv
  OBVIOUS
<1>1. {} \in Half /\ <<>> \in Seq(Half \X Half) /\ Len(<<>>) = 0
  BY DEF Half
<1>2. TypeOK
  <2>1. data \in [Threads -> Seq(Half \X Half)] /\ work \in [Threads -> Half \X Half]
    BY <1>1 DEF Init, Blank
  <2>2. /\ KnL \in [1 .. Rounds -> 0 .. Rounds]
        /\ pc \in [Threads -> {"idle", "key", "des", "done"}]
        /\ mode \in [Threads -> Modes]
        /\ word \in [Threads -> 0 .. Rounds]
        /\ met \in [Threads -> SUBSET Modes]
    BY RoundAssumption DEF Init, Modes
  <2> QED BY <2>1, <2>2 DEF TypeOK
<1>3. ASSUME NEW t \in Threads PROVE PlaceInv(t) /\ BlockInv(t)
  <2>1. pc[t] = "idle" /\ data[t] = <<>> /\ Len(data[t]) = 0
    BY <1>1 DEF Init
  <2> QED BY <2>1 DEF PlaceInv, BlockInv
<1> QED BY <1>2, <1>3 DEF DataInv

\* The next block, or the end of the packet.
LEMMA NextBlock ==
    ASSUME TypeOK, TypeOK', NEW t \in Threads, Len(data'[t]) <= Len(Plain),
           mode' = mode, met' = met, Load(t, Len(data'[t])),
           met[t] \subseteq {mode[t]} =>
               \A n \in 1 .. Len(data'[t]) : data'[t][n] = Output(mode[t])[n]
    PROVE  PlaceInv(t)' /\ BlockInv(t)'
<1> DEFINE n == Len(data'[t])
<1>1. n \in Nat /\ Len(Plain) \in Nat
  BY DataAssumption DEF TypeOK
<1>2. CASE n < Len(Plain)
  <2>1. /\ pc'[t] = "des" /\ word'[t] = 0
        /\ work'[t] = Input(mode[t])[n + 1]
    BY <1>2 DEF Load, TypeOK
  <2>2. work'[t] = Halves(mode[t], Input(mode[t])[n + 1])[word'[t]]
    BY <2>1, HalvesRounds
  <2> QED BY <1>2, <2>1, <2>2 DEF PlaceInv, BlockInv
<1>3. CASE ~(n < Len(Plain))
  <2>1. pc'[t] = "done" /\ n = Len(Plain)
    BY <1>1, <1>3 DEF Load, TypeOK
  <2> QED BY <2>1 DEF PlaceInv, BlockInv
<1> QED BY <1>2, <1>3

LEMMA LoadType ==
    ASSUME TypeOK, NEW t \in Threads, NEW n \in Nat, Load(t, n)
    PROVE  /\ pc' \in [Threads -> {"idle", "key", "des", "done"}]
           /\ word' \in [Threads -> 0 .. Rounds]
           /\ work' \in [Threads -> Half \X Half]
           /\ \A u \in Threads \ {t} : /\ pc'[u] = pc[u] /\ word'[u] = word[u]
                                       /\ work'[u] = work[u]
<1>1. CASE n < Len(Plain)
  <2>1. mode[t] \in Modes /\ n + 1 \in 1 .. Len(Plain)
    BY <1>1, DataAssumption DEF TypeOK
  <2>2. Input(mode[t])[n + 1] \in Half \X Half
    BY <2>1, InputOutput DEF Blocks
  <2>3. /\ pc' = [pc EXCEPT ![t] = "des"]
        /\ work' = [work EXCEPT ![t] = Input(mode[t])[n + 1]]
        /\ word' = [word EXCEPT ![t] = 0]
    BY <1>1 DEF Load
  <2> QED BY <2>2, <2>3, RoundAssumption DEF TypeOK
<1>2. CASE ~(n < Len(Plain))
  <2>1. Blank \in Half \X Half
    BY DEF Blank, Half
  <2>2. /\ pc' = [pc EXCEPT ![t] = "done"]
        /\ work' = [work EXCEPT ![t] = Blank]
        /\ word' = [word EXCEPT ![t] = 0]
    BY <1>2 DEF Load
  <2> QED BY <2>1, <2>2, RoundAssumption DEF TypeOK
<1> QED BY <1>1, <1>2

\* What a thread does leaves the packets of the others alone.
LEMMA OthersData ==
    ASSUME NEW u \in Threads, PlaceInv(u), BlockInv(u),
           pc'[u] = pc[u], mode'[u] = mode[u], data'[u] = data[u],
           word'[u] = word[u] \/ pc[u] # "des", work'[u] = work[u],
           met[u] \subseteq met'[u]
    PROVE  PlaceInv(u)' /\ BlockInv(u)'
<1>1. PlaceInv(u)'
  BY DEF PlaceInv
<1>2. BlockInv(u)'
  BY DEF BlockInv
<1> QED BY <1>1, <1>2

LEMMA DataStep == Inv /\ DataInv /\ [Next]_vars => DataInv'
<1> SUFFICES ASSUME Inv, DataInv, [Next]_vars PROVE DataInv'
  OBVIOUS
<1>0. TypeOK /\ \A t \in Threads : PlaceInv(t) /\ BlockInv(t)
  BY DEF DataInv
<1>1. CASE UNCHANGED vars
  BY <1>0, <1>1 DEF vars, DataInv, TypeOK, PlaceInv, BlockInv
<1>2. ASSUME NEW t \in Threads, NEW m \in Modes, Begin(t, m) PROVE DataInv'
  <2>1. TypeOK'
    BY <1>0, <1>2 DEF Begin, TypeOK, Busy
  <2>2. ASSUME NEW u \in Threads, u # t PROVE PlaceInv(u)' /\ BlockInv(u)'
    <3>1. /\ pc'[u] = pc[u] /\ mode'[u] = mode[u] /\ data'[u] = data[u]
          /\ word'[u] = word[u] /\ work'[u] = work[u] /\ met[u] \subseteq met'[u]
      BY <1>0, <1>2, <2>2 DEF Begin, TypeOK
    <3> QED BY <1>0, <3>1, OthersData
  <2>3. pc'[t] = "key" /\ data'[t] = <<>> /\ Len(<<>>) = 0
    BY <1>0, <1>2 DEF Begin, TypeOK, PlaceInv
  <2>4. PlaceInv(t)' /\ BlockInv(t)'
    BY <2>3 DEF PlaceInv, BlockInv
  <2> QED BY <2>1, <2>2, <2>4 DEF DataInv
<1>3. ASSUME NEW t \in Threads, usekey(t) PROVE DataInv'
  <2>1. word[t] + 1 \in 1 .. Rounds /\ mode[t] \in Modes
    BY <1>0, <1>3, RoundAssumption DEF usekey, Loaded, TypeOK
  <2>2. Schedule(mode[t])[word[t] + 1] \in 1 .. Rounds
    BY <2>1, ScheduleType
  <2>3. TypeOK'
    BY <1>0, <1>3, <2>1, <2>2, RoundAssumption DEF usekey, TypeOK
  <2>4. ASSUME NEW u \in Threads PROVE PlaceInv(u)' /\ BlockInv(u)'
    <3>1. /\ UNCHANGED <<pc, mode, work, data, met>>
          /\ word'[u] = word[u] \/ pc[u] # "des"
      BY <1>0, <1>3 DEF usekey, TypeOK
    <3> QED BY <1>0, <3>1, OthersData
  <2> QED BY <2>3, <2>4 DEF DataInv
<1>4. ASSUME NEW t \in Threads, FirstBlock(t) PROVE DataInv'
  <2>1. data' = data /\ data[t] = <<>> /\ Len(data'[t]) = 0 /\ Load(t, 0)
        /\ UNCHANGED <<KnL, mode, met>>
    BY <1>0, <1>4 DEF FirstBlock, PlaceInv
  <2>2. TypeOK'
    BY <1>0, <2>1, LoadType DEF TypeOK
  <2>3. PlaceInv(t)' /\ BlockInv(t)'
    <3>1. Len(data'[t]) <= Len(Plain) /\ Load(t, Len(data'[t]))
      BY <2>1, DataAssumption
    <3> QED BY <1>0, <2>1, <2>2, <3>1, NextBlock
  <2>4. ASSUME NEW u \in Threads, u # t PROVE PlaceInv(u)' /\ BlockInv(u)'
    <3>1. pc'[u] = pc[u] /\ word'[u] = word[u] /\ work'[u] = work[u]
      BY <1>0, <2>1, <2>4, LoadType
    <3> QED BY <1>0, <2>1, <3>1, OthersData
  <2> QED BY <2>2, <2>3, <2>4 DEF DataInv
<1>5. ASSUME NEW t \in Threads, desfunc(t) PROVE DataInv'
  <2> DEFINE i == word[t] + 1
  <2>1. /\ i \in 1 .. Rounds /\ i - 1 = word[t] /\ mode[t] \in Modes
        /\ KnL[i] \in 0 .. Rounds /\ work[t] \in Blocks
    BY <1>0, <1>5, RoundAssumption DEF desfunc, TypeOK, Blocks
  <2>2. /\ pc[t] = "des" /\ work' = [work EXCEPT ![t] = Round(work[t], i, KnL[i])]
        /\ word' = [word EXCEPT ![t] = i] /\ UNCHANGED <<KnL, pc, mode, data, met>>
    BY <1>5 DEF desfunc
  <2> HIDE DEF i
  <2>3. Round(work[t], i, KnL[i]) \in Blocks
    BY <2>1, RoundType
  <2>4. TypeOK'
    BY <1>0, <2>1, <2>2, <2>3 DEF TypeOK, Blocks
  <2>5. ASSUME met[t] \subseteq {mode[t]}
        PROVE  work'[t] = Halves(mode[t], Input(mode[t])[Len(data[t]) + 1])[word'[t]]
    <3>1. KnL[i] = Schedule(mode[t])[i]
      BY <2>1, <2>2, <2>5 DEF Inv, Undisturbed
    <3>2. work[t] = Halves(mode[t], Input(mode[t])[Len(data[t]) + 1])[i - 1]
      BY <1>0, <2>1, <2>2, <2>5 DEF BlockInv
    <3>3. work'[t] = Round(work[t], i, KnL[i]) /\ word'[t] = i
      BY <1>0, <2>2 DEF TypeOK
    <3> QED BY <2>1, <3>1, <3>2, <3>3, HalvesRounds
  <2>6. PlaceInv(t)' /\ BlockInv(t)'
    BY <1>0, <2>2, <2>5 DEF PlaceInv, BlockInv
  <2>7. ASSUME NEW u \in Threads, u # t PROVE PlaceInv(u)' /\ BlockInv(u)'
    <3>1. word'[u] = word[u] /\ work'[u] = work[u]
      BY <1>0, <2>2, <2>7 DEF TypeOK
    <3> QED BY <1>0, <2>2, <3>1, OthersData
  <2> QED BY <2>4, <2>6, <2>7 DEF DataInv
<1>6. ASSUME NEW t \in Threads, BlockDone(t) PROVE DataInv'
  <2> DEFINE l == Len(data[t])
             b == Swap(work[t])
  <2>1. /\ pc[t] = "des" /\ word[t] = Rounds
        /\ data' = [data EXCEPT ![t] = Append(data[t], b)]
        /\ Load(t, l + 1) /\ UNCHANGED <<KnL, mode, met>>
    BY <1>6 DEF BlockDone
  <2>2. /\ data[t] \in Seq(Blocks) /\ l \in Nat /\ b \in Blocks
        /\ l < Len(Plain) /\ Len(Plain) \in Nat /\ mode[t] \in Modes
    BY <1>0, <2>1, DataAssumption DEF TypeOK, Blocks, PlaceInv, Swap
  <2> HIDE DEF b
  <2>3. /\ data'[t] = Append(data[t], b) /\ Append(data[t], b) \in Seq(Blocks)
        /\ Len(data'[t]) = l + 1 /\ data'[t][l + 1] = b
        /\ \A n \in 1 .. l : data'[t][n] = data[t][n]
    BY <1>0, <2>1, <2>2 DEF TypeOK
  <2>4. data' \in [Threads -> Seq(Half \X Half)]
    BY <1>0, <2>1, <2>3 DEF TypeOK, Blocks
  <2>5. TypeOK'
    BY <1>0, <2>1, <2>2, <2>4, LoadType DEF TypeOK
  <2>6. ASSUME met[t] \subseteq {mode[t]}, NEW n \in 1 .. Len(data'[t])
        PROVE  data'[t][n] = Output(mode[t])[n]
    <3>1. CASE n \in 1 .. l
      <4>1. data[t][n] = Output(mode[t])[n]
        BY <1>0, <2>6, <3>1 DEF BlockInv
      <4> QED BY <2>3, <3>1, <4>1
    <3>2. CASE n \notin 1 .. l
      <4>1. n = l + 1 /\ n \in 1 .. Len(Plain)
        BY <2>2, <2>3, <2>6, <3>2
      <4>2. work[t] = Halves(mode[t], Input(mode[t])[n])[Rounds]
        BY <1>0, <2>1, <2>6, <4>1 DEF BlockInv
      <4>3. b = Des(mode[t], Input(mode[t])[n])
        BY <4>2 DEF b, Des
      <4>4. Output(mode[t])[n] = Des(mode[t], Input(mode[t])[n])
        BY <2>2, <4>1, InputOutput
      <4> QED BY <2>3, <4>1, <4>3, <4>4
    <3> QED BY <3>1, <3>2
  <2>7. PlaceInv(t)' /\ BlockInv(t)'
    <3>1. Len(data'[t]) <= Len(Plain) /\ Load(t, Len(data'[t]))
      BY <2>1, <2>2, <2>3
    <3> QED BY <1>0, <2>1, <2>5, <2>6, <3>1, NextBlock
  <2>8. ASSUME NEW u \in Threads, u # t PROVE PlaceInv(u)' /\ BlockInv(u)'
    <3>1. /\ pc'[u] = pc[u] /\ word'[u] = word[u] /\ work'[u] = work[u]
          /\ data'[u] = data[u]
      BY <1>0, <2>1, <2>2, <2>8, LoadType DEF TypeOK
    <3> QED BY <1>0, <2>1, <3>1, OthersData
  <2> QED BY <2>5, <2>7, <2>8 DEF DataInv
<1>7. ASSUME NEW t \in Threads, Finish(t) PROVE DataInv'
  <2>1. <<>> \in Seq(Half \X Half) /\ Len(<<>>) = 0
    OBVIOUS
  <2>2. TypeOK'
    BY <1>0, <1>7, <2>1 DEF Finish, TypeOK
  <2>3. PlaceInv(t)' /\ BlockInv(t)'
    BY <1>0, <1>7, <2>1 DEF Finish, TypeOK, PlaceInv, BlockInv
  <2>4. ASSUME NEW u \in Threads, u # t PROVE PlaceInv(u)' /\ BlockInv(u)'
    <3>1. /\ pc'[u] = pc[u] /\ data'[u] = data[u] /\ met'[u] = met[u]
          /\ UNCHANGED <<mode, word, work>>
      BY <1>0, <1>7, <2>4 DEF Finish, TypeOK
    <3> QED BY <1>0, <3>1, OthersData
  <2> QED BY <2>2, <2>3, <2>4 DEF DataInv
<1> QED BY <1>1, <1>2, <1>3, <1>4, <1>5, <1>6, <1>7 DEF Next, Step

(* For any number of threads, rounds and blocks and whatever the round     *)
(* function: a packet that met no operation of the other direction comes   *)
(* out as it should, encrypted, or as it was before the peer encrypted it. *)
(* (d3des.cpp:70-104, 327-400)                                             *)
THEOREM DamageExplained == Spec => []Explained
<1>1. ASSUME DataInv PROVE Explained
  <2> SUFFICES ASSUME NEW t \in Threads, pc[t] = "done", met[t] \subseteq {mode[t]}
               PROVE  data[t] = Output(mode[t])
    BY DEF Explained, Good
  <2>1. /\ data[t] \in Seq(Blocks) /\ mode[t] \in Modes /\ Len(data[t]) = Len(Plain)
        /\ \A n \in 1 .. Len(data[t]) : data[t][n] = Output(mode[t])[n]
    BY <1>1 DEF DataInv, TypeOK, PlaceInv, BlockInv, Blocks
  <2>2. Output(mode[t]) \in Seq(Blocks) /\ Len(Output(mode[t])) = Len(Plain)
    BY <2>1, InputOutput
  <2> QED BY <2>1, <2>2
<1> QED BY InitInv, NextInv, InitData, DataStep, <1>1, PTL DEF Spec
=============================================================================
